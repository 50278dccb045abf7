----------------------------- MODULE ApiWrites -----------------------------
(***************************************************************************)
(* The write side of the loopback daemon: POST /events, /diffs and         *)
(* /assertions.  ThreadingHTTPServer runs every request on a thread of its *)
(* own; all of them share one ApiAdapterService and take no lock.  A       *)
(* commit looks for an earlier event with its idempotency key, appends its *)
(* own event when there is none, and then writes the audit record; a       *)
(* client may repeat a request at any time, also while the first one runs. *)
(*                                                                         *)
(* Only events that carry API metadata are in the log here: the others     *)
(* never match a key.  Torn lines and the index files are ChronicleStore's *)
(* business; what matters here is whether a rebuild raises.                *)
(***************************************************************************)
EXTENDS Naturals, Sequences, FiniteSets

CONSTANTS
  Threads,      \* the daemon's request threads
  Endpoints,    \* the write endpoints in use, a subset of AllEndpoints
  Keys,         \* the idempotency keys clients send
  MaxRequests,  \* bound: requests received
  MaxFail,      \* bound: failures of an audit append
  MaxStop       \* bound: stops of the daemon, requests still running

AllEndpoints == {"events", "diffs", "assertions"}

ASSUME EndpointsAssumption == Endpoints \subseteq AllEndpoints
ASSUME ThreadsAssumption == IsFiniteSet(Threads) /\ Threads # {}
ASSUME BoundsAssumption == MaxRequests \in Nat /\ MaxFail \in Nat /\ MaxStop \in Nat

(***************************************************************************)
(* A request.  token: it carries the daemon's token; dry: dry_run; fits:   *)
(* for an event, that the snapshots in its payload have the shape the      *)
(* index projection reads (the contract admits any dict); for a diff, that *)
(* its artifact and its versions exist.                                    *)
(***************************************************************************)
Request == [ep : Endpoints, key : Keys, dry : BOOLEAN, token : BOOLEAN, fits : BOOLEAN]

VARIABLES
  log,       \* chronicle.jsonl, the events with API metadata
  audit,     \* audit.jsonl: source_event_id of each API_WRITE record
  thread,    \* each thread's request, where it is, and the event it works with
  replies,   \* every reply sent, a history variable
  requests, fails, stops

counts == <<requests, fails, stops>>
vars == <<log, audit, thread, replies, counts>>

(* The requests that reach the adapter: committed and authorized *)
Commit == {r \in Request : r.token /\ ~r.dry}

AnyRequest == CHOOSE r \in Request : TRUE
Free == [pc |-> "free", req |-> AnyRequest, own |-> 0, found |-> 0]

----------------------------------------------------------------------------
Matches(lines, r) == {i \in 1 .. Len(lines) : lines[i].ep = r.ep /\ lines[i].key = r.key}

(* Mutant: the newest match *)
FindDuplicateLast(lines, r) ==
  IF Matches(lines, r) = {} THEN 0
  ELSE lines[CHOOSE i \in Matches(lines, r) : \A j \in Matches(lines, r) : j <= i].id

(* Mutant: the last line is not read *)
FindDuplicateShort(lines, r) ==
  LET is == Matches(lines, r) \ {Len(lines)}
  IN  IF is = {} THEN 0 ELSE lines[CHOOSE i \in is : \A j \in is : i <= j].id

(* _find_duplicate_api_event: the first event with the endpoint and the key *)
FindDuplicate(lines, r) ==
  IF Matches(lines, r) = {} THEN 0
  ELSE lines[CHOOSE i \in Matches(lines, r) : \A j \in Matches(lines, r) : i <= j].id

(* rebuild_indexes raises on a snapshot that it cannot validate, now and on  *)
(* every later call: the event is in the log for good.                       *)
CanRebuild(lines) == \A i \in 1 .. Len(lines) : lines[i].fits

Reply(t, accepted, dup, id) ==
  /\ replies' = replies \cup
       {[ep |-> thread[t].req.ep, key |-> thread[t].req.key, accepted |-> accepted,
         dup |-> dup, id |-> id, own |-> thread[t].own]}
  /\ thread' = [thread EXCEPT ![t] = Free]

(* The answer of do_POST to any exception: 400, validation_error *)
Reject(t) == Reply(t, FALSE, FALSE, 0)

----------------------------------------------------------------------------
(* do_POST: authorization, the body, and the choice of preview or commit.    *)
(* Without the token, and for a dry run, nothing is read or written.         *)
DoPost(t) ==
  /\ thread[t].pc = "free"
  /\ requests < MaxRequests
  /\ requests' = requests + 1
  /\ \E r \in Request :
       \/ /\ r \in Commit
          /\ thread' = [thread EXCEPT ![t] = [Free EXCEPT !.pc = "check", !.req = r]]
       \/ r \notin Commit /\ UNCHANGED thread
  /\ UNCHANGED <<log, audit, replies, fails, stops>>

(* GET /context rebuilds the indexes and answers; it raises like the others  *)
(* when it cannot.  Nothing of this module's state depends on it.            *)

(* commit_*_write: the lookup, and the early return on a duplicate.  A diff  *)
(* whose artifact or versions are missing is rejected before it writes.      *)
CheckDuplicate(t) ==
  LET found == FindDuplicate(log, thread[t].req)
  IN  /\ thread[t].pc = "check"
      /\ \/ found # 0 /\ Reply(t, TRUE, TRUE, found)
         \/ /\ found = 0
            /\ thread[t].req.ep = "diffs" /\ ~thread[t].req.fits
            /\ Reject(t)
         \/ /\ found = 0
            /\ thread[t].req.ep = "diffs" => thread[t].req.fits
            /\ thread' = [thread EXCEPT ![t].pc = "append"]
            /\ UNCHANGED replies
      /\ UNCHANGED <<log, audit, counts>>

(* What commit_*_write does after its append *)
AfterAppend(ep) == CASE ep = "events" -> "rebuild" [] ep = "diffs" -> "lookup" [] OTHER -> "audit"

(* Mutant: the audit record is written once more when the thread goes on *)
AppendAudited(t) ==
  LET id == Len(log) + 1
      r == thread[t].req
  IN  /\ thread[t].pc = "append"
      /\ log' = Append(log, [ep |-> r.ep, key |-> r.key, id |-> id,
                             fits |-> r.ep = "events" => r.fits])
      /\ audit' = Append(audit, id)
      /\ thread' = [thread EXCEPT ![t].own = id, ![t].found = id,
                                  ![t].pc = AfterAppend(r.ep)]
      /\ UNCHANGED <<replies, counts>>

(* record_event, RdeService.record or append_event.  generate_id never draws *)
(* an id twice; the number of the line stands for it.                        *)
AppendApiEvent(t) ==
  LET id == Len(log) + 1
      r == thread[t].req
  IN  /\ thread[t].pc = "append"
      /\ log' = Append(log, [ep |-> r.ep, key |-> r.key, id |-> id,
                             fits |-> r.ep = "events" => r.fits])
      /\ thread' = [thread EXCEPT ![t].own = id, ![t].found = id,
                                  ![t].pc = AfterAppend(r.ep)]
      /\ UNCHANGED <<audit, replies, counts>>

(* Mutant: wait until the indexes can be rebuilt *)
RebuildOrWait(t) ==
  /\ thread[t].pc = "rebuild"
  /\ CanRebuild(log)
  /\ thread' = [thread EXCEPT ![t].pc = "audit"]
  /\ UNCHANGED <<log, audit, replies, counts>>

(* commit_event_write rebuilds the indexes after its append *)
Rebuild(t) ==
  /\ thread[t].pc = "rebuild"
  /\ \/ CanRebuild(log) /\ thread' = [thread EXCEPT ![t].pc = "audit"] /\ UNCHANGED replies
     \/ ~CanRebuild(log) /\ Reject(t)
  /\ UNCHANGED <<log, audit, counts>>

(* commit_diff_write looks its own event up by the key *)
LookupOwn(t) ==
  /\ thread[t].pc = "lookup"
  /\ thread' = [thread EXCEPT ![t].pc = "audit", ![t].found = FindDuplicate(log, thread[t].req)]
  /\ UNCHANGED <<log, audit, replies, counts>>

(* AuditService.record, and the reply *)
WriteAudit(t) ==
  /\ thread[t].pc = "audit"
  /\ audit' = Append(audit, thread[t].found)
  /\ Reply(t, TRUE, FALSE, thread[t].found)
  /\ UNCHANGED <<log, counts>>

(* AuditService.record raises (metadata.yaml unreadable, disk full) *)
AuditFails(t) ==
  /\ thread[t].pc = "audit"
  /\ fails < MaxFail
  /\ fails' = fails + 1
  /\ Reject(t)
  /\ UNCHANGED <<log, audit, requests, stops>>

(* SIGTERM or Ctrl-C: serve_forever returns, and the request threads, being  *)
(* daemon threads, die with the process.  The files stay, a new daemon runs. *)
Stop ==
  /\ stops < MaxStop
  /\ \E t \in Threads : thread[t].pc # "free"
  /\ stops' = stops + 1
  /\ thread' = [t \in Threads |-> Free]
  /\ UNCHANGED <<log, audit, replies, requests, fails>>

----------------------------------------------------------------------------
Init ==
  /\ log = <<>> /\ audit = <<>> /\ replies = {}
  /\ thread = [t \in Threads |-> Free]
  /\ requests = 0 /\ fails = 0 /\ stops = 0

Work(t) ==
  CheckDuplicate(t) \/ AppendApiEvent(t) \/ Rebuild(t) \/ LookupOwn(t) \/ WriteAudit(t)

Next == Stop \/ \E t \in Threads : DoPost(t) \/ Work(t) \/ AuditFails(t)

(* A thread that runs goes on running. *)
Fairness == \A t \in Threads : WF_vars(Work(t))

Spec == Init /\ [][Next]_vars /\ Fairness

----------------------------------------------------------------------------
(* Properties *)

Ids == 1 .. MaxRequests

(* A reply that calls a request a duplicate names the first event of its key *)
(* and endpoint, and so does every other reply to that key, also across      *)
(* racing requests and stops; a diff's own reply names that event too.       *)
DuplicateNamesFirst ==
  \A a \in replies :
    a.accepted /\ (a.dup \/ a.ep = "diffs") =>
      /\ a.id \in 1 .. Len(log)
      /\ log[a.id].ep = a.ep /\ log[a.id].key = a.key
      /\ \A i \in 1 .. a.id - 1 : log[i].ep # a.ep \/ log[i].key # a.key

(* An accepted event or assertion that was not called a duplicate is an      *)
(* event of its own in the log: no two such replies name the same event.     *)
AcceptedLogged ==
  \A a \in replies : a.accepted =>
    /\ \E i \in 1 .. Len(log) : log[i].id = a.id /\ log[i].ep = a.ep /\ log[i].key = a.key
    /\ ~a.dup => a.own # 0 /\ (a.ep # "diffs" => a.id = a.own)

(* What a client is told about its event is true, and stays true.            *)
RepliesTrue == DuplicateNamesFirst /\ AcceptedLogged

(* An audit record names an event that is in the log, and only racing diffs  *)
(* are ever audited under the same event.                                    *)
AuditBacked ==
  \A i \in 1 .. Len(audit) :
    /\ audit[i] \in 1 .. Len(log)
    /\ \A j \in 1 .. Len(audit) :
         i # j /\ audit[i] = audit[j] => log[audit[i]].ep = "diffs"

(* A key gets more than one event only from requests that raced: never more  *)
(* events than threads, however often it is repeated.                        *)
DuplicatesBounded ==
  \A r \in Commit : Cardinality(Matches(log, r)) <= Cardinality(Threads)

(* Every commit is answered, or the daemon stops; one that cannot rebuild    *)
(* the indexes does not wait for better times.                               *)
Answered == \A t \in Threads : thread[t].pc # "free" ~> thread[t].pc = "free"

----------------------------------------------------------------------------
(* What the documents say and the code does not keep *)

(* daemon-api-readiness: duplicate idempotency keys do not append duplicate  *)
(* Chronicle events.                                                         *)
OneEventPerKey == \A r \in Commit : Cardinality(Matches(log, r)) <= 1

(* chronicle-daemon-api-roadmap, phase 2: rejected writes fail before        *)
(* partial persistence, so a rejected request has no event in the log.       *)
RejectedNotPersisted == \A a \in replies : a.accepted \/ a.own = 0

(* daemon-api-operator-runbook: an event write comes with idempotency and    *)
(* audit, so once no request runs an accepted one has its audit record.      *)
AcceptedAudited ==
  (\A t \in Threads : thread[t].pc = "free") =>
    \A a \in replies : a.accepted => \E i \in 1 .. Len(audit) : audit[i] = a.id

(* Basic specification: a broken index can be rebuilt (from the log).        *)
RebuildPossible == CanRebuild(log)
=============================================================================
