----------------------------- MODULE ReviewFlow -----------------------------
(***************************************************************************)
(* Proposals, reviews, and the plans that lead to them: how a change of an *)
(* artifact or a context is proposed, reviewed by a person and applied.    *)
(* Nothing but the log says what state a proposal is in: a proposal is     *)
(* approved when the last review event that targets it approves, and       *)
(* applied when some event carries its id under proposal_apply.            *)
(*                                                                         *)
(* ProposalService, ReviewService and OperationPlanService re-read the log *)
(* at every question they ask of it and write without a lock, so whatever  *)
(* they found may be out of date when they append.  The steps between two  *)
(* such reads and writes are the actions here.  The files of an artifact,  *)
(* torn lines and half-written indexes are ChronicleStore's; an index save *)
(* is one step here.                                                       *)
(***************************************************************************)
EXTENDS Naturals, Sequences, FiniteSets

CONSTANTS
  Procs,       \* CLI commands, the UI server's threads
  Targets,     \* what may be changed: "artifact", "context" or both, one of each
  Ops,         \* the operations in use, a subset of AllOps
  MaxOps,      \* bound: events and plans made
  MaxAbandon   \* bound: operations that raise or whose process dies half-way

AllOps == {"propose", "plan", "convert", "review", "ui_review", "apply", "update"}

ASSUME ProcsAssumption == IsFiniteSet(Procs)
ASSUME TargetsAssumption == Targets \subseteq {"artifact", "context"}
ASSUME OpsAssumption == Ops \subseteq AllOps
ASSUME BoundAssumption == MaxOps \in Nat /\ MaxAbandon \in Nat

Ids == 1 .. MaxOps
Dispositions == {"approve", "reject", "request_changes"}

(***************************************************************************)
(* An event.  A proposal has the id of the plan it was converted from (0:  *)
(* none) and the version that plan expects.  A review has the proposal it  *)
(* decides, its disposition, and whether it came through the UI server     *)
(* (the code records the reviewer's kind and session).  A version (of an   *)
(* artifact, or the next snapshot of a context) has the proposal it        *)
(* applies (0: none) and the version it was made from.  Version 0 of a     *)
(* target is the one it was created with.                                  *)
(***************************************************************************)
Event == [kind : {"proposal", "review", "version", "plan"}, id : Ids,
          target : Targets, of : 0 .. MaxOps, base : 0 .. MaxOps,
          disp : Dispositions \cup {"none"}, ui : BOOLEAN]

VARIABLES
  log,      \* chronicle.jsonl, the events of this flow
  index,    \* the current version of each target in the saved index
  audit,    \* audit.jsonl: the review events it announces
  plans,    \* operation plans that callers hold
  proc,     \* the local state of each process
  next, abandons

vars == <<log, index, audit, plans, proc, next, abandons>>

NoEvent == [kind |-> "plan", id |-> 0, target |-> CHOOSE t \in Targets : TRUE,
            of |-> 0, base |-> 0, disp |-> "none", ui |-> FALSE]
Idle == [pc |-> "idle", evt |-> NoEvent, seen |-> 0]

----------------------------------------------------------------------------
(* Reading the log *)

Last(S) == CHOOSE i \in S : \A j \in S : j <= i

Reviews(lines, e) == {i \in 1 .. Len(lines) : lines[i].kind = "review" /\ lines[i].of = e}

(* _latest_review_disposition *)
Disposition(lines, e) ==
  IF Reviews(lines, e) = {} THEN "none" ELSE lines[Last(Reviews(lines, e))].disp

(* Mutant: any approval will do *)
EverApproved(lines, e) ==
  IF \E i \in Reviews(lines, e) : lines[i].disp = "approve" THEN "approve" ELSE "none"

Applies(lines, e) == {i \in 1 .. Len(lines) : lines[i].kind = "version" /\ lines[i].of = e}

(* _already_applied *)
AlreadyApplied(lines, e) == Applies(lines, e) # {}

Conversions(lines, pl) ==
  {i \in 1 .. Len(lines) : lines[i].kind = "proposal" /\ lines[i].of = pl}

(* _proposal_exists_for_plan *)
ProposalExists(lines, pl) == Conversions(lines, pl) # {}

(* ReviewService.queue: a proposal waits for a review as long as nothing but *)
(* a request for changes has been said about it.                             *)
Pending(lines, e) == Disposition(lines, e) \in {"none", "request_changes"}

Proposals(lines) == {lines[i] : i \in {j \in 1 .. Len(lines) : lines[j].kind = "proposal"}}

(* The version an index built from these lines shows *)
CurrentVersion(lines, t) ==
  LET is == {i \in 1 .. Len(lines) : lines[i].kind = "version" /\ lines[i].target = t}
  IN  IF is = {} THEN 0 ELSE lines[Last(is)].id

(* Mutant: a stale target is noticed before anything else *)
PlanStatusStaleFirst(lines, current, pl, exp) ==
  IF current # exp THEN "stale_preview"
  ELSE IF \E i \in Conversions(lines, pl) : AlreadyApplied(lines, lines[i].id) THEN "applied"
  ELSE IF ProposalExists(lines, pl) THEN "ready_for_review" ELSE "preview_only"

(* OperationPlanService._action_preview: the status a plan is listed with.   *)
(* (pl is the plan, exp the version it expects of the artifact.)             *)
PlanStatus(lines, current, pl, exp) ==
  LET props == Conversions(lines, pl)
  IN  CASE \E i \in props : AlreadyApplied(lines, lines[i].id) -> "applied"
        [] (\A i \in props : ~AlreadyApplied(lines, lines[i].id)) /\ props # {} ->
             IF current # exp THEN "stale_target" ELSE "ready_for_review"
        [] OTHER -> IF current # exp THEN "stale_preview" ELSE "preview_only"

----------------------------------------------------------------------------
(* Beginning an operation *)

(* Where the change of a target starts: update_context rebuilds the indexes  *)
(* first, ArtifactService.update loads them as they are.                     *)
Change(t) == IF t = "context" THEN "reread" ELSE "load"

Begin(p, o, where, e) ==
  /\ o \in Ops
  /\ proc[p].pc = "idle"
  /\ next \in Ids
  /\ proc' = [proc EXCEPT ![p] = [Idle EXCEPT !.pc = where, !.evt = e]]
  /\ next' = next + 1
  /\ UNCHANGED <<log, index, audit, abandons>>

New(kind, t) == [NoEvent EXCEPT !.kind = kind, !.id = next, !.target = t]

(* propose_artifact_update, propose_context_update: the target is looked up  *)
(* in the index, where it always is here.                                    *)
BeginPropose(p) ==
  /\ \E t \in Targets : Begin(p, "propose", "append", New("proposal", t))
  /\ UNCHANGED plans

(* build_artifact_update_plan writes nothing; the caller keeps the plan.     *)
(* chronicle plan ... --record then has it appended (persist_plan).          *)
BuildPlan(p) ==
  /\ "artifact" \in Targets
  /\ plans' = plans \cup {[id |-> next, base |-> index["artifact"]]}
  /\ \E where \in {"idle", "append"} :
       Begin(p, "plan", where,
             IF where = "idle" THEN NoEvent
             ELSE [New("plan", "artifact") EXCEPT !.base = index["artifact"]])

(* convert_artifact_update_plan_to_proposal: the index must still show the   *)
(* version that the plan expects ...                                         *)
BeginConvert(p) ==
  /\ \E pl \in plans :
       /\ index["artifact"] = pl.base
       /\ Begin(p, "convert", "exists",
                [New("proposal", "artifact") EXCEPT !.of = pl.id, !.base = pl.base])
  /\ UNCHANGED plans

(* ReviewService.approve, reject, request_changes from the CLI: the target   *)
(* need not be pending.                                                      *)
BeginReview(p) ==
  /\ \E e \in Proposals(log), d \in Dispositions :
       Begin(p, "review", "audit",
             [New("review", e.target) EXCEPT !.of = e.id, !.disp = d])
  /\ UNCHANGED plans

(* review_action_response: the UI's review of a pending target *)
BeginUiReview(p) ==
  /\ \E e \in Proposals(log), d \in Dispositions :
       /\ Pending(log, e.id)
       /\ Begin(p, "ui_review", "audit",
                [New("review", e.target) EXCEPT !.of = e.id, !.disp = d, !.ui = TRUE])
  /\ UNCHANGED plans

(* Mutant: nobody looks whether the proposal was applied before *)
BeginApplyAgain(p) ==
  /\ \E e \in Proposals(log) :
       Begin(p, "apply", "approval", [New("version", e.target) EXCEPT !.of = e.id])
  /\ UNCHANGED plans

(* apply_artifact_proposal, apply_context_proposal: first _already_applied,  *)
(* with a read of the log of its own ...                                     *)
BeginApply(p) ==
  /\ \E e \in Proposals(log) :
       /\ ~AlreadyApplied(log, e.id)
       /\ Begin(p, "apply", "approval", [New("version", e.target) EXCEPT !.of = e.id])
  /\ UNCHANGED plans

(* ArtifactService.update and ContextService.update_context, called directly *)
BeginUpdate(p) ==
  /\ \E t \in Targets : Begin(p, "update", Change(t), New("version", t))
  /\ UNCHANGED plans

----------------------------------------------------------------------------
(* The steps of an operation *)

Goto(p, where) ==
  proc' = [proc EXCEPT ![p] = IF where = "idle" THEN Idle ELSE [@ EXCEPT !.pc = where]]

(* ... and no proposal may carry the plan's id *)
CheckConverted(p) ==
  /\ proc[p].pc = "exists"
  /\ Goto(p, IF ProposalExists(log, proc[p].evt.of) THEN "idle" ELSE "append")
  /\ UNCHANGED <<log, index, audit, plans, next, abandons>>

(* Mutant: a proposal that was approved once stays approved *)
CheckApprovalOnce(p) ==
  /\ proc[p].pc = "approval"
  /\ Goto(p, IF EverApproved(log, proc[p].evt.of) = "approve"
               THEN Change(proc[p].evt.target) ELSE "idle")
  /\ UNCHANGED <<log, index, audit, plans, next, abandons>>

(* Mutant: any decision will do *)
CheckApprovalReviewed(p) ==
  /\ proc[p].pc = "approval"
  /\ Goto(p, IF Disposition(log, proc[p].evt.of) # "none"
               THEN Change(proc[p].evt.target) ELSE "idle")
  /\ UNCHANGED <<log, index, audit, plans, next, abandons>>

(* ... then _latest_review_disposition, with another read of the log *)
CheckApproval(p) ==
  /\ proc[p].pc = "approval"
  /\ Goto(p, IF Disposition(log, proc[p].evt.of) = "approve"
               THEN Change(proc[p].evt.target) ELSE "idle")
  /\ UNCHANGED <<log, index, audit, plans, next, abandons>>

(* The change is made from the version that the index shows now *)
LoadTarget(p) ==
  /\ proc[p].pc = "load"
  /\ proc' = [proc EXCEPT ![p].pc = "append",
                          ![p].evt.base = index[proc[p].evt.target]]
  /\ UNCHANGED <<log, index, audit, plans, next, abandons>>

(* Mutant: the review event first, the audit record after it *)
RecordAuditLater(p) ==
  /\ proc[p].pc = "audit"
  /\ Goto(p, "append")
  /\ UNCHANGED <<log, index, audit, plans, next, abandons>>

(* _record_decision: the audit record comes first *)
RecordAudit(p) ==
  /\ proc[p].pc = "audit"
  /\ audit' = audit \cup {[id |-> proc[p].evt.id, of |-> proc[p].evt.of,
                           disp |-> proc[p].evt.disp]}
  /\ Goto(p, "append")
  /\ UNCHANGED <<log, index, plans, next, abandons>>

(* append_event; a review leaves the indexes alone, everything else rebuilds *)
AppendEvent(p) ==
  /\ proc[p].pc = "append"
  /\ log' = Append(log, proc[p].evt)
  /\ Goto(p, IF proc[p].evt.kind = "review" THEN "idle" ELSE "read")
  /\ UNCHANGED <<index, audit, plans, next, abandons>>

(* rebuild_indexes, before or after the append: read the log ... *)
Following == [reread |-> "resave", read |-> "save", resave |-> "load", save |-> "idle"]

ReadLog(p) ==
  /\ proc[p].pc \in {"reread", "read"}
  /\ proc' = [proc EXCEPT ![p].pc = Following[@], ![p].seen = Len(log)]
  /\ UNCHANGED <<log, index, audit, plans, next, abandons>>

(* ... and save what it shows *)
SaveIndex(p) ==
  /\ proc[p].pc \in {"resave", "save"}
  /\ index' = [t \in Targets |-> CurrentVersion(SubSeq(log, 1, proc[p].seen), t)]
  /\ Goto(p, Following[proc[p].pc])
  /\ UNCHANGED <<log, audit, plans, next, abandons>>

(* Anything may raise (the audit record or the event cannot be written, the  *)
(* index cannot be read), and the process may be killed: the operation ends. *)
Abandon(p) ==
  /\ proc[p].pc # "idle"
  /\ abandons < MaxAbandon
  /\ abandons' = abandons + 1
  /\ Goto(p, "idle")
  /\ UNCHANGED <<log, index, audit, plans, next>>

----------------------------------------------------------------------------
Init ==
  /\ log = <<>>
  /\ index = [t \in Targets |-> 0]
  /\ audit = {} /\ plans = {}
  /\ proc = [p \in Procs |-> Idle]
  /\ next = 1 /\ abandons = 0

BeginOp(p) ==
  \/ BeginPropose(p) \/ BuildPlan(p) \/ BeginConvert(p) \/ BeginReview(p)
  \/ BeginUiReview(p) \/ BeginApply(p) \/ BeginUpdate(p)

Step(p) ==
  \/ CheckConverted(p) \/ CheckApproval(p) \/ LoadTarget(p) \/ RecordAudit(p)
  \/ AppendEvent(p) \/ ReadLog(p) \/ SaveIndex(p)

Next == \E p \in Procs : BeginOp(p) \/ Step(p) \/ Abandon(p)

Spec == Init /\ [][Next]_vars

----------------------------------------------------------------------------
(* Properties *)

Prefix(n) == SubSeq(log, 1, n)

(* A change that applies a proposal was checked: at some moment after the    *)
(* proposal was made the log said that its last review approves it, and at   *)
(* some moment not after that one that it was not applied yet.  (Both may be *)
(* untrue by the time the change is appended.)                               *)
ApplyWasJustified ==
  \A i \in 1 .. Len(log) : log[i].kind = "version" /\ log[i].of # 0 =>
    \E n \in 0 .. i - 1 :
      /\ Disposition(Prefix(n), log[i].of) = "approve"
      /\ \E m \in 0 .. n : /\ ~AlreadyApplied(Prefix(m), log[i].of)
                           /\ \E e \in Proposals(Prefix(m)) : e.id = log[i].of

(* A review event is announced by an audit record that says the same, and    *)
(* at most one record per failed or killed operation announces a review      *)
(* that no running operation is about to append.                             *)
ReviewsAudited ==
  LET said == {[id |-> log[i].id, of |-> log[i].of, disp |-> log[i].disp] :
                 i \in {j \in 1 .. Len(log) : log[j].kind = "review"}}
      coming == {a \in audit : \E p \in Procs : proc[p].pc = "append" /\ proc[p].evt.id = a.id}
  IN  /\ said \subseteq audit
      /\ Cardinality(audit \ (said \cup coming)) <= abandons

(* Racing commands may apply a proposal, or convert a plan, more than once,  *)
(* but no more often than there are processes, however often it is tried.    *)
RepeatsBounded ==
  \A k \in Ids : /\ Cardinality(Applies(log, k)) <= Cardinality(Procs)
                 /\ Cardinality(Conversions(log, k)) <= Cardinality(Procs)

(* A plan once listed as applied stays so, and one that has a proposal never *)
(* goes back to a preview, whatever races.                                   *)
PlanAdvances ==
  [][\A pl \in plans :
       LET before == PlanStatus(log, index["artifact"], pl.id, pl.base)
           after == PlanStatus(log', index'["artifact"], pl.id, pl.base)
       IN  /\ before = "applied" => after = "applied"
           /\ before \in {"stale_target", "ready_for_review"} =>
                after \notin {"stale_preview", "preview_only"}]_vars

(* One command at a time: a change applies a proposal that no earlier one    *)
(* applied and whose last review approves it.                                *)
SequentialApply ==
  \A i \in 1 .. Len(log) : log[i].kind = "version" /\ log[i].of # 0 =>
    /\ ~AlreadyApplied(Prefix(i - 1), log[i].of)
    /\ Disposition(Prefix(i - 1), log[i].of) = "approve"

(* One command at a time, none failing half-way: a plan becomes a proposal   *)
(* once, while the artifact is at the version that the plan expects.         *)
SequentialConvert ==
  abandons = 0 =>
    \A i \in 1 .. Len(log) : log[i].kind = "proposal" /\ log[i].of # 0 =>
      /\ log[i].base = CurrentVersion(Prefix(i - 1), "artifact")
      /\ ~ProposalExists(Prefix(i - 1), log[i].of)

(* One request at a time: a proposal that was approved or rejected, by       *)
(* whomever, is not decided again through the UI, which knows it from the    *)
(* queue only.  The CLI may reopen it with a request for changes.            *)
UiResolvesOnce ==
  \A i \in 1 .. Len(log) : log[i].kind = "review" /\ log[i].ui => Pending(Prefix(i - 1), log[i].of)

(* One command at a time, whatever its order: what is applied was reviewed,  *)
(* what is converted was current, neither happens twice, and the UI decides  *)
(* what is pending.                                                          *)
SequentialReviews == SequentialApply /\ SequentialConvert /\ UiResolvesOnce

----------------------------------------------------------------------------
(* What the documents say and the code does not keep *)

(* cli-reference: a second apply of the same proposal is refused.            *)
AppliedOnce == \A k \in Ids : Cardinality(Applies(log, k)) <= 1

(* ADR-0033: the target's version is checked during conversion and apply, so *)
(* a plan's proposal is applied to the version that the plan expects.        *)
AppliedToExpected ==
  \A i \in 1 .. Len(log) : log[i].kind = "version" =>
    \A e \in Proposals(Prefix(i - 1)) :
      e.id = log[i].of /\ e.of # 0 => log[i].base = e.base
=============================================================================
