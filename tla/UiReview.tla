------------------------------ MODULE UiReview ------------------------------
(***************************************************************************)
(* What the review pages of the local UI announce and what a POST to       *)
(* /api/review-actions then answers.  The server's modes are four flags of *)
(* its command line; a page describes the queue's row of one event that    *)
(* needs review, what blocks it, and the contract of the write route; the  *)
(* handler checks the request, reads the queue again, records the audit    *)
(* event and appends the decision.  Reviewers at the command line decide   *)
(* at any moment between these.                                            *)
(*                                                                         *)
(* Cookies, restarts and the lock around the request ids are UiSession's:  *)
(* here a request has the right token, session id and an unused request    *)
(* id, or not.  The other rows of the queue are what the enablement panel  *)
(* counts of them.  A plan, a draft or a job that a row is about, and      *)
(* every text of a page, is left out.                                      *)
(***************************************************************************)
EXTENDS Naturals, Sequences, FiniteSets

CONSTANTS
  Modes,       \* the flags the server may be started with, sets of Flags
  MaxReviews   \* bound: decisions on the event at the command line

(* The flags of `chronicle ui`; --workspace sets them all. *)
Flags == {"capability", "enable", "auth", "authorization"}

ASSUME ModesAssumption == Modes \subseteq SUBSET Flags
ASSUME ReviewsAssumption == MaxReviews \in Nat

Actions == {"approve", "reject", "request_changes"}

(* Who decided: a name a user declares, a local operator with or without the *)
(* label of a session.                                                       *)
Identities == {"user_declared", "local_operator", "local_operator in session"}

VARIABLES
  mode,      \* the modes the server was started with
  reviews,   \* chronicle.jsonl: the decisions on the event
  trail,     \* audit.jsonl: how many review decisions it announces
  browser    \* the page a browser holds, the request it sent, the answer

pageVars == <<mode, reviews, trail, browser>>

----------------------------------------------------------------------------
(* The boundary *)

MutationEnabled(m) == m = Flags

SessionGating(m) == "auth" \in m

BoundaryBlockers(m) ==
  {b \in {"write_routes_disabled", "auth_not_enabled", "authorization_not_enabled",
          "mutation_capability_flag_disabled", "ui_mutation_enable_flag_disabled"} :
     CASE b = "write_routes_disabled" -> ~MutationEnabled(m)
       [] b = "auth_not_enabled" -> "auth" \notin m
       [] b = "authorization_not_enabled" -> "authorization" \notin m
       [] b = "mutation_capability_flag_disabled" -> "capability" \notin m
       [] OTHER -> "enable" \notin m}

(* The fields a request must have, the kinds of reviewer that may write, and *)
(* those whose name is advice only.                                          *)
RequiredFields(m) ==
  {"reviewer_label", "reviewer_kind", "ui_intent"}
    \cup (IF SessionGating(m) THEN {"session_label"} ELSE {})

AcceptedKinds == {"local_operator"}
AdvisoryKinds == {"user_declared"}

GateErrors ==
  {"mutation_disabled", "invalid_mutation_token", "invalid_mutation_session",
   "mutation_request_id_required", "invalid_mutation_request_id",
   "duplicate_mutation_request", "reviewer_label_required", "invalid_reviewer_label",
   "session_label_required", "invalid_session_label", "ui_intent_mismatch",
   "invalid_reviewer_kind", "authorization_failed", "review_target_not_found",
   "review_not_pending", "invalid_json"}

DurableErrors == {"audit_insertion_failed", "decision_persistence_failed"}

(* The family the contract gives a status code. *)
Family(status) ==
  CASE status = 200 -> "success"
    [] status \in {400, 403, 404, 409} -> "pre_mutation_or_gate"
    [] status = 500 -> "durable_write_path"

(* What becomes of the row when an action succeeds. *)
ResultingState(action) ==
  IF action = "request_changes" THEN "remains_pending" ELSE "resolved_hidden_by_default"

----------------------------------------------------------------------------
(* The row of the review queue *)

Row(log) ==
  [pending |-> Len(log) = 0 \/ log[Len(log)].action = "request_changes",
   identity |-> IF Len(log) = 0 THEN "none" ELSE log[Len(log)].who,
   count |-> Len(log)]

(* Mutant: a name a user declares is as good as an operator's *)
WarningsUndeclared(m, identity) ==
  (IF "auth" \in m THEN {} ELSE {"ui_auth_not_enabled"})
    \cup (IF "authorization" \in m THEN {} ELSE {"ui_authorization_not_enabled"})
    \cup (IF identity = "none" THEN {"no_reviewer_identity_recorded"} ELSE {})

Warnings(m, identity) ==
  (IF "auth" \in m THEN {} ELSE {"ui_auth_not_enabled"})
    \cup (IF "authorization" \in m THEN {} ELSE {"ui_authorization_not_enabled"})
    \cup CASE identity = "none" -> {"no_reviewer_identity_recorded"}
           [] identity = "user_declared" -> {"reviewer_identity_declared_only"}
           [] identity = "local_operator" /\ SessionGating(m) -> {"reviewer_session_label_missing"}
           [] OTHER -> {}

CanReviewNow(m, row) == row.pending /\ Warnings(m, row.identity) = {}

Capability(m, row) ==
  CASE ~row.pending -> "resolved"
    [] CanReviewNow(m, row) -> "ready"
    [] OTHER -> "advisory_only"

(* Every recorded identity says loopback_local. *)
Assurance(m, identity) ==
  IF identity = "none" THEN "unknown"
  ELSE IF "auth" \in m THEN "boundary_aligned" ELSE "local_session_unverified"

(* Every warning has a blocker. *)
AuthNotice(m, row) ==
  LET blocked == row.pending /\ Warnings(m, row.identity) # {}
      assured == Assurance(m, row.identity)
  IN CASE blocked -> "advisory_only"
       [] ~blocked /\ assured # "unknown" -> assured
       [] OTHER -> Capability(m, row)

(* The panels of a page about a row *)
ReviewStep(m, row) ==
  CASE Capability(m, row) = "resolved" -> "resolved"
    [] Capability(m, row) # "resolved" /\ AuthNotice(m, row) # "boundary_aligned" -> "advisory_only"
    [] OTHER -> IF MutationEnabled(m) THEN "enabled" ELSE "preview_only"

ApplyPrerequisites(m, row) ==
  CASE Capability(m, row) = "resolved" -> "resolved"
    [] Capability(m, row) # "resolved" /\ ~CanReviewNow(m, row) -> "boundary_blocked"
    [] OTHER -> IF MutationEnabled(m) THEN "ready" ELSE "preview_only"

IdentitySufficient(m, row) ==
  /\ AuthNotice(m, row) = "boundary_aligned"
  /\ Assurance(m, row.identity) = "boundary_aligned"

(* What a pending row warns about that the enablement panel counts: a name a *)
(* user declares is not counted, and the modes are the boundary's blockers.  *)
Counted(m, identity) ==
  Warnings(m, identity) \cap {"no_reviewer_identity_recorded", "reviewer_session_label_missing"}

(* The enablement panel of the same page: the boundary's flags, and what all *)
(* the rows of the queue warn about, this row's and (othersWarn) the others'. *)
EnablementReady(m, row, othersWarn) ==
  /\ BoundaryBlockers(m) = {}
  /\ row.pending => Counted(m, row.identity) = {}
  /\ ~othersWarn

----------------------------------------------------------------------------
(* A request: what is wrong with its fields *)

Wrong ==
  [token |-> {"bad", "not ASCII"}, body |-> {"no JSON", "no object"}, session_id |-> {"bad", "not ASCII"},
   request_id |-> {"missing", "bad", "used"}, reviewer_label |-> {"missing", "bad"},
   session_label |-> {"missing", "bad"}, ui_intent |-> {"missing", "bad"},
   reviewer_kind |-> {"missing", "bad", "user_declared"}, target |-> {"unknown"}]

Flawless == [f \in DOMAIN Wrong |-> "good"]

(* A request with at most one flaw: the first one met decides the answer. *)
Requests ==
  {Flawless} \cup
    UNION {{[Flawless EXCEPT ![f] = how] : how \in Wrong[f]} : f \in DOMAIN Wrong}

(* Does it keep the contract that the page shows? *)
KeepsContract(m, r) ==
  /\ \A f \in DOMAIN r : f \in RequiredFields(m) => r[f] = "good"
  /\ r.session_label # "bad"
  /\ r.token = "good" /\ r.session_id = "good" /\ r.request_id = "good"
  /\ r.body = "good"
  /\ r.target = "good"

(* The kind and the session of the reviewer that the request names *)
Identity(r) ==
  IF r.reviewer_kind \in {"missing", "user_declared"} THEN "user_declared"
  ELSE IF r.session_label = "good" THEN "local_operator in session" ELSE "local_operator"

(* The checks in the order the handler makes them: what fails, the code and  *)
(* the status that are answered.  Credentials are compared by                *)
(* secrets.compare_digest, which raises on text that is not ASCII: the       *)
(* connection then ends without an answer.                                   *)
Checks(m, r, row) ==
  << <<~MutationEnabled(m), "mutation_disabled", 403>>,
     <<r.token = "not ASCII", "no answer", 0>>,
     <<r.token = "bad", "invalid_mutation_token", 403>>,
     <<r.body = "no object", "invalid_request_body", 400>>,
     <<r.body = "no JSON", "invalid_json", 400>>,
     <<r.session_id = "not ASCII", "no answer", 0>>,
     <<r.session_id = "bad", "invalid_mutation_session", 403>>,
     <<r.request_id = "missing", "mutation_request_id_required", 400>>,
     <<r.request_id = "bad", "invalid_mutation_request_id", 400>>,
     <<r.request_id = "used", "duplicate_mutation_request", 409>>,
     <<r.reviewer_label = "missing", "reviewer_label_required", 400>>,
     <<r.reviewer_label = "bad", "invalid_reviewer_label", 400>>,
     <<SessionGating(m) /\ r.session_label = "missing", "session_label_required", 400>>,
     <<r.session_label = "bad", "invalid_session_label", 400>>,
     <<r.ui_intent # "good", "ui_intent_mismatch", 400>>,
     <<r.reviewer_kind = "bad", "invalid_reviewer_kind", 400>>,
     <<\/ Warnings(m, Identity(r)) # {}
       \/ Assurance(m, Identity(r)) # "boundary_aligned", "authorization_failed", 403>>,
     <<r.target = "unknown", "review_target_not_found", 404>>,
     <<~row.pending, "review_not_pending", 409>> >>

Refusals(m, r, row) ==
  LET checks == Checks(m, r, row) IN {i \in DOMAIN checks : checks[i][1]}

----------------------------------------------------------------------------
(* Steps *)

NoAnswer == [code |-> "none", status |-> 0, at |-> 0]

Browse(where) == browser' = [browser EXCEPT !.pc = where]

(* A page about the row reads the queue for the row ... *)
ViewRow ==
  /\ browser.pc = "away"
  /\ browser' = [browser EXCEPT !.pc = "viewing", !.row = Row(reviews)]
  /\ UNCHANGED <<mode, reviews, trail>>

(* ... and again, with the rows of every other event that waits for a review, *)
(* for the panel about enablement.                                            *)
ViewEnablement ==
  /\ browser.pc = "viewing"
  /\ \E waiting \in SUBSET ({"none"} \cup Identities) :
       browser' = [browser EXCEPT !.pc = "page", !.again = Row(reviews),
                     !.othersWarn = \E who \in waiting : Counted(mode, who) # {}]
  /\ UNCHANGED <<mode, reviews, trail>>

Answer(code, status) ==
  browser' = [browser EXCEPT !.pc = "answered",
                !.answer = [code |-> code, status |-> status, at |-> Len(reviews)]]

(* do_POST and review_action_response up to the decision *)
PostReview ==
  /\ browser.pc = "page"
  /\ \E r \in Requests, a \in Actions :
       LET row == Row(reviews)
           refusals == Refusals(mode, r, row)
           first == CHOOSE i \in refusals : \A j \in refusals : i <= j
       IN browser' = [browser EXCEPT !.req = r, !.action = a,
            !.pc = IF refusals = {} THEN "audit" ELSE "answered",
            !.answer = IF refusals = {} THEN NoAnswer
                       ELSE [code |-> Checks(mode, r, row)[first][2],
                             status |-> Checks(mode, r, row)[first][3], at |-> Len(reviews)]]
  /\ UNCHANGED <<mode, reviews, trail>>

(* ReviewService._record_decision: the audit event first ... *)
InsertAudit ==
  /\ browser.pc = "audit"
  /\ \/ trail' = trail + 1 /\ Browse("append")
     \/ UNCHANGED trail /\ Answer("audit_insertion_failed", 500)
  /\ UNCHANGED <<mode, reviews>>

Decision(a, who, by) == [action |-> a, who |-> who, by |-> by]

(* ... and then the decision. *)
AppendDecision ==
  /\ browser.pc = "append"
  /\ \/ /\ reviews' = Append(reviews, Decision(browser.action, Identity(browser.req), "ui"))
        /\ browser' = [browser EXCEPT !.pc = "answered",
             !.answer = [code |-> "applied", status |-> 200, at |-> Len(reviews) + 1]]
     \/ UNCHANGED reviews /\ Answer("decision_persistence_failed", 500)
  /\ UNCHANGED <<mode, trail>>

(* chronicle review approve, reject, request-changes: another process, which *)
(* asks neither for the modes nor whether the event is pending.              *)
ReviewAtCommandLine ==
  /\ Len(reviews) < MaxReviews
  /\ browser.pc # "answered"   \* bound: what comes after the answer is not looked at
  /\ \E a \in Actions, who \in Identities : reviews' = Append(reviews, Decision(a, who, "cli"))
  /\ trail' = trail + 1
  /\ UNCHANGED <<mode, browser>>

PageInit ==
  /\ mode \in Modes
  /\ reviews = <<>> /\ trail = 0
  /\ browser = [pc |-> "away", row |-> Row(<<>>), again |-> Row(<<>>), othersWarn |-> FALSE,
                req |-> Flawless, action |-> "approve", answer |-> NoAnswer]

PageNext ==
  ViewRow \/ ViewEnablement \/ PostReview \/ InsertAudit \/ AppendDecision \/ ReviewAtCommandLine

PageSpec == PageInit /\ [][PageNext]_pageVars

----------------------------------------------------------------------------
(* Properties *)

(* A page shows these panels while the event is in the queue. *)
HasPage == browser.pc \notin {"away", "viewing"} /\ browser.row.pending

(* The four panels of one page say the same: what the step panel calls       *)
(* enabled, blocked or preview-only the prerequisites call ready, blocked or *)
(* preview-only, enabled needs a sufficient identity, and the enablement     *)
(* panel, which reads the queue again and counts the warnings of all its     *)
(* rows, agrees unless somebody decided in between or another event's row    *)
(* warns.                                                                    *)
PanelsAgree ==
  LET step == ReviewStep(mode, browser.row)
  IN HasPage =>
       /\ ApplyPrerequisites(mode, browser.row) =
            CASE step = "enabled" -> "ready"
              [] step = "advisory_only" -> "boundary_blocked"
              [] OTHER -> step
       /\ step = "enabled" =>
            /\ IdentitySufficient(mode, browser.row)
            /\ \/ EnablementReady(mode, browser.again, browser.othersWarn)
               \/ browser.again # browser.row
               \/ browser.othersWarn

(* The answer is the one the page's contract gives: its code and status are  *)
(* announced (but for a body that is no object, and for a credential that is *)
(* not ASCII, which gets no answer at all), writing is refused as a          *)
(* whole exactly when the page said so, a request that keeps the contract is *)
(* applied unless a write fails or somebody decided the event, one that does *)
(* not is refused, and an applied action leaves the row as the page's matrix *)
(* says.                                                                     *)
OutcomeForetold ==
  LET code == browser.answer.code
      family == Family(browser.answer.status)
      decided == SubSeq(reviews, 1, browser.answer.at)
  IN browser.pc = "answered" =>
       /\ code \in {"applied", "invalid_request_body", "no answer"} \cup GateErrors \cup DurableErrors
       /\ code = "no answer" => "not ASCII" \in {browser.req.token, browser.req.session_id}
       /\ code # "no answer" => family = CASE code = "applied" -> "success"
                                    [] code \in DurableErrors -> "durable_write_path"
                                    [] OTHER -> "pre_mutation_or_gate"
       /\ code = "mutation_disabled" <=> ~MutationEnabled(mode)
       /\ MutationEnabled(mode) =>
            (KeepsContract(mode, browser.req)
               <=> code \in {"applied", "review_not_pending"} \cup DurableErrors)
       /\ code = "review_not_pending" =>
            ~browser.row.pending \/ browser.answer.at > browser.row.count
       /\ code = "applied" =>
            Row(decided).pending <=> ResultingState(browser.action) = "remains_pending"

(* What the answer says of the files is so: applied means one decision and   *)
(* its audit event, a failed append leaves an audit event without a decision *)
(* and every other answer nothing at all; and a review that went through the *)
(* server was an operator's, in a session.                                   *)
AnswersAreTrue ==
  LET code == browser.answer.code
      mine == {i \in DOMAIN reviews : reviews[i].by = "ui"}
  IN /\ trail = Len(reviews)
          + (IF browser.pc = "append" \/ code = "decision_persistence_failed" THEN 1 ELSE 0)
     /\ Cardinality(mine) = (IF code = "applied" THEN 1 ELSE 0)
     /\ \A i \in mine : reviews[i].who = "local_operator in session"

(* ui_server.py, the review pages and the write route: the page foretells    *)
(* what the POST answers, whoever decides in between.                        *)
PageForetells == PanelsAgree /\ OutcomeForetold /\ AnswersAreTrue

(* docs/v1.7-phase-h-gated-gui-mutation-preview.md:92: an event that is still *)
(* pending can be reviewed where writing is enabled.  The page calls one that *)
(* nobody decided before blocked, although the route accepts its review.      *)
PendingIsOffered ==
  HasPage /\ MutationEnabled(mode) => ReviewStep(mode, browser.row) = "enabled"

(* ui_server.py:1931-1936, the transaction order of the write route's         *)
(* contract: the decision is persisted, then the audit event inserted.  The   *)
(* code inserts the audit event first.                                        *)
DecisionFirst == trail <= Len(reviews)
=============================================================================
