--------------------------- MODULE ContextPolicy ---------------------------
(***************************************************************************)
(* What the code decides about a context: how sensitive it is, whether a   *)
(* model may see it, what a package says of it, whether a review of that   *)
(* package stops its handoff, and what the boundary rules make of it.  All *)
(* of it is advisory and none of it has a state: the services call these   *)
(* functions on what they have just read.                                  *)
(*                                                                         *)
(* A context is a record of its id, its text (the set of instruction-like  *)
(* patterns that its title and summary contain: nothing else in the text   *)
(* is looked at), its classification and the fields a rule may name.       *)
(***************************************************************************)
EXTENDS Integers, Sequences, FiniteSets

Unclassified == -1   \* no classification, as a layer below all others
SensitiveContext == 3
RestrictedSecret == 4
Layers == 0 .. RestrictedSecret

(* ClassificationMetadata as classify_context builds it: the operations and  *)
(* the model policy are the defaults, narrowed for a restricted secret.  The *)
(* layer Unclassified stands for a context without any.                      *)
Classification(layer) ==
  [layer |-> layer,
   operations |-> IF layer = RestrictedSecret THEN {"view"} ELSE {"view", "summarize", "reinterpret"},
   local_allowed |-> layer # RestrictedSecret,
   external_allowed |-> FALSE,
   masking_required |-> TRUE]

----------------------------------------------------------------------------
(* The scan for stored instructions *)

PatternIds ==
  {"ignore_previous_instructions_en", "ignore_system_instructions_en",
   "previous_instructions_jp", "reveal_secret_en", "send_to_external_en",
   "external_send_jp", "treat_as_public_en", "classification_public_jp",
   "you_are_now_en"}

(* scan_text_for_prompt_injection: one finding for each pattern present *)
Markers(text) == {"prompt_marker:" \o id : id \in text \cap PatternIds}

----------------------------------------------------------------------------
(* The dry-run check before a context is shown to a model *)

UseFindings(ctx, target) ==
  LET cls == ctx.cls IN
  IF cls.layer = Unclassified THEN {"unclassified"}
  ELSE IF cls.layer = RestrictedSecret THEN {"blocked"}
  ELSE {f \in {"no_inject", "external_not_allowed", "masking", "local_not_allowed"} :
          CASE f = "no_inject" -> "inject" \notin cls.operations
            [] f = "external_not_allowed" -> target = "external" /\ ~cls.external_allowed
            [] f = "masking" -> target = "external" /\ cls.masking_required
            [] OTHER -> target = "local" /\ ~cls.local_allowed}

UseStatus(ctxs, target) ==
  LET findings == UNION {UseFindings(c, target) : c \in ctxs}
  IN  CASE "blocked" \in findings -> "blocked"
        [] findings = {} -> "ok"
        [] OTHER -> "warning"

----------------------------------------------------------------------------
(* Lifecycle markers.  marks: the set of [target, action] that can be read.  *)

Actions == {"redact", "seal", "expire", "tombstone", "hard_delete"}

Tombstoned(marks, id) ==
  \E a \in {"tombstone", "hard_delete"} : [target |-> id, action |-> a] \in marks

Sealed(marks, id) == [target |-> id, action |-> "seal"] \in marks

----------------------------------------------------------------------------
(* Packages of contexts *)

Named(ctxs, ids) == IF ids = {} THEN ctxs ELSE {c \in ctxs : c.id \in ids}

(* ContextUseService.check *)
UseCheck(ctxs, ids, target) == UseStatus(Named(ctxs, ids), target)

(* ContextSelectionPolicy.select: no ids means all, an unknown id is dropped *)
Select(ctxs, ids, marks) == {c \in Named(ctxs, ids) : ~Tombstoned(marks, c.id)}

(* Mutant: a sensitive context may leave *)
ClassWarningsAbove(ctx, target) ==
  (IF ctx.cls.layer = Unclassified THEN {"unclassified_context"} ELSE {})
       \cup (IF ctx.cls.layer = RestrictedSecret THEN {"layer4_reference_only"} ELSE {})
       \cup (IF target = "external" /\ ctx.cls.layer > SensitiveContext /\ ~ctx.cls.external_allowed
             THEN {"external_sensitive_context_not_allowed"} ELSE {})

ClassWarnings(ctx, target) ==
  (IF ctx.cls.layer = Unclassified THEN {"unclassified_context"} ELSE {})
       \cup (IF ctx.cls.layer = RestrictedSecret THEN {"layer4_reference_only"} ELSE {})
       \cup (IF target = "external" /\ ctx.cls.layer >= SensitiveContext /\ ~ctx.cls.external_allowed
             THEN {"external_sensitive_context_not_allowed"} ELSE {})

(* Mutant: a secret's body is withheld from external packages only *)
BodyIfLocal(ctx, target) == ctx.cls.layer # RestrictedSecret \/ target = "local"

(* The body is included unless the context is a restricted secret *)
HasBody(ctx, target) == ctx.cls.layer # RestrictedSecret

(* ContextPackageRecordBuilder.build *)
PackageRecord(ctx, target, marks) ==
  [id |-> ctx.id,
   layer |-> ctx.cls.layer,
   body |-> HasBody(ctx, target),
   warnings |-> ClassWarnings(ctx, target) \cup Markers(ctx.text)
                \cup (IF Sealed(marks, ctx.id) THEN {"lifecycle_sealed_record"} ELSE {})]

(* PackageClassificationSummary.output_classification: the highest layer *)
OutputLayer(records) ==
  LET layers == {Unclassified} \cup {r.layer : r \in records}
  IN  CHOOSE l \in layers : \A m \in layers : m <= l

(* What the manifest adds when a marker hides a record.  asked: the ids that *)
(* the caller passed, where the package command without --context passes     *)
(* None, which any hidden target meets, and the preview an empty list, which *)
(* none does.                                                                *)
HiddenWarning(asked, marks) ==
  IF \E m \in marks : Tombstoned(marks, m.target) /\ m.target \in asked
  THEN {"lifecycle_tombstoned_records_excluded"} ELSE {}

(* build_context_package *)
Package(ctxs, target, ids, asked, marks) ==
  LET records == {PackageRecord(c, target, marks) : c \in Select(ctxs, ids, marks)}
  IN  [target |-> target, records |-> records, output |-> OutputLayer(records),
       warnings |-> UNION {r.warnings : r \in records} \cup HiddenWarning(asked, marks)]

(* BLOCKING_WARNING_CODES, as they are written: the marker codes are not the *)
(* ids of any pattern above.                                                 *)
BlockingCodes ==
  {"external_sensitive_context_not_allowed", "prompt_marker:ignore_previous_instructions",
   "prompt_marker:export_secrets", "prompt_marker:system_override"}

(* PackageReviewService.review_package *)
ReviewStatus(pkg) ==
  LET findings == pkg.warnings \cup UNION {r.warnings : r \in pkg.records}
  IN  CASE findings \cap BlockingCodes # {} -> "blocked"
        [] findings \cap BlockingCodes = {} /\ findings # {} -> "warning"
        [] OTHER -> "pass"

----------------------------------------------------------------------------
(* Previews of an external AI boundary *)

InterpretationWarnings(included) ==
  {"not_primary_fact", "review_required", "decay_candidate"}
       \cup IF included = {} THEN {} ELSE {"external_context_disclosure"}

(* AiBoundaryService.preview: the package of the task, split into what it    *)
(* includes and what was asked for and left out.  With no ids a record that  *)
(* a marker hides is in neither, and no warning speaks of it.                *)
Preview(ctxs, ids, marks) ==
  LET pkg == Package(ctxs, "external", ids, ids, marks)
      included == {r.id : r \in pkg.records}
  IN  [included |-> included, excluded |-> ids \ included,
       redact |-> {r.id : r \in {s \in pkg.records : ~s.body \/ s.warnings # {}}},
       warnings |-> pkg.warnings,
       cautions |-> InterpretationWarnings(included)]

----------------------------------------------------------------------------
(* Boundary rules and injection plans *)

(* A rule compares one field of the context with its value.  The tags of a   *)
(* context are a list, the other fields are one word; the value of a rule is *)
(* one word or a list of them (the command line makes a list of two or more).*)
(* A word is the singleton of itself and "list" tells the two apart; the     *)
(* words of an instance are not parts of one another, and lists that are     *)
(* compared are written in one order.                                        *)
Word(w) == [list |-> FALSE, words |-> {w}]
List(ws) == [list |-> TRUE, words |-> ws]

RuleMatches(rule, ctx) ==
  LET field == ctx.fields[rule.field]  value == rule.value IN
  CASE rule.op = "equals" -> field = value
    [] rule.op = "not_equals" -> field # value
    [] rule.op = "in" ->
         IF value.list THEN ~field.list /\ field.words \subseteq value.words
                       ELSE value.words \subseteq field.words
    [] OTHER -> field.words \cap value.words # {}

Matching(rules, ctx, type) == {r \in rules : r.type = type /\ RuleMatches(r, ctx)}

(* InjectionPlanService.generate_plan, for the rules that are enabled *)
InjectionPlan(ctxs, rules) ==
  LET out == {c \in ctxs : Matching(rules, c, "exclude") # {}}
  IN  [excluded |-> {c.id : c \in out},
       selected |-> {c.id : c \in ctxs \ out},
       warned |-> {c.id : c \in {d \in ctxs \ out : Matching(rules, d, "warn") # {}}}]
=============================================================================
