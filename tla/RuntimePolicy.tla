---------------------------- MODULE RuntimePolicy ----------------------------
(***************************************************************************)
(* What the runtime decides without keeping any state: when a plan to call *)
(* the configured provider is blocked, when a call is refused, what a      *)
(* provider's answer is worth, what retrieval puts together and hands      *)
(* over, and what a capability may reach.  A configuration is reduced to   *)
(* what these decisions tell apart: model, url and key say whether the     *)
(* model, the base URL and the variable of the API key are named.          *)
(***************************************************************************)
EXTENDS Integers, FiniteSetsExt

Kinds == {"disabled", "local", "http"}

Config == [kind : Kinds, network : BOOLEAN, context : BOOLEAN,
           model : BOOLEAN, url : BOOLEAN, key : BOOLEAN]

Contract(kind, model, url, key, network, context) ==
  [kind |-> kind, network |-> network, context |-> context,
   model |-> model, url |-> url, key |-> key]

(* RuntimeConfig(): what `config disable` stores, and what an empty file says *)
DisabledConfig == Contract("disabled", FALSE, FALSE, FALSE, FALSE, FALSE)

LocalConfig(model) == Contract("local", model, FALSE, FALSE, FALSE, FALSE)

----------------------------------------------------------------------------
(* Plans and calls.  refs: whether the request carries source references.    *)

PlanReasons == {"disabled", "network", "context", "model"}

BlockingReasons(c, refs) ==
  {r \in PlanReasons : \/ r = "disabled" /\ c.kind = "disabled"
                       \/ r = "network" /\ c.kind = "http" /\ ~c.network
                       \/ r = "context" /\ c.kind = "http" /\ refs /\ ~c.context
                       \/ r = "model" /\ ~c.model}

(* What the backend itself looks for: not the same list *)
BackendReasons == {"not_http", "network", "url", "model", "key"}

NotReady(c) ==
  {r \in BackendReasons : \/ r = "not_http" /\ c.kind # "http"
                          \/ r = "network" /\ ~c.network
                          \/ r = "url" /\ ~c.url
                          \/ r = "model" /\ ~c.model
                          \/ r = "key" /\ ~c.key}

(* A request: execute is --execute-configured-provider, credential whether the *)
(* variable of the key is set in the environment of this command               *)
Request == [refs : BOOLEAN, execute : BOOLEAN, credential : BOOLEAN]

HttpOutcome(c, r) ==
  IF NotReady(c) # {} THEN "not_ready"
  ELSE IF r.credential THEN "call" ELSE "no_credential"

(* The references of a summarize request are not sent and not looked at *)
SummarizeOutcome(c, r) ==
  IF c.kind # "http" THEN "local"
  ELSE IF r.execute THEN HttpOutcome(c, r) ELSE "not_enabled"

InvokeOutcome(c, r) ==
  IF ~r.execute THEN "not_enabled"
  ELSE IF r.refs /\ ~c.context THEN "context_not_allowed" ELSE HttpOutcome(c, r)

(* What comes back: nothing, not JSON, not an object, an object without text *)
Responses == {"no_transport", "http_error", "not_json", "not_object", "no_text", "text"}
Usable(response) == response = "text"

----------------------------------------------------------------------------
(* Retrieval: hits of three surfaces, a hit being [id, score]                *)

Surfaces == {"vector_index", "graph_export_adapter", "chronicle_search"}

Identifiers(hits) == {h.id : h \in hits}

ComposedHit(found, id) ==
  [id |-> id,
   sources |-> {s \in Surfaces : id \in Identifiers(found[s])},
   best |-> Max({h.score : h \in {g \in UNION {found[s] : s \in Surfaces} : g.id = id}})]

Composed(found) ==
  {ComposedHit(found, id) : id \in UNION {Identifiers(found[s]) : s \in Surfaces}}

Overlap(found) == Cardinality({h \in Composed(found) : Cardinality(h.sources) > 1})

(* A graph export, as the validation of a handoff sees it *)
GraphFacts == {"available", "format", "version", "mode", "primary", "boundaries"}

ImportValidation(facts, status, referenced) ==
  [status |-> CASE facts # GraphFacts -> "contract_mismatch"
                [] facts = GraphFacts /\ status = "advisory_only" -> "advisory_only"
                [] facts = GraphFacts /\ status # "advisory_only" -> "contract_validated",
   ready |-> facts = GraphFacts /\ referenced # {}]

(* contexts: the identifiers that begin with ctx_ *)
Handoff(found, facts, contexts) ==
  LET referenced == UNION {Identifiers(found[s]) : s \in Surfaces}
      status == IF referenced = {} THEN "advisory_only" ELSE "contract_available" IN
  [status |-> status, referenced |-> referenced, overlap |-> Overlap(found),
   eligible |-> referenced \cap contexts, skipped |-> referenced \ contexts,
   validation |-> ImportValidation(facts, status, referenced)]

----------------------------------------------------------------------------
(* Capabilities: a static registry, and the access of a scoped runtime       *)

Capability(id, family, network, mutates, review) ==
  [id |-> id, family |-> family, network |-> network, mutates |-> mutates, review |-> review]

Capabilities ==
  {Capability("runtime.summarize", "runtime", TRUE, FALSE, TRUE),
   Capability("runtime.invoke", "runtime", TRUE, FALSE, TRUE),
   Capability("runtime.retrieve_plan", "runtime", FALSE, FALSE, TRUE),
   Capability("artifact.propose_update", "proposal", FALSE, TRUE, TRUE),
   Capability("context.propose_update", "proposal", FALSE, TRUE, TRUE),
   Capability("review.approve", "review", FALSE, TRUE, FALSE),
   Capability("review.request_changes", "review", FALSE, TRUE, FALSE),
   Capability("review.reject", "review", FALSE, TRUE, FALSE)}

Registered(id) == \E c \in Capabilities : c.id = id

ClosedNetwork == [enabled |-> FALSE, destinations |-> {}, operations |-> {}]

(* The factory refuses records that do not exist, and closes the network of a *)
(* capability that uses none, whatever policy it was given                    *)
ScopedRuntime(capability, contexts, artifacts, policy) ==
  [capability |-> capability, contexts |-> contexts, artifacts |-> artifacts,
   network |-> IF capability.network THEN policy ELSE ClosedNetwork]

MayReach(runtime, destination, operation) ==
  /\ runtime.network.enabled
  /\ destination \in runtime.network.destinations
  /\ operation \in runtime.network.operations

MayRead(runtime, id) == id \in runtime.contexts \cup runtime.artifacts
=============================================================================
