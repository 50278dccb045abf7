----------------------------- MODULE MCContexts -----------------------------
(* A context of the scope "session"; the rules exclude a scope, compare tags, *)
(* and warn; the mixes put together the commands that meet.                   *)
EXTENDS ContextFlow

MCFields == [id \in Ids |-> [scope |-> Word("session"), tags |-> List({"draft"})]]
MCRules == {[type |-> "exclude", field |-> "scope", op |-> "equals", value |-> Word("session")],
            [type |-> "exclude", field |-> "tags", op |-> "contains", value |-> List({"draft", "old"})],
            [type |-> "exclude", field |-> "tags", op |-> "equals", value |-> Word("draft")],
            [type |-> "warn", field |-> "tags", op |-> "in", value |-> Word("draft")],
            [type |-> "exclude", field |-> "scope", op |-> "in", value |-> List({"task", "project"})]}
MCTexts == {{}, {"reveal_secret_en"}}
MCMixes == {{"add", "classify", "update"}, {"add", "classify", "package", "review"},
            {"add", "mark", "package"}, {"add", "preview"}, {"add", "rule", "plan"}}
Perms == Permutations(Procs)
=============================================================================
