------------------------------ MODULE MCRuntime ------------------------------
(* Contracts that allow nothing, the network, or the network and references;  *)
(* the mixes put together the commands that meet.                             *)
EXTENDS RetrievalIndexes

MCContracts == {DisabledConfig, Contract("http", TRUE, TRUE, TRUE, FALSE, FALSE),
                Contract("http", TRUE, TRUE, TRUE, TRUE, FALSE),
                Contract("http", TRUE, TRUE, TRUE, TRUE, TRUE)}
MCRequests == {[refs |-> FALSE, execute |-> TRUE, credential |-> TRUE],
               [refs |-> TRUE, execute |-> TRUE, credential |-> TRUE],
               [refs |-> FALSE, execute |-> FALSE, credential |-> TRUE],
               [refs |-> TRUE, execute |-> TRUE, credential |-> FALSE]}
MCMixes == {Mix({"configure", "plan", "execute"}, 2, 3, 0), Mix({"configure", "invoke"}, 1, 3, 0),
            Mix({"configure", "summarize"}, 2, 3, 0), Mix({"draft", "run"}, 4, 1, 1),
            Mix({"invoke"}, 4, 1, 1), Mix({"retrieve", "receive", "promote"}, 2, 0, 0),
            Mix({"receive", "rebuild", "ask"}, 3, 0, 1), Mix({"receive", "index"}, 1, 0, 1)}
MCWishes == {{"draft"}, {"artifact", "record"}}
MCFinds == {[s \in Surfaces |-> {}],
            [s \in Surfaces |-> IF s = "vector_index" THEN {[id |-> "ctx_1", score |-> 2], [id |-> "evt_1", score |-> 1]}
                                ELSE {[id |-> "evt_1", score |-> 0]}]}
Perms == Permutations(Procs)
=============================================================================
