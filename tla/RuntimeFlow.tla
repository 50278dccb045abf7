----------------------------- MODULE RuntimeFlow -----------------------------
(***************************************************************************)
(* The runtime at work.  Commands store a provider contract in             *)
(* runtime_config, plan a call, make one (directly, from a recorded plan   *)
(* or from a summary job), and keep what came back: a draft summary job    *)
(* (an artifact, an event and a file), an artifact, an event.  A plan is   *)
(* read again when it is executed, and so is the configuration; between    *)
(* the two anything may have happened, and nothing is locked.              *)
(*                                                                         *)
(* A text is 0 when no provider wrote it, otherwise the number of the call *)
(* that did.  An append and the rebuild after it are one step here         *)
(* (ChronicleStore takes them apart); a file is missing, empty, whole or   *)
(* garbled by two commands that wrote it at once.                          *)
(***************************************************************************)
EXTENDS RuntimePolicy, SequencesExt

CONSTANTS
  Procs,       \* commands that may run at once
  Contracts,   \* configurations a person may store, or has stored
  Requests,    \* how a call may be asked for
  Mixes,       \* sets of operations, one of which is in use, with the bounds of its run
  Wishes,      \* what a caller may want kept: subsets of draft, artifact, record
  Finds,       \* what the three surfaces may find for a query
  MaxJobs,     \* bound: summary jobs
  MaxCalls     \* bound: calls of the provider

RuntimeOps == {"configure", "plan", "summarize", "invoke", "execute", "run", "draft",
               "retrieve", "receive", "promote", "rebuild", "ask", "index"}

ASSUME ContractsAssumption == Contracts \subseteq Config /\ Requests \subseteq Request
ASSUME WishesAssumption == Wishes \subseteq SUBSET {"draft", "artifact", "record"}
ASSUME RuntimeBounds == {MaxJobs, MaxCalls} \subseteq Nat

(* Bounds: lines of the log, states of the configuration, commands that die *)
Mix(ops, events, configs, deaths) ==
  [ops |-> ops, events |-> events, configs |-> configs, crashes |-> deaths]

ASSUME MixesAssumption ==
  \A m \in Mixes : m.ops \subseteq RuntimeOps /\ {m.events, m.configs, m.crashes} \subseteq Nat

VARIABLES
  mix,      \* the operations in use
  config,   \* runtime_config: missing, empty, a contract or garbled
  past,     \* history: every state the configuration was in, as it is read
  log,      \* chronicle.jsonl: what the runtime appends to it
  jobs,     \* the files of the summary jobs
  calls,    \* history: the requests that left the machine
  proc,     \* the local state of each command
  crashes

runtimeVars == <<mix, config, past, log, jobs, calls, proc, crashes>>

(* The states of a file *)
Missing == [state |-> "missing"]
Empty == [state |-> "empty"]
Garbled == [state |-> "garbled"]
Holding(content) == [state |-> "whole", holds |-> content]

(* What a write from the start leaves of a file it had emptied: what is longer, *)
(* of another command that wrote since, sticks out behind it                    *)
Overlaid(file, content) ==
  {Holding(content)} \cup (IF file.state = "empty" THEN {} ELSE {Garbled})

(* A command: where it is, its operation, what it was asked for, what it has got *)
Job(pc, op, req, got) == [pc |-> pc, op |-> op, req |-> req, got |-> got]
Idle == Job("idle", "none", <<>>, <<>>)
JobIds == 1 .. MaxJobs

(* RuntimeConfigService.show: no file is the local default, an empty one is    *)
(* a configuration without a field; a garbled one is an error and permits      *)
(* nothing                                                                     *)
Shown(file) ==
  CASE file.state = "missing" -> LocalConfig(TRUE)
    [] file.state = "whole" -> file.holds
    [] OTHER -> DisabledConfig

Whole(j) == jobs[j].state = "whole"

EventsOf(kind) == {i \in DOMAIN log : log[i].kind = kind}
Entry(kind, data) == [kind |-> kind, data |-> data]
AddEvent(kind, data) == Len(log) < mix.events /\ log' = Append(log, Entry(kind, data))

Start(p, op, pc, req) ==
  /\ proc[p] = Idle
  /\ proc' = [proc EXCEPT ![p] = Job(pc, op, req, <<>>)]
  /\ UNCHANGED <<mix, config, past, log, jobs, calls, crashes>>

End(p) == proc' = [proc EXCEPT ![p] = Idle]
Go(p, pc, got) == proc' = [proc EXCEPT ![p] = Job(pc, proc[p].op, proc[p].req, got)]

----------------------------------------------------------------------------
(* The configuration: one file, written over, and read without a lock        *)

BeginConfigure(p) ==
  \E c \in Contracts :
    "configure" \in mix.ops /\ Len(past) + 1 < mix.configs /\ Start(p, "configure", "truncate", c)

ConfigBecomes(file) == config' = file /\ past' = Append(past, Shown(file))

TruncateConfig(p) ==
  /\ proc[p].pc = "truncate" /\ Len(past) + 1 < mix.configs
  /\ ConfigBecomes(Empty) /\ Go(p, "store", <<>>)
  /\ UNCHANGED <<mix, log, jobs, calls, crashes>>

(* YAML: a contract that sticks out whole is the later one, and counts *)
StoreConfig(p) ==
  /\ proc[p].pc = "store" /\ End(p)
  /\ \/ \E file \in Overlaid(config, proc[p].req) : ConfigBecomes(file)
     \/ config.state = "whole" /\ ConfigBecomes(config)
  /\ UNCHANGED <<mix, log, jobs, calls, crashes>>

----------------------------------------------------------------------------
(* Plans.  A recorded plan keeps what it was about and what blocked it.      *)

BeginPlan(p) == "plan" \in mix.ops /\ \E refs \in BOOLEAN : Start(p, "plan", "plan", refs)

(* `summary invoke-plan`: the references of the job are those of the plan *)
BeginPlanFromJob(p) ==
  "run" \in mix.ops /\ \E j \in JobIds : Whole(j) /\ Start(p, "plan", "plan", jobs[j].holds.refs)

RecordPlan(p) ==
  /\ proc[p].pc = "plan" /\ End(p)
  /\ IF config = Garbled THEN UNCHANGED log
     ELSE AddEvent("plan", [refs |-> proc[p].req, blocked |-> BlockingReasons(Shown(config), proc[p].req)])
  /\ UNCHANGED <<mix, config, past, jobs, calls, crashes>>

(* A retrieval plan and its handoff; nothing is called, nothing is imported *)
RetrievePlan(p) ==
  /\ proc[p] = Idle /\ "retrieve" \in mix.ops
  /\ \E found \in Finds, contexts \in SUBSET {h.id : h \in UNION UNION {Range(f) : f \in Finds}} :
       AddEvent("retrieval", Handoff(found, GraphFacts, contexts))
  /\ UNCHANGED <<mix, config, past, jobs, calls, proc, crashes>>

(* A message from outside is an event, and a promoted one is another; neither   *)
(* runs the capability it names                                                *)
ReceiveInput(p) ==
  /\ proc[p] = Idle /\ "receive" \in mix.ops /\ AddEvent("input", {})
  /\ UNCHANGED <<mix, config, past, jobs, calls, proc, crashes>>

PromoteInput(p) ==
  /\ proc[p] = Idle /\ "promote" \in mix.ops
  /\ \E i \in EventsOf("input"), c \in Capabilities :
       Registered(c.id) /\ AddEvent("promotion", [parent |-> i, capability |-> c.id])
  /\ UNCHANGED <<mix, config, past, jobs, calls, proc, crashes>>

----------------------------------------------------------------------------
(* Calls                                                                     *)

(* from: how many configurations there had been when the command began *)
Wanting(r, wish, plan) == [r |-> r, wish |-> wish, from |-> Len(past), plan |-> plan]

BeginSummarize(p) ==
  \E r \in Requests, wish \in Wishes :
    /\ "summarize" \in mix.ops /\ ~r.refs /\ "artifact" \notin wish
    /\ Start(p, "summarize", "config", Wanting(r, wish, 0))

BeginInvoke(p) ==
  \E r \in Requests, wish \in Wishes :
    "invoke" \in mix.ops /\ Start(p, "invoke", "config", Wanting(r, wish, 0))

(* The plan is found again by the id of its event; that it was blocked, or     *)
(* what a review said of it, is not looked at                                  *)
Replans(r, i) == i \in EventsOf("plan") /\ r.refs = log[i].data.refs

BeginExecute(p) ==
  \E i \in DOMAIN log, r \in Requests, wish \in Wishes :
    /\ "execute" \in mix.ops /\ Replans(r, i)
    /\ Start(p, "execute", "config", Wanting(r, wish, i))

(* `summary run`: a new draft from the text of an older one, by either way *)
BeginRun(p) ==
  \E j \in JobIds, r \in Requests, wish \in Wishes, op \in {"summarize", "invoke"} :
    /\ "run" \in mix.ops /\ Whole(j) /\ r.refs = jobs[j].holds.refs
    /\ op = "summarize" => "artifact" \notin wish
    /\ Start(p, op, "config", Wanting(r, wish \cup {"draft"}, 0))

(* Mutant: the execution of a plan relies on the plan's own look at the contract *)
OutcomeByPlan(p) ==
  IF proc[p].op = "execute"
  THEN IF log[proc[p].req.plan].data.blocked = {} THEN "call" ELSE "not_ready"
  ELSE IF proc[p].op = "summarize" THEN SummarizeOutcome(Shown(config), proc[p].req.r)
  ELSE InvokeOutcome(Shown(config), proc[p].req.r)

Outcome(p) ==
  IF proc[p].op = "summarize" THEN SummarizeOutcome(Shown(config), proc[p].req.r)
  ELSE InvokeOutcome(Shown(config), proc[p].req.r)

(* A text to be kept, and the ids of the draft made of it *)
Result(text, told) == [text |-> text, told |-> told, job |-> 0, artifact |-> 0, event |-> 0]

Keep(p, text, told) ==
  IF proc[p].req.wish = {} THEN End(p) ELSE Go(p, "keep", Result(text, told))

ReadConfig(p) ==
  /\ proc[p].pc = "config"
  /\ \/ config # Garbled /\ Outcome(p) = "local" /\ Keep(p, 0, FALSE)
     \/ config # Garbled /\ Outcome(p) = "call" /\ Go(p, "send", <<>>)
     \/ (config = Garbled \/ Outcome(p) \notin {"local", "call"}) /\ End(p)
  /\ UNCHANGED <<mix, config, past, log, jobs, calls, crashes>>

(* The references of a summarize request stay at home *)
Send(p) ==
  LET req == proc[p].req IN
  /\ proc[p].pc = "send" /\ Len(calls) < MaxCalls
  /\ calls' = Append(calls, [refs |-> req.r.refs /\ proc[p].op # "summarize", answered |-> FALSE,
                             from |-> req.from, at |-> Len(past), wish |-> req.wish])
  /\ Go(p, "answer", Len(calls) + 1)
  /\ UNCHANGED <<mix, config, past, log, jobs, crashes>>

Receive(p) ==
  \E response \in Responses :
    /\ proc[p].pc = "answer"
    /\ IF Usable(response)
       THEN /\ calls' = [calls EXCEPT ![proc[p].got].answered = TRUE]
            /\ Keep(p, proc[p].got, TRUE)
       ELSE End(p) /\ UNCHANGED calls
    /\ UNCHANGED <<mix, config, past, log, jobs, crashes>>

----------------------------------------------------------------------------
(* Keeping a result: the draft job first, then the artifact, then the event  *)

(* A draft made by hand needs no runtime at all *)
ManualDraft(refs) == Wanting([refs |-> refs, execute |-> FALSE, credential |-> FALSE], {"draft"}, 0)

BeginDraft(p) ==
  /\ proc[p] = Idle /\ "draft" \in mix.ops
  /\ \E refs \in BOOLEAN :
       proc' = [proc EXCEPT ![p] = Job("keep", "draft", ManualDraft(refs), Result(0, FALSE))]
  /\ UNCHANGED <<mix, config, past, log, jobs, calls, crashes>>

Wished(p, what) == proc[p].pc = "keep" /\ what \in proc[p].req.wish

Taken == {proc[q].got.job : q \in {r \in Procs : proc[r].pc \in {"event", "truncate_job", "file"}}}

DraftArtifact(p) ==
  \E j \in JobIds \ Taken :
    /\ Wished(p, "draft") /\ jobs[j] = Missing
    /\ \A e \in EventsOf("job") : log[e].data.job # j
    /\ AddEvent("artifact", proc[p].got.text)
    /\ Go(p, "event", [proc[p].got EXCEPT !.job = j, !.artifact = Len(log) + 1])
    /\ UNCHANGED <<mix, config, past, jobs, calls, crashes>>

(* Mutant: the file of the job is written before the event that announces it *)
JobEventLater(p) ==
  /\ proc[p].pc = "event"
  /\ Go(p, "truncate_job", [proc[p].got EXCEPT !.event = Len(log) + 1])
  /\ UNCHANGED <<mix, config, past, log, jobs, calls, crashes>>

(* The event says that no external call was made, whatever the provenance says *)
JobEvent(p) ==
  /\ proc[p].pc = "event"
  /\ AddEvent("job", [job |-> proc[p].got.job, artifact |-> proc[p].got.artifact, told |-> FALSE])
  /\ Go(p, "truncate_job", [proc[p].got EXCEPT !.event = Len(log) + 1])
  /\ UNCHANGED <<mix, config, past, jobs, calls, crashes>>

TruncateJob(p) ==
  /\ proc[p].pc = "truncate_job"
  /\ jobs' = [jobs EXCEPT ![proc[p].got.job] = Empty] /\ Go(p, "file", proc[p].got)
  /\ UNCHANGED <<mix, config, past, log, calls, crashes>>

(* Done with one of the wishes *)
Kept(p, what) ==
  LET rest == proc[p].req.wish \ {what} IN
  IF rest = {} THEN End(p)
  ELSE proc' = [proc EXCEPT ![p] =
         Job("keep", proc[p].op, [proc[p].req EXCEPT !.wish = rest], proc[p].got)]

WriteJob(p) ==
  LET got == proc[p].got IN
  /\ proc[p].pc = "file" /\ Kept(p, "draft")
  /\ jobs' = [jobs EXCEPT ![got.job] =
       Holding([text |-> got.text, told |-> got.told, refs |-> proc[p].req.r.refs,
                artifact |-> got.artifact, event |-> got.event])]
  /\ UNCHANGED <<mix, config, past, log, calls, crashes>>

KeepArtifact(p) ==
  /\ Wished(p, "artifact") /\ ~Wished(p, "draft")
  /\ AddEvent("artifact", proc[p].got.text) /\ Kept(p, "artifact")
  /\ UNCHANGED <<mix, config, past, jobs, calls, crashes>>

KeepRecord(p) ==
  /\ Wished(p, "record") /\ ~Wished(p, "draft") /\ ~Wished(p, "artifact")
  /\ AddEvent("output", proc[p].got.text) /\ Kept(p, "record")
  /\ UNCHANGED <<mix, config, past, jobs, calls, crashes>>

Crash(p) ==
  /\ proc[p] # Idle /\ crashes < mix.crashes
  /\ crashes' = crashes + 1 /\ End(p)
  /\ UNCHANGED <<mix, config, past, log, jobs, calls>>

----------------------------------------------------------------------------
RuntimeInit ==
  /\ mix \in Mixes
  /\ config \in {Missing} \cup {Holding(c) : c \in {d \in Contracts : mix.configs > 0}}
  /\ past = <<Shown(config)>>
  /\ log = <<>> /\ calls = <<>> /\ crashes = 0
  /\ jobs = [j \in JobIds |-> Missing]
  /\ proc = [p \in Procs |-> Idle]

RuntimeStep(p) ==
  \/ BeginConfigure(p) \/ TruncateConfig(p) \/ StoreConfig(p)
  \/ BeginPlan(p) \/ BeginPlanFromJob(p) \/ RecordPlan(p) \/ RetrievePlan(p)
  \/ ReceiveInput(p) \/ PromoteInput(p)
  \/ BeginSummarize(p) \/ BeginInvoke(p) \/ BeginExecute(p) \/ BeginRun(p)
  \/ ReadConfig(p) \/ Send(p) \/ Receive(p)
  \/ BeginDraft(p) \/ DraftArtifact(p) \/ JobEvent(p) \/ TruncateJob(p) \/ WriteJob(p)
  \/ KeepArtifact(p) \/ KeepRecord(p) \/ Crash(p)

RuntimeNext == \E p \in Procs : RuntimeStep(p)

RuntimeSpec == RuntimeInit /\ [][RuntimeNext]_runtimeVars

----------------------------------------------------------------------------
(* Properties *)

Permits(c, refs) == c.kind = "http" /\ c.network /\ (refs => c.context)

(* A request leaves the machine only under a contract that was in force while  *)
(* its command ran and that allowed the network, and references if it carried  *)
(* any: a plan made under an older contract, or a contract disabled before the *)
(* command was given, calls nobody (runtime_service.py:388, orchestrator.py:64).  *)
CallsWerePermitted ==
  \A i \in DOMAIN calls : \E k \in calls[i].from .. calls[i].at : Permits(past[k], calls[i].refs)

(* Whatever keeps a text of a provider says so in its provenance, and is        *)
(* backed by the event and the artifact it names, which came first and carry    *)
(* the same text; an event whose job has no file is being made or died          *)
(* (summary_job_service.py:89).                                                 *)
JobsAreRecorded ==
  /\ \A j \in JobIds : Whole(j) =>
       LET job == jobs[j].holds IN
       /\ job.told = (job.text > 0)
       /\ job.artifact < job.event /\ job.event \in EventsOf("job")
       /\ log[job.event].data.job = j /\ log[job.event].data.artifact = job.artifact
       /\ log[job.artifact] = Entry("artifact", job.text)
  /\ Cardinality({e \in EventsOf("job") : ~Whole(log[e].data.job)})
       <= crashes + Cardinality({p \in Procs : proc[p].pc \in {"truncate_job", "file"}})

(* An answer that was paid for and wanted is in the log, or its command is     *)
(* still keeping it, or it died (runtime_service.py:122).                      *)
AnswersKept ==
  Cardinality({i \in DOMAIN calls :
      /\ calls[i].answered /\ calls[i].wish # {}
      /\ \A e \in EventsOf("artifact") \cup EventsOf("output") : log[e].data # i
      /\ \A p \in Procs : proc[p].pc = "keep" => proc[p].got.text # i}) <= crashes

ResultsKept == JobsAreRecorded /\ AnswersKept
=============================================================================
