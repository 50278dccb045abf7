---------------------------- MODULE RuntimeProofs ----------------------------
(***************************************************************************)
(* What holds of the runtime for every configuration and every request,    *)
(* any number of commands and any sequence of changes of the contract.     *)
(***************************************************************************)
EXTENDS RetrievalIndexes, SequenceTheorems, FiniteSetTheorems, TLAPS

(* A call needs a contract that permits it.  The references of a summarize     *)
(* request stay at home, so it needs only the network.                         *)
LEMMA OutcomePermitted ==
  ASSUME NEW c, NEW r \in Request
  PROVE  /\ SummarizeOutcome(c, r) = "call" => Permits(c, FALSE)
         /\ InvokeOutcome(c, r) = "call" => Permits(c, r.refs)
<1>1. HttpOutcome(c, r) = "call" => c.kind = "http" /\ c.network
  <2>1. NotReady(c) = {} => c.kind = "http" /\ c.network
    <3>1. "not_http" \in BackendReasons /\ "network" \in BackendReasons  BY DEF BackendReasons
    <3>2. c.kind # "http" => "not_http" \in NotReady(c)  BY <3>1 DEF NotReady
    <3>3. ~c.network => "network" \in NotReady(c)  BY <3>1 DEF NotReady
    <3>. QED  BY <3>2, <3>3
  <2>. QED  BY <2>1 DEF HttpOutcome, Request
<1>2. SummarizeOutcome(c, r) = "call" => HttpOutcome(c, r) = "call"
  BY DEF SummarizeOutcome, Request
<1>3. InvokeOutcome(c, r) = "call" => HttpOutcome(c, r) = "call" /\ (r.refs => c.context)
  BY DEF InvokeOutcome, Request
<1>. QED  BY <1>1, <1>2, <1>3 DEF Permits

(* What a plan calls blocked would not be executed under the same contract: a   *)
(* request that is sent finds no blocking reason (runtime_service.py:311).      *)
THEOREM PlansForetellRefusals ==
  ASSUME NEW c \in Config, NEW r \in Request
  PROVE  /\ InvokeOutcome(c, r) = "call" => BlockingReasons(c, r.refs) = {}
         /\ SummarizeOutcome(c, r) = "call" => BlockingReasons(c, FALSE) = {}
<1>1. HttpOutcome(c, r) = "call" => c.model
  <2>1. "model" \in BackendReasons  BY DEF BackendReasons
  <2>2. ~c.model => "model" \in NotReady(c)  BY <2>1 DEF NotReady
  <2>. QED  BY <2>2 DEF HttpOutcome, Request
<1>2. SummarizeOutcome(c, r) = "call" => HttpOutcome(c, r) = "call"
  BY DEF SummarizeOutcome, Request
<1>3. InvokeOutcome(c, r) = "call" => HttpOutcome(c, r) = "call"
  BY DEF InvokeOutcome, Request
<1>4. ASSUME NEW refs, Permits(c, refs), c.model
      PROVE  BlockingReasons(c, refs) = {}
  BY <1>4 DEF BlockingReasons, Permits
<1>. QED  BY <1>1, <1>2, <1>3, <1>4, OutcomePermitted

----------------------------------------------------------------------------
(* The invariant: a command that is about to send found, since it began, a     *)
(* contract that permits what it is about to send                              *)

Things == {"draft", "artifact", "record"}

Sends(j) == j.req.r.refs /\ j.op # "summarize"

Shape == proc = [p \in Procs |-> Job(proc[p].pc, proc[p].op, proc[p].req, proc[p].got)]

History == past \in Seq(Config) /\ Len(past) > 0 /\ past[Len(past)] = Shown(config)

CallRecord == [refs : BOOLEAN, answered : BOOLEAN, from : Nat, at : Nat, wish : SUBSET Things]

CallsLogged ==
  /\ calls \in Seq(CallRecord)
  /\ \A i \in DOMAIN calls : calls[i].from >= 1 /\ calls[i].at <= Len(past)

Began(j) == j.pc \in {"config", "send"} =>
  j.req.from \in 1 .. Len(past) /\ j.req.r \in Request /\ j.req.wish \in SUBSET Things

Allowed(j) == j.pc = "send" => \E k \in j.req.from .. Len(past) : Permits(past[k], Sends(j))

Storing(j) == j.pc \in {"truncate", "store"} => j.req \in Config

Inv ==
  /\ Shape /\ History /\ CallsLogged /\ CallsWerePermitted
  /\ \A p \in Procs : Began(proc[p]) /\ Allowed(proc[p]) /\ Storing(proc[p])

(* The local default and the empty file are configurations *)
LEMMA ConfigsAreConfigs ==
  /\ DisabledConfig \in Config
  /\ \A m \in BOOLEAN : LocalConfig(m) \in Config
BY DEF DisabledConfig, LocalConfig, Contract, Config, Kinds

(* What a call remembers *)
LEMMA CallTypes ==
  ASSUME CallsLogged, NEW i \in DOMAIN calls
  PROVE  calls[i] \in CallRecord
BY DEF CallsLogged

(* The first state: one configuration is remembered, nothing was sent *)
LEMMA InitInv == RuntimeInit => Inv
<1>. SUFFICES ASSUME RuntimeInit PROVE Inv
  OBVIOUS
<1>1. Shape  BY DEF RuntimeInit, Shape, Job, Idle
<1>2. History
  <2>1. Shown(Missing) \in Config
    BY ConfigsAreConfigs DEF Shown, Missing
  <2>2. \A c \in Contracts : Shown(Holding(c)) \in Config
    BY ContractsAssumption DEF Shown, Holding
  <2>3. Shown(config) \in Config
    <3>1. config = Missing \/ \E c \in Contracts : config = Holding(c)
      BY DEF RuntimeInit
    <3>. QED  BY <2>1, <2>2, <3>1
  <2>4. past = <<Shown(config)>>
    BY DEF RuntimeInit
  <2>. QED  BY <2>3, <2>4 DEF History
<1>3. CallsLogged /\ CallsWerePermitted  BY DEF RuntimeInit, CallsLogged, CallsWerePermitted
<1>4. \A p \in Procs : proc[p].pc = "idle"  BY DEF RuntimeInit, Idle, Job
<1>. QED  BY <1>1, <1>2, <1>3, <1>4 DEF Inv, Began, Allowed, Storing

(* A step that leaves the configuration and the calls alone, and gives one      *)
(* command a state that keeps the invariant                                     *)
LEMMA OneCommand ==
  ASSUME Inv, NEW p \in Procs, NEW pc, NEW op, NEW req, NEW got,
         proc' = [proc EXCEPT ![p] = Job(pc, op, req, got)],
         UNCHANGED <<config, past, calls>>,
         Began(Job(pc, op, req, got)), Allowed(Job(pc, op, req, got)), Storing(Job(pc, op, req, got))
  PROVE  Inv'
<1>1. Shape'  BY DEF Inv, Shape, Job
<1>2. History' /\ CallsLogged' /\ CallsWerePermitted'
  BY DEF Inv, History, CallsLogged, CallsWerePermitted, Shown
<1>3. ASSUME NEW q \in Procs
      PROVE  (Began(proc[q]) /\ Allowed(proc[q]) /\ Storing(proc[q]))'
  <2>1. CASE q = p
    <3>1. proc'[q] = Job(pc, op, req, got)  BY <2>1 DEF Inv, Shape
    <3>. QED  BY <3>1 DEF Began, Allowed, Storing, Sends
  <2>2. CASE q # p
    <3>1. proc'[q] = proc[q]  BY <2>2 DEF Inv, Shape
    <3>. QED  BY <3>1 DEF Inv, Began, Allowed, Storing, Sends
  <2>. QED  BY <2>1, <2>2
<1>. QED  BY <1>1, <1>2, <1>3 DEF Inv

Quiet == {"config", "send", "truncate", "store"}

(* ... for instance a state in which it neither calls nor stores *)
LEMMA QuietCommand ==
  ASSUME Inv, NEW p \in Procs, NEW pc, pc \notin Quiet, NEW op, NEW req, NEW got,
         proc' = [proc EXCEPT ![p] = Job(pc, op, req, got)],
         UNCHANGED <<config, past, calls>>
  PROVE  Inv'
<1>1. Job(pc, op, req, got).pc = pc  BY DEF Job
<1>2. Began(Job(pc, op, req, got)) /\ Allowed(Job(pc, op, req, got)) /\ Storing(Job(pc, op, req, got))
  BY <1>1 DEF Quiet, Began, Allowed, Storing
<1>. QED  BY <1>2, OneCommand

(* A command that ends is one that has not begun *)
LEMMA EndIsJob ==
  ASSUME NEW p \in Procs, End(p)
  PROVE  proc' = [proc EXCEPT ![p] = Job("idle", "none", <<>>, <<>>)]
BY DEF End, Idle, Job

(* A command that ends calls nobody *)
LEMMA EndIsQuiet ==
  ASSUME Inv, NEW p \in Procs, End(p), UNCHANGED <<config, past, calls>>
  PROVE  Inv'
<1>1. proc' = [proc EXCEPT ![p] = Job("idle", "none", <<>>, <<>>)]  BY EndIsJob
<1>2. "idle" \notin Quiet  BY DEF Quiet
<1>. QED  BY <1>1, <1>2, QuietCommand

(* A call begins with the configurations there are *)
LEMMA StartCommand ==
  ASSUME Inv, NEW p \in Procs, NEW op, NEW r \in Requests, NEW wish \in SUBSET Things, NEW plan,
         Start(p, op, "config", Wanting(r, wish, plan))
  PROVE  Inv'
<1>1. Began(Job("config", op, Wanting(r, wish, plan), <<>>))
  BY ContractsAssumption DEF Inv, History, Began, Job, Wanting
<1>2. Allowed(Job("config", op, Wanting(r, wish, plan), <<>>)) /\ Storing(Job("config", op, Wanting(r, wish, plan), <<>>))
  BY DEF Allowed, Storing, Job
<1>. QED  BY <1>1, <1>2, OneCommand DEF Start

(* Neither does a command that has a text and keeps it *)
LEMMA KeepIsQuiet ==
  ASSUME Inv, NEW p \in Procs, NEW text, NEW told, Keep(p, text, told), UNCHANGED <<config, past, calls>>
  PROVE  Inv'
<1>1. CASE End(p)  BY <1>1, EndIsQuiet
<1>2. CASE Go(p, "keep", Result(text, told))  BY <1>2, QuietCommand DEF Go, Quiet
<1>. QED  BY <1>1, <1>2 DEF Keep

(* ... or that has kept a part of it *)
LEMMA KeptIsQuiet ==
  ASSUME Inv, NEW p \in Procs, NEW what, Kept(p, what), UNCHANGED <<config, past, calls>>
  PROVE  Inv'
<1>1. CASE End(p)  BY <1>1, EndIsQuiet
<1>2. CASE ~End(p)  BY <1>2, QuietCommand DEF Kept, Quiet
<1>. QED  BY <1>1, <1>2

(* The configuration changes: what is remembered of it grows, and what was      *)
(* permitted stays so                                                           *)
LEMMA ConfigChanges ==
  ASSUME Inv, NEW p \in Procs, NEW pc \in {"store", "idle"}, NEW op, NEW req, NEW got, NEW file,
         ConfigBecomes(file), Shown(file) \in Config, UNCHANGED calls,
         proc' = [proc EXCEPT ![p] = Job(pc, op, req, got)], Storing(Job(pc, op, req, got))
  PROVE  Inv'
<1>1. /\ past' \in Seq(Config) /\ Len(past') = Len(past) + 1
      /\ \A k \in 1 .. Len(past) : past'[k] = past[k]
      /\ past'[Len(past')] = Shown(file) /\ config' = file
  BY DEF Inv, History, ConfigBecomes
<1>2. Shape'  BY DEF Inv, Shape, Job
<1>3. History'  BY <1>1 DEF Inv, History, Shown
<1>7. Len(past) \in Nat /\ Len(past') \in Nat  BY <1>1 DEF Inv, History
<1>4. CallsLogged'
  <2>1. ASSUME NEW i \in DOMAIN calls
        PROVE  calls[i].from >= 1 /\ calls[i].at <= Len(past')
    <3>1. calls[i].at \in Nat /\ calls[i].at <= Len(past) /\ calls[i].from >= 1
      <4>1. calls[i] \in CallRecord
        BY CallTypes DEF Inv
      <4>. QED  BY <4>1 DEF Inv, CallsLogged, CallRecord
    <3>. QED  BY <1>7, <1>1, <3>1
  <2>. QED  BY <2>1 DEF Inv, CallsLogged
<1>5. CallsWerePermitted'
  <2>. SUFFICES ASSUME NEW i \in DOMAIN calls
       PROVE  \E k \in calls[i].from .. calls[i].at : Permits(past'[k], calls[i].refs)
    BY DEF CallsWerePermitted
  <2>1. PICK k \in calls[i].from .. calls[i].at : Permits(past[k], calls[i].refs)
    BY DEF Inv, CallsWerePermitted
  <2>2. k \in 1 .. Len(past)
    <3>1. calls[i] \in CallRecord
      BY CallTypes DEF Inv
    <3>2. calls[i].from \in Nat /\ calls[i].at \in Nat /\ calls[i].from >= 1 /\ calls[i].at <= Len(past)
      BY <3>1 DEF Inv, CallsLogged, CallRecord
    <3>. QED  BY <1>7, <2>1, <3>2
  <2>. QED  BY <1>1, <2>1, <2>2
<1>6. ASSUME NEW q \in Procs
      PROVE  (Began(proc[q]) /\ Allowed(proc[q]) /\ Storing(proc[q]))'
  <2>1. CASE q = p
    <3>1. proc'[q] = Job(pc, op, req, got)  BY <2>1 DEF Inv, Shape
    <3>. QED  BY <3>1 DEF Began, Allowed, Storing, Job
  <2>2. CASE q # p
    <3>1. proc'[q] = proc[q]  BY <2>2 DEF Inv, Shape
    <3>2. Began(proc[q])'  BY <1>1, <3>1 DEF Inv, Began, History
    <3>3. Allowed(proc[q])'
      <4>1. CASE proc[q].pc = "send"
        <5>1. PICK k \in proc[q].req.from .. Len(past) : Permits(past[k], Sends(proc[q]))
          BY <4>1 DEF Inv, Allowed
        <5>2. k \in 1 .. Len(past) /\ proc[q].req.from \in Nat
          BY <4>1 DEF Inv, Began, History
        <5>3. k \in proc[q].req.from .. Len(past') /\ past'[k] = past[k]
          BY <1>1, <5>2 DEF Inv, History
        <5>. QED  BY <3>1, <5>1, <5>3 DEF Allowed, Sends
      <4>. QED  BY <3>1, <4>1 DEF Allowed
    <3>. QED  BY <3>1, <3>2, <3>3 DEF Inv, Storing
  <2>. QED  BY <2>1, <2>2
<1>. QED  BY <1>2, <1>3, <1>4, <1>5, <1>6 DEF Inv

----------------------------------------------------------------------------
(* The steps of a call                                                        *)

(* What is sent was permitted when its command last looked, or before *)
LEMMA SendKeeps ==
  ASSUME Inv, NEW p \in Procs, Send(p)
  PROVE  Inv'
<1> DEFINE req == proc[p].req
           call == [refs |-> req.r.refs /\ proc[p].op # "summarize", answered |-> FALSE,
                    from |-> req.from, at |-> Len(past), wish |-> req.wish]
<1>1. /\ proc[p].pc = "send" /\ calls' = Append(calls, call)
      /\ UNCHANGED <<config, past>>
      /\ proc' = [proc EXCEPT ![p] = Job("answer", proc[p].op, req, Len(calls) + 1)]
  BY DEF Send, Go
<1>2. /\ req.from \in 1 .. Len(past) /\ req.r \in Request /\ req.wish \in SUBSET Things
      /\ Len(past) \in Nat
  BY <1>1 DEF Inv, Began, History
<1>3. call \in CallRecord
  BY <1>2 DEF Request, CallRecord
<1>4. \E k \in call.from .. call.at : Permits(past[k], call.refs)
  BY <1>1 DEF Inv, Allowed, Sends
<1> HIDE DEF call
<1>5. /\ calls' \in Seq(CallRecord)
      /\ \A i \in DOMAIN calls' : IF i \in DOMAIN calls THEN calls'[i] = calls[i] ELSE calls'[i] = call
  BY <1>1, <1>3 DEF Inv, CallsLogged
<1>6. CallsLogged'
  BY <1>1, <1>2, <1>5 DEF Inv, CallsLogged, call
<1>7. CallsWerePermitted'
  BY <1>1, <1>4, <1>5 DEF Inv, CallsWerePermitted
<1>8. ASSUME NEW q \in Procs
      PROVE  (Began(proc[q]) /\ Allowed(proc[q]) /\ Storing(proc[q]))'
  <2>1. CASE q = p
    <3>1. proc'[q].pc = "answer"  BY <1>1, <2>1 DEF Inv, Shape, Job
    <3>. QED  BY <3>1 DEF Began, Allowed, Storing
  <2>2. CASE q # p
    <3>1. proc'[q] = proc[q]  BY <1>1, <2>2 DEF Inv, Shape
    <3>. QED  BY <1>1, <3>1 DEF Inv, Began, Allowed, Storing, Sends
  <2>. QED  BY <2>1, <2>2
<1>9. Shape' /\ History'  BY <1>1 DEF Inv, Shape, Job, History, Shown
<1>. QED  BY <1>6, <1>7, <1>8, <1>9 DEF Inv

(* An answer marks its call, and changes nothing else of it *)
LEMMA AnswerMarks ==
  ASSUME CallsLogged, NEW g, calls' = [calls EXCEPT ![g].answered = TRUE]
  PROVE  /\ calls' \in Seq(CallRecord) /\ DOMAIN calls' = DOMAIN calls
         /\ \A i \in DOMAIN calls : /\ calls'[i].from = calls[i].from /\ calls'[i].at = calls[i].at
                                    /\ calls'[i].refs = calls[i].refs
<1>1. \A i \in DOMAIN calls : calls[i] \in CallRecord  BY CallTypes
<1>2. calls' = [i \in DOMAIN calls |-> IF i = g THEN [calls[g] EXCEPT !.answered = TRUE] ELSE calls[i]]
  BY DEF CallsLogged
<1>3. \A i \in DOMAIN calls : calls'[i] \in CallRecord
  BY ZenonT(60), <1>1, <1>2 DEF CallRecord
<1>4. DOMAIN calls = 1 .. Len(calls) /\ Len(calls) \in Nat  BY DEF CallsLogged
<1>5. calls' \in Seq(CallRecord)
  <2>1. calls' \in [1 .. Len(calls) -> CallRecord]  BY <1>2, <1>3, <1>4
  <2>. QED  BY <1>4, <2>1, SeqDef
<1>6. \A i \in DOMAIN calls : /\ calls'[i].from = calls[i].from /\ calls'[i].at = calls[i].at
                              /\ calls'[i].refs = calls[i].refs
  BY <1>1, <1>2 DEF CallRecord
<1>. QED  BY <1>2, <1>5, <1>6

(* An answer changes nothing of what was permitted *)
LEMMA ReceiveKeeps ==
  ASSUME Inv, NEW p \in Procs, Receive(p)
  PROVE  Inv'
<1>1. CASE UNCHANGED calls
  <2>1. End(p) \/ Keep(p, proc[p].got, TRUE)  BY DEF Receive
  <2>2. UNCHANGED <<config, past, calls>>  BY <1>1 DEF Receive
  <2>3. CASE End(p)  BY <2>2, <2>3, EndIsQuiet
  <2>. QED  BY <2>1, <2>2, <2>3, KeepIsQuiet
<1>2. CASE ~UNCHANGED calls
  <2>1. /\ calls' = [calls EXCEPT ![proc[p].got].answered = TRUE]
        /\ Keep(p, proc[p].got, TRUE) /\ UNCHANGED <<config, past>>
    BY <1>2 DEF Receive
  <2>2. /\ calls' \in Seq(CallRecord) /\ DOMAIN calls' = DOMAIN calls
        /\ \A i \in DOMAIN calls : /\ calls'[i].from = calls[i].from /\ calls'[i].at = calls[i].at
                                   /\ calls'[i].refs = calls[i].refs
    BY <2>1, AnswerMarks DEF Inv
  <2>3. PICK pc, op, req, got : pc \notin Quiet /\ proc' = [proc EXCEPT ![p] = Job(pc, op, req, got)]
    <3>1. CASE End(p)  BY <3>1, EndIsJob DEF Quiet
    <3>2. CASE Go(p, "keep", Result(proc[p].got, TRUE))
      <4>1. proc' = [proc EXCEPT ![p] = Job("keep", proc[p].op, proc[p].req, Result(proc[p].got, TRUE))]
        BY <3>2 DEF Go
      <4>. QED  BY <4>1 DEF Quiet
    <3>. QED  BY <2>1, <3>1, <3>2 DEF Keep
  <2>4. CallsLogged' /\ CallsWerePermitted'
    BY <2>1, <2>2 DEF Inv, CallsLogged, CallsWerePermitted
  <2>5. Shape' /\ History'  BY <2>1, <2>3 DEF Inv, Shape, Job, History, Shown
  <2>6. ASSUME NEW q \in Procs
        PROVE  (Began(proc[q]) /\ Allowed(proc[q]) /\ Storing(proc[q]))'
    <3>1. CASE q = p
      <4>1. proc'[q].pc = pc  BY <2>3, <3>1 DEF Inv, Shape, Job
      <4>. QED  BY <2>3, <4>1 DEF Began, Allowed, Storing, Quiet
    <3>2. CASE q # p
      <4>1. proc'[q] = proc[q]  BY <2>3, <3>2 DEF Inv, Shape
      <4>. QED  BY <2>1, <4>1 DEF Inv, Began, Allowed, Storing, Sends
    <3>. QED  BY <3>1, <3>2
  <2>. QED  BY <2>4, <2>5, <2>6 DEF Inv
<1>. QED  BY <1>1, <1>2

(* Only a contract that permits the call lets a command go on to send *)
LEMMA ReadConfigKeeps ==
  ASSUME Inv, NEW p \in Procs, ReadConfig(p)
  PROVE  Inv'
<1>1. proc[p].pc = "config" /\ UNCHANGED <<config, past, calls>>  BY DEF ReadConfig
<1>2. CASE Keep(p, 0, FALSE)  BY <1>1, <1>2, KeepIsQuiet
<1>3. CASE Outcome(p) = "call" /\ Go(p, "send", <<>>)
  <2> DEFINE job == Job("send", proc[p].op, proc[p].req, <<>>)
  <2>1. proc' = [proc EXCEPT ![p] = job]  BY <1>3 DEF Go
  <2>2. job.pc = "send" /\ job.req = proc[p].req /\ job.op = proc[p].op  BY DEF Job
  <2>3. Began(proc[p]) /\ proc[p].req.r \in Request  BY <1>1 DEF Inv, Began
  <2>4. Began(job)  BY <1>1, <2>2, <2>3 DEF Began
  <2>5. Permits(Shown(config), Sends(job))
    <3>1. CASE proc[p].op = "summarize"
      <4>1. Permits(Shown(config), FALSE)
        BY <1>3, <2>3, <3>1, OutcomePermitted DEF Outcome
      <4>2. Sends(job) = FALSE  BY <2>2, <3>1 DEF Sends
      <4>. QED  BY <4>1, <4>2
    <3>2. CASE proc[p].op # "summarize"
      <4>1. Permits(Shown(config), proc[p].req.r.refs)
        BY <1>3, <2>3, <3>2, OutcomePermitted DEF Outcome
      <4>2. Sends(job) => proc[p].req.r.refs  BY <2>2 DEF Sends
      <4>. QED  BY <4>1, <4>2 DEF Permits
    <3>. QED  BY <3>1, <3>2
  <2>6. Len(past) \in proc[p].req.from .. Len(past) /\ past[Len(past)] = Shown(config)
    BY <1>1, <2>3 DEF Inv, History, Began
  <2>7. Allowed(job)  BY <2>2, <2>5, <2>6 DEF Allowed
  <2>8. Storing(job)  BY <2>2 DEF Storing
  <2>. QED  BY <1>1, <2>1, <2>4, <2>7, <2>8, OneCommand
<1>4. CASE End(p)
  BY <1>1, <1>4, EndIsQuiet
<1>. QED  BY <1>2, <1>3, <1>4 DEF ReadConfig

----------------------------------------------------------------------------
(* Every step keeps the invariant                                             *)

(* Action by action *)
LEMMA StepKeeps ==
  ASSUME Inv, NEW p \in Procs, RuntimeStep(p)
  PROVE  Inv'
<1>1. CASE BeginConfigure(p)
  <2>1. PICK c \in Contracts : Start(p, "configure", "truncate", c)  BY <1>1 DEF BeginConfigure
  <2>2. Storing(Job("truncate", "configure", c, <<>>))  BY ContractsAssumption DEF Storing, Job
  <2>3. Began(Job("truncate", "configure", c, <<>>)) /\ Allowed(Job("truncate", "configure", c, <<>>))
    BY DEF Began, Allowed, Job
  <2>. QED  BY <2>1, <2>2, <2>3, OneCommand DEF Start
<1>2. CASE TruncateConfig(p)
  <2>1. Shown(Empty) \in Config  BY ConfigsAreConfigs DEF Shown, Empty
  <2>2. proc[p].req \in Config  BY <1>2 DEF TruncateConfig, Inv, Storing
  <2>3. Storing(Job("store", proc[p].op, proc[p].req, <<>>))  BY <2>2 DEF Storing, Job
  <2>. QED  BY <1>2, <2>1, <2>3, ConfigChanges DEF TruncateConfig, Go
<1>3. CASE StoreConfig(p)
  <2>1. proc[p].req \in Config  BY <1>3 DEF StoreConfig, Inv, Storing
  <2>2. Shown(Holding(proc[p].req)) \in Config /\ Shown(Garbled) \in Config
    <3>1. Holding(proc[p].req).state = "whole" /\ Holding(proc[p].req).holds = proc[p].req
      BY DEF Holding
    <3>2. Garbled.state = "garbled"  BY DEF Garbled
    <3>. QED  BY <2>1, <3>1, <3>2, ConfigsAreConfigs DEF Shown
  <2>3. Shown(config) \in Config  BY DEF Inv, History
  <2>4. PICK file : ConfigBecomes(file) /\ Shown(file) \in Config
    BY <1>3, <2>2, <2>3 DEF StoreConfig, Overlaid
  <2>5. Storing(Job("idle", "none", <<>>, <<>>))  BY DEF Storing, Job
  <2>. QED  BY <1>3, <2>4, <2>5, EndIsJob, ConfigChanges DEF StoreConfig
<1>4. CASE BeginPlan(p) \/ BeginPlanFromJob(p)
  <2>1. PICK refs : Start(p, "plan", "plan", refs)  BY <1>4 DEF BeginPlan, BeginPlanFromJob
  <2>. QED  BY <2>1, QuietCommand DEF Start, Quiet
<1>5. CASE RecordPlan(p)  BY <1>5, EndIsQuiet DEF RecordPlan
<1>6. CASE RetrievePlan(p) \/ ReceiveInput(p) \/ PromoteInput(p)
  <2>1. UNCHANGED <<config, past, calls, proc>>  BY <1>6 DEF RetrievePlan, ReceiveInput, PromoteInput
  <2>. QED
    BY <2>1 DEF Inv, Shape, Job, History, Shown, CallsLogged, CallsWerePermitted, Began, Allowed, Sends, Storing
<1>7. CASE BeginSummarize(p) \/ BeginInvoke(p) \/ BeginExecute(p) \/ BeginRun(p)
  <2>0. \A wish \in Wishes : wish \in SUBSET Things /\ wish \cup {"draft"} \in SUBSET Things
    BY WishesAssumption DEF Things
  <2>1. CASE BeginSummarize(p)
    <3>1. PICK r \in Requests, wish \in Wishes : Start(p, "summarize", "config", Wanting(r, wish, 0))
      BY <2>1 DEF BeginSummarize
    <3>. QED  BY <2>0, <3>1, StartCommand
  <2>2. CASE BeginInvoke(p)
    <3>1. PICK r \in Requests, wish \in Wishes : Start(p, "invoke", "config", Wanting(r, wish, 0))
      BY <2>2 DEF BeginInvoke
    <3>. QED  BY <2>0, <3>1, StartCommand
  <2>3. CASE BeginExecute(p)
    <3>1. PICK i \in DOMAIN log, r \in Requests, wish \in Wishes :
            Start(p, "execute", "config", Wanting(r, wish, i))
      BY <2>3 DEF BeginExecute
    <3>. QED  BY <2>0, <3>1, StartCommand
  <2>4. CASE BeginRun(p)
    <3>1. PICK op \in {"summarize", "invoke"}, r \in Requests, wish \in Wishes :
            Start(p, op, "config", Wanting(r, wish \cup {"draft"}, 0))
      BY <2>4 DEF BeginRun
    <3>. QED  BY <2>0, <3>1, StartCommand
  <2>. QED  BY <1>7, <2>1, <2>2, <2>3, <2>4
<1>8. CASE ReadConfig(p)  BY <1>8, ReadConfigKeeps
<1>9. CASE Send(p)  BY <1>9, SendKeeps
<1>10. CASE Receive(p)  BY <1>10, ReceiveKeeps
<1>11. CASE BeginDraft(p)
  <2>1. PICK refs : proc' = [proc EXCEPT ![p] = Job("keep", "draft", ManualDraft(refs), Result(0, FALSE))]
    BY <1>11 DEF BeginDraft
  <2>2. UNCHANGED <<config, past, calls>>  BY <1>11 DEF BeginDraft
  <2>. QED  BY <2>1, <2>2, QuietCommand DEF Quiet
<1>12. CASE DraftArtifact(p) \/ JobEvent(p) \/ TruncateJob(p)
  <2>1. UNCHANGED <<config, past, calls>>  BY <1>12 DEF DraftArtifact, JobEvent, TruncateJob
  <2>2. CASE DraftArtifact(p)
    <3>1. PICK j \in JobIds : Go(p, "event", [proc[p].got EXCEPT !.job = j, !.artifact = Len(log) + 1])
      BY <2>2 DEF DraftArtifact
    <3>. QED  BY <2>1, <3>1, QuietCommand DEF Go, Quiet
  <2>3. CASE JobEvent(p)
    <3>1. Go(p, "truncate_job", [proc[p].got EXCEPT !.event = Len(log) + 1])  BY <2>3 DEF JobEvent
    <3>. QED  BY <2>1, <3>1, QuietCommand DEF Go, Quiet
  <2>4. CASE TruncateJob(p)
    <3>1. Go(p, "file", proc[p].got)  BY <2>4 DEF TruncateJob
    <3>. QED  BY <2>1, <3>1, QuietCommand DEF Go, Quiet
  <2>. QED  BY <1>12, <2>2, <2>3, <2>4
<1>13. CASE WriteJob(p) \/ KeepArtifact(p) \/ KeepRecord(p)
  <2>1. PICK what : Kept(p, what)
    <3>1. Kept(p, "draft") \/ Kept(p, "artifact") \/ Kept(p, "record")
      BY <1>13 DEF WriteJob, KeepArtifact, KeepRecord
    <3>. QED  BY <3>1
  <2>2. UNCHANGED <<config, past, calls>>  BY <1>13 DEF WriteJob, KeepArtifact, KeepRecord
  <2>. QED  BY <2>1, <2>2, KeptIsQuiet
<1>14. CASE Crash(p)  BY <1>14, EndIsQuiet DEF Crash
<1>. QED
  BY <1>1, <1>2, <1>3, <1>4, <1>5, <1>6, <1>7, <1>8, <1>9, <1>10, <1>11, <1>12, <1>13, <1>14 DEF RuntimeStep

(* The commands of the databases and the index files neither call nor store a   *)
(* contract                                                                     *)
IndexPcs == {"embed", "drop_vectors", "fill_vectors", "drop_nodes", "fill_nodes", "hits",
             "expand", "truncate_index", "store_index"}

IndexStep(p) ==
  \/ BeginRebuild(p) \/ BeginAsk(p) \/ Embed(p) \/ Refused(p) \/ DropVectors(p) \/ FillVectors(p)
  \/ DropNodes(p) \/ FillNodes(p) \/ FindHits(p) \/ ExpandAndAnswer(p)
  \/ LoadIndex(p) \/ TruncateIndex(p) \/ StoreIndex(p)

(* A command that has loaded an index file is about to empty it *)
LEMMA LoadIndexMoves ==
  ASSUME NEW p \in Procs, LoadIndex(p)
  PROVE  \E op, req, got : proc' = [proc EXCEPT ![p] = Job("truncate_index", op, req, got)]
<1>1. PICK kind \in IndexKinds, i \in Lines, type \in {"event", "note"}, value \in Labels :
        LET held == IF indexes[kind].state = "whole" THEN indexes[kind].holds ELSE {} IN
        /\ proc[p] = Idle /\ "index" \in mix.ops /\ Len(stores[kind]) < MaxStores
        /\ kind = "graph" => type = "event"
        /\ indexes[kind].state \in {"missing", "whole"}
        /\ proc' = [proc EXCEPT ![p] =
             Job("truncate_index", kind, Len(stores[kind]),
                 [key |-> [record |-> i, type |-> type],
                  entries |-> Merged(kind, held, [record |-> i, type |-> type], value)])]
        /\ Unchanged /\ UNCHANGED <<databases, files, crashes>>
    BY DEF LoadIndex
<1>. QED  BY <1>1

(* What an index command leaves alone, and where it goes *)
LEMMA IndexStepMoves ==
  ASSUME NEW p \in Procs, IndexStep(p)
  PROVE  /\ UNCHANGED <<mix, config, past, log, jobs, calls, crashes>>
         /\ proc[p].pc \in IndexPcs \cup {"idle"}
         /\ \E pc \in IndexPcs \cup {"idle"} : \E op, req, got :
              proc' = [proc EXCEPT ![p] = Job(pc, op, req, got)]
<1> DEFINE To(pc, op, req, got) == proc' = [proc EXCEPT ![p] = Job(pc, op, req, got)]
           Moves == \E pc \in IndexPcs \cup {"idle"} : \E op, req, got : To(pc, op, req, got)
<1>0. Idle.pc = "idle"  BY DEF Idle, Job
<1>1. End(p) => Moves  BY EndIsJob
<1>2. \A pc \in IndexPcs : \A got : Go(p, pc, got) => Moves
  BY ZenonT(60) DEF Go
<1>3. UNCHANGED <<mix, config, past, log, jobs, calls, crashes>>
  BY DEF IndexStep, BeginRebuild, BeginAsk, Embed, Refused, DropVectors, FillVectors, DropNodes, FillNodes,
         FindHits, ExpandAndAnswer, LoadIndex, TruncateIndex, StoreIndex, Unchanged
<1>4. proc[p].pc \in IndexPcs \cup {"idle"}
  BY <1>0 DEF IndexStep, BeginRebuild, BeginAsk, Embed, Refused, DropVectors, FillVectors, DropNodes, FillNodes,
         FindHits, ExpandAndAnswer, LoadIndex, TruncateIndex, StoreIndex, IndexPcs
<1>5. ASSUME NEW op, ReadForRebuild(p, op) PROVE Moves
  BY <1>5 DEF ReadForRebuild, IndexPcs
<1>6. CASE BeginRebuild(p)  BY <1>3, <1>4, <1>5, <1>6 DEF BeginRebuild
<1>7. CASE BeginAsk(p)
  <2>1. CASE Status = "ready"  BY <1>3, <1>4, <1>7, <2>1 DEF BeginAsk, IndexPcs
  <2>2. CASE Status # "ready"  BY <1>3, <1>4, <1>5, <1>7, <2>2 DEF BeginAsk
  <2>. QED  BY <2>1, <2>2
<1>8. CASE Embed(p)
  <2>1. Go(p, "drop_vectors", proc[p].got) \/ End(p)  BY <1>8 DEF Embed
  <2>. QED  BY <1>1, <1>2, <1>3, <1>4, <2>1 DEF IndexPcs
<1>9. CASE DropVectors(p)  BY <1>2, <1>3, <1>4, <1>9 DEF DropVectors, IndexPcs
<1>10. CASE FillVectors(p)
  <2>1. Go(p, "drop_nodes", proc[p].got) \/ End(p)  BY <1>10 DEF FillVectors
  <2>. QED  BY <1>1, <1>2, <1>3, <1>4, <2>1 DEF IndexPcs
<1>11. CASE DropNodes(p)  BY <1>2, <1>3, <1>4, <1>11 DEF DropNodes, IndexPcs
<1>12. CASE FillNodes(p)
  <2>1. Go(p, "hits", {}) \/ End(p)  BY <1>12 DEF FillNodes
  <2>. QED  BY <1>1, <1>2, <1>3, <1>4, <2>1 DEF IndexPcs
<1>13. CASE FindHits(p)
  <2>1. Go(p, "expand", vectors) \/ End(p)  BY <1>13 DEF FindHits
  <2>. QED  BY <1>1, <1>2, <1>3, <1>4, <2>1 DEF IndexPcs
<1>14. CASE ExpandAndAnswer(p)  BY <1>1, <1>3, <1>4, <1>14 DEF ExpandAndAnswer
<1>15. CASE LoadIndex(p)
  <2>1. \E op, req, got : To("truncate_index", op, req, got)  BY <1>15, LoadIndexMoves
  <2>. QED  BY <1>3, <1>4, <2>1 DEF IndexPcs
<1>16. CASE TruncateIndex(p)  BY <1>2, <1>3, <1>4, <1>16 DEF TruncateIndex, IndexPcs
<1>17. CASE StoreIndex(p)  BY <1>1, <1>3, <1>4, <1>17 DEF StoreIndex
<1>18. CASE Refused(p)  BY <1>1, <1>3, <1>4, <1>18 DEF Refused
<1>. QED
  BY <1>6, <1>7, <1>8, <1>9, <1>10, <1>11, <1>12, <1>13, <1>14, <1>15, <1>16, <1>17, <1>18 DEF IndexStep

(* What every step of the specification is: a step of the runtime, which leaves *)
(* the databases and the index files alone, or one of the index commands        *)
LEMMA NextIsEither ==
  ASSUME Next
  PROVE  \E p \in Procs : RuntimeCommand(p) \/ IndexStep(p)
BY DEF Next, IndexStep

(* The invariant of the calls, whatever else runs *)
LEMMA InvKept ==
  ASSUME Inv, [Next]_vars
  PROVE  Inv'
<1>1. CASE Next
  <2>1. PICK p \in Procs : RuntimeCommand(p) \/ IndexStep(p)  BY <1>1, NextIsEither
  <2>2. CASE RuntimeCommand(p)  BY <2>2, StepKeeps DEF RuntimeCommand
  <2>3. CASE IndexStep(p)
    <3>1. PICK pc \in IndexPcs \cup {"idle"} : \E op, req, got :
            proc' = [proc EXCEPT ![p] = Job(pc, op, req, got)]
      BY <2>3, IndexStepMoves
    <3>2. pc \notin Quiet  BY DEF Quiet, IndexPcs
    <3>3. UNCHANGED <<config, past, calls>>  BY <2>3, IndexStepMoves
    <3>. QED  BY <3>1, <3>2, <3>3, QuietCommand
  <2>. QED  BY <2>1, <2>2, <2>3
<1>2. CASE UNCHANGED vars
  BY <1>2 DEF vars, runtimeVars, Inv, Shape, Job, History, Shown, CallsLogged, CallsWerePermitted,
              Began, Allowed, Sends, Storing
<1>. QED  BY <1>1, <1>2

(* However the contract changes and whatever runs at once, what was sent was    *)
(* permitted at some moment of the command that sent it (runtime_service.py:388). *)
THEOREM RuntimeCallsWerePermitted == Spec => []CallsWerePermitted
<1>1. Init => Inv  BY InitInv DEF Init
<1>2. Inv /\ [Next]_vars => Inv'  BY InvKept
<1>3. Inv => CallsWerePermitted  BY DEF Inv
<1>. QED  BY <1>1, <1>2, <1>3, PTL DEF Spec

----------------------------------------------------------------------------
(* What a step of the runtime leaves of the log and of the index commands     *)

IsSeq(s) == \E S : s \in Seq(S)

(* What appending does to a sequence, whatever its elements are *)
LEMMA Appending ==
  ASSUME NEW s, IsSeq(s), NEW e
  PROVE  /\ IsSeq(Append(s, e)) /\ Len(s) \in Nat /\ DOMAIN s = 1 .. Len(s)
         /\ Len(Append(s, e)) = Len(s) + 1 /\ DOMAIN Append(s, e) = 1 .. (Len(s) + 1)
         /\ \A i \in 1 .. Len(s) : Append(s, e)[i] = s[i]
         /\ Append(s, e)[Len(s) + 1] = e
<1>1. PICK S : s \in Seq(S)  BY DEF IsSeq
<1> DEFINE T == S \cup {e}
<1>2. s \in Seq(T) /\ e \in T
  <2>1. s \in [1 .. Len(s) -> S] /\ Len(s) \in Nat  BY <1>1
  <2>2. s \in [1 .. Len(s) -> T]  BY <2>1
  <2>. QED  BY <2>1, <2>2, SeqDef
<1> HIDE DEF T
<1>3. Append(s, e) \in Seq(T)  BY <1>2
<1>4. IsSeq(Append(s, e))  BY <1>3 DEF IsSeq
<1>. QED  BY <1>2, <1>4

LogGrows == log' = log \/ \E e : log' = Append(log, e)

(* A step of the runtime takes no line from the log, and moves an index command only by its death *)
LEMMA RuntimeStepMoves ==
  ASSUME NEW p \in Procs, RuntimeStep(p)
  PROVE  /\ LogGrows
         /\ proc[p].pc \in IndexPcs => Crash(p)
         /\ crashes' = IF Crash(p) THEN crashes + 1 ELSE crashes
         /\ \/ UNCHANGED proc
            \/ \E pc : pc \notin IndexPcs /\ \E op, req, got :
                 proc' = [proc EXCEPT ![p] = Job(pc, op, req, got)]
<1> DEFINE Moves == \E pc : pc \notin IndexPcs /\ \E op, req, got :
                      proc' = [proc EXCEPT ![p] = Job(pc, op, req, got)]
           Rest == LogGrows /\ (proc[p].pc \in IndexPcs => Crash(p))
<1>0. Idle.pc = "idle" /\ "idle" \notin IndexPcs  BY DEF Idle, Job, IndexPcs
<1>1. End(p) => Moves  BY <1>0, EndIsJob
<1>2. \A pc, got : pc \notin IndexPcs /\ Go(p, pc, got) => Moves
  BY ZenonT(60) DEF Go
<1>3. \A op, pc, req : pc \notin IndexPcs /\ Start(p, op, pc, req) => Moves /\ Rest
  <2>. SUFFICES ASSUME NEW op, NEW pc, NEW req, pc \notin IndexPcs, Start(p, op, pc, req)
       PROVE  Moves /\ Rest
    OBVIOUS
  <2>1. proc' = [proc EXCEPT ![p] = Job(pc, op, req, <<>>)] /\ log' = log /\ proc[p] = Idle  BY DEF Start
  <2>2. Moves  BY <2>1
  <2>. QED  BY <1>0, <2>1, <2>2 DEF LogGrows
<1>4. \A text, told : Keep(p, text, told) => Moves
  <2>. SUFFICES ASSUME NEW text, NEW told, Keep(p, text, told) PROVE Moves
    OBVIOUS
  <2>1. CASE End(p)  BY <1>1, <2>1
  <2>2. CASE Go(p, "keep", Result(text, told))  BY <1>2, <2>2 DEF IndexPcs
  <2>. QED  BY <2>1, <2>2 DEF Keep
<1>5. \A what : Kept(p, what) => Moves
  <2>. SUFFICES ASSUME NEW what, Kept(p, what) PROVE Moves
    OBVIOUS
  <2>1. CASE End(p)  BY <1>1, <2>1
  <2>2. CASE ~End(p)  BY <2>2 DEF Kept, IndexPcs
  <2>. QED  BY <2>1, <2>2
<1>6. \A kind, data : AddEvent(kind, data) => LogGrows  BY DEF AddEvent, LogGrows
<1>7. RuntimeStep(p) => crashes' = IF Crash(p) THEN crashes + 1 ELSE crashes
  BY DEF RuntimeStep, BeginConfigure, TruncateConfig, StoreConfig, BeginPlan, BeginPlanFromJob, RecordPlan,
         RetrievePlan, ReceiveInput, PromoteInput, BeginSummarize, BeginInvoke, BeginExecute, BeginRun,
         ReadConfig, Send, Receive, BeginDraft, DraftArtifact, JobEvent, TruncateJob, WriteJob,
         KeepArtifact, KeepRecord, Crash, Start
<1>8. Rest
  <2>1. CASE BeginConfigure(p) \/ BeginPlan(p) \/ BeginPlanFromJob(p)
             \/ BeginSummarize(p) \/ BeginInvoke(p) \/ BeginExecute(p) \/ BeginRun(p)
    <3>1. \A op, pc, req : Start(p, op, pc, req) => Rest  BY <1>0 DEF Start, LogGrows
    <3>2. CASE BeginExecute(p)  BY <3>1, <3>2 DEF BeginExecute
    <3>3. CASE BeginRun(p)  BY <3>1, <3>3 DEF BeginRun
    <3>. QED  BY <2>1, <3>1, <3>2, <3>3 DEF BeginConfigure, BeginPlan, BeginPlanFromJob, BeginSummarize, BeginInvoke
  <2>2. CASE TruncateConfig(p) \/ StoreConfig(p) \/ ReadConfig(p) \/ Send(p) \/ Receive(p) \/ BeginDraft(p)
             \/ TruncateJob(p) \/ WriteJob(p) \/ Crash(p)
    BY <1>0, <2>2 DEF TruncateConfig, StoreConfig, ReadConfig, Send, Receive, BeginDraft, TruncateJob,
         WriteJob, Crash, LogGrows, IndexPcs
  <2>6. CASE RecordPlan(p)
    <3>1. UNCHANGED log \/ \E data : AddEvent("plan", data)  BY <2>6 DEF RecordPlan
    <3>2. LogGrows
      <4>1. CASE UNCHANGED log  BY <4>1 DEF LogGrows
      <4>2. CASE \E data : AddEvent("plan", data)  BY <1>6, <4>2
      <4>. QED  BY <3>1, <4>1, <4>2
    <3>. QED  BY <2>6, <3>2 DEF RecordPlan, IndexPcs
  <2>3. CASE ReceiveInput(p) \/ JobEvent(p) \/ KeepArtifact(p) \/ KeepRecord(p)
    BY <1>0, <1>6, <2>3 DEF ReceiveInput, JobEvent, KeepArtifact, KeepRecord, Wished, IndexPcs
  <2>4. CASE RetrievePlan(p) \/ PromoteInput(p)
    BY <1>0, <1>6, <2>4 DEF RetrievePlan, PromoteInput
  <2>5. CASE DraftArtifact(p)
    <3>1. proc[p].pc = "keep" /\ AddEvent("artifact", proc[p].got.text)  BY <2>5 DEF DraftArtifact, Wished
    <3>. QED  BY <1>6, <3>1 DEF IndexPcs
  <2>. QED  BY <2>1, <2>2, <2>3, <2>4, <2>5, <2>6 DEF RuntimeStep
<1>9. UNCHANGED proc \/ Moves
  <2>1. CASE BeginConfigure(p) \/ BeginPlan(p) \/ BeginPlanFromJob(p) \/ BeginSummarize(p) \/ BeginInvoke(p)
    BY <1>3, <2>1 DEF BeginConfigure, BeginPlan, BeginPlanFromJob, BeginSummarize, BeginInvoke, IndexPcs
  <2>2. CASE BeginExecute(p)
    <3>1. \E req : Start(p, "execute", "config", req)  BY <2>2 DEF BeginExecute
    <3>. QED  BY <1>3, <3>1 DEF IndexPcs
  <2>3. CASE BeginRun(p)
    <3>1. \E op, req : Start(p, op, "config", req)  BY <2>3 DEF BeginRun
    <3>. QED  BY <1>3, <3>1 DEF IndexPcs
  <2>4. CASE TruncateConfig(p) \/ StoreConfig(p) \/ RecordPlan(p) \/ Crash(p)
    BY <1>1, <1>2, <2>4 DEF TruncateConfig, StoreConfig, RecordPlan, Crash, IndexPcs
  <2>5. CASE RetrievePlan(p) \/ ReceiveInput(p) \/ PromoteInput(p)
    BY <2>5 DEF RetrievePlan, ReceiveInput, PromoteInput
  <2>6. CASE ReadConfig(p)
    <3>1. Keep(p, 0, FALSE) \/ Go(p, "send", <<>>) \/ End(p)  BY <2>6 DEF ReadConfig
    <3>. QED  BY <1>1, <1>2, <1>4, <3>1 DEF IndexPcs
  <2>7. CASE Send(p)
    <3>1. Go(p, "answer", Len(calls) + 1)  BY <2>7 DEF Send
    <3>. QED  BY <1>2, <3>1 DEF IndexPcs
  <2>8. CASE Receive(p)
    <3>1. Keep(p, proc[p].got, TRUE) \/ End(p)  BY <2>8 DEF Receive
    <3>. QED  BY <1>1, <1>4, <3>1
  <2>9. CASE BeginDraft(p)
    <3>1. PICK refs : proc' = [proc EXCEPT ![p] = Job("keep", "draft", ManualDraft(refs), Result(0, FALSE))]
      BY <2>9 DEF BeginDraft
    <3>. QED  BY <3>1 DEF IndexPcs
  <2>10. CASE DraftArtifact(p)
    <3>1. PICK got : Go(p, "event", got)  BY <2>10 DEF DraftArtifact
    <3>. QED  BY <1>2, <3>1 DEF IndexPcs
  <2>11. CASE JobEvent(p)
    <3>1. PICK got : Go(p, "truncate_job", got)  BY <2>11 DEF JobEvent
    <3>. QED  BY <1>2, <3>1 DEF IndexPcs
  <2>12. CASE TruncateJob(p)
    <3>1. PICK got : Go(p, "file", got)  BY <2>12 DEF TruncateJob
    <3>. QED  BY <1>2, <3>1 DEF IndexPcs
  <2>13. CASE WriteJob(p) \/ KeepArtifact(p) \/ KeepRecord(p)
    <3>1. PICK what : Kept(p, what)  BY <2>13 DEF WriteJob, KeepArtifact, KeepRecord
    <3>. QED  BY <1>5, <3>1
  <2>. QED  BY <2>1, <2>2, <2>3, <2>4, <2>5, <2>6, <2>7, <2>8, <2>9, <2>10, <2>11, <2>12, <2>13 DEF RuntimeStep
<1>. QED  BY <1>7, <1>8, <1>9

----------------------------------------------------------------------------
(* The databases.  Each holds the lines of a prefix of the log, whatever       *)
(* rebuilds overlap: a transaction finds the database empty or fails, and the  *)
(* log only grows.  So equal counts are equal contents.  The graph follows the *)
(* vectors while every rebuild was alone and came to its end.                  *)

Segment(lines) == \E n \in Nat : n <= Len(log) /\ lines = 1 .. n

Rebuilds(job) == job.pc \in {"embed", "drop_vectors", "fill_vectors", "drop_nodes", "fill_nodes"}

(* Where a rebuild that nothing disturbed has brought the databases *)
Phase(job) ==
  /\ job.pc \in {"embed", "drop_vectors"} => vectors = nodes
  /\ job.pc = "fill_vectors" => vectors = {}
  /\ job.pc \in {"drop_nodes", "fill_nodes"} => vectors = job.got
  /\ job.pc = "fill_nodes" => nodes = {}

Orderly ==
  /\ \A p, q \in Procs : Rebuilds(proc[p]) /\ Rebuilds(proc[q]) => p = q
  /\ \A p \in Procs : Phase(proc[p])
  /\ (\A p \in Procs : ~Rebuilds(proc[p])) => vectors = nodes

DatabaseInv ==
  /\ Shape /\ IsSeq(log) /\ crashes \in Nat
  /\ Segment(vectors) /\ Segment(nodes)
  /\ \A p \in Procs : Rebuilds(proc[p]) => Segment(proc[p].got)
  /\ ~disturbed => Orderly

(* No line, and every line, are prefixes of the log *)
LEMMA SegmentsOfLog ==
  ASSUME IsSeq(log)
  PROVE  Segment({}) /\ Segment(Lines) /\ Lines = 1 .. Len(log) /\ Len(log) \in Nat
<1>1. Lines = 1 .. Len(log) /\ Len(log) \in Nat  BY DEF IsSeq, Lines
<1>2. {} = 1 .. 0  OBVIOUS
<1>. QED  BY <1>1, <1>2 DEF Segment

(* Two prefixes without a common line: one of them is empty *)
LEMMA DisjointSegments ==
  ASSUME IsSeq(log), NEW a, NEW b, Segment(a), Segment(b), a \cap b = {}
  PROVE  Segment(a \cup b)
<1>1. PICK m \in Nat : m <= Len(log) /\ a = 1 .. m  BY DEF Segment
<1>2. PICK n \in Nat : n <= Len(log) /\ b = 1 .. n  BY DEF Segment
<1>3. CASE m = 0
  <2>1. a = {}  BY <1>1, <1>3
  <2>2. a \cup b = b  BY <2>1
  <2>. QED  BY <2>2
<1>4. CASE n = 0
  <2>1. b = {}  BY <1>2, <1>4
  <2>2. a \cup b = a  BY <2>1
  <2>. QED  BY <2>2
<1>5. CASE m # 0 /\ n # 0
  <2>1. 1 \in a /\ 1 \in b  BY <1>1, <1>2, <1>5
  <2>. QED  BY <2>1
<1>. QED  BY <1>3, <1>4, <1>5

(* A prefix of the log stays one *)
LEMMA SegmentsStay ==
  ASSUME IsSeq(log), LogGrows, NEW a, Segment(a)
  PROVE  IsSeq(log)' /\ Segment(a)'
<1>1. CASE log' = log  BY <1>1 DEF Segment, IsSeq
<1>2. CASE log' # log
  <2>1. PICK e : log' = Append(log, e)  BY <1>2 DEF LogGrows
  <2>2. IsSeq(log') /\ Len(log) \in Nat /\ Len(log') = Len(log) + 1  BY <2>1, Appending
  <2>3. PICK n \in Nat : n <= Len(log) /\ a = 1 .. n  BY DEF Segment
  <2>4. n <= Len(log')  BY <2>2, <2>3
  <2>. QED  BY <2>2, <2>3, <2>4 DEF Segment, IsSeq
<1>. QED  BY <1>1, <1>2

(* An idle command rebuilds nothing *)
LEMMA IdleRebuildsNot == ~Rebuilds(Job("idle", "none", <<>>, <<>>))
BY DEF Rebuilds, Job

(* Empty databases, and nobody rebuilds *)
LEMMA DatabaseInit == Init => DatabaseInv
<1>. SUFFICES ASSUME Init PROVE DatabaseInv
  OBVIOUS
<1>1. Shape  BY DEF Init, RuntimeInit, Shape, Job, Idle
<1>2. \A p \in Procs : proc[p].pc = "idle"  BY DEF Init, RuntimeInit, Idle, Job
<1>3. log = <<>> /\ crashes = 0 /\ vectors = {} /\ nodes = {}  BY DEF Init, RuntimeInit
<1>4. log \in Seq({})  BY <1>3
<1>5. IsSeq(log)  BY <1>4 DEF IsSeq
<1>6. \A p \in Procs : ~Rebuilds(proc[p]) /\ Phase(proc[p])  BY <1>2 DEF Rebuilds, Phase
<1>. QED  BY <1>1, <1>3, <1>5, <1>6, SegmentsOfLog DEF DatabaseInv, Orderly

(* One command of the databases moves on.  What it has to show is about itself *)
(* alone: a rebuild was alone if nothing was disturbed.                        *)
LEMMA DatabaseMove ==
  ASSUME DatabaseInv, NEW p \in Procs, NEW pc, NEW op, NEW req, NEW got,
         proc' = [proc EXCEPT ![p] = Job(pc, op, req, got)],
         UNCHANGED <<log, crashes>>,
         Segment(vectors)', Segment(nodes)',
         Rebuilds(Job(pc, op, req, got)) => Segment(got),
         ~disturbed' =>
           /\ ~disturbed
           /\ Rebuilds(Job(pc, op, req, got)) => Rebuilds(proc[p]) \/ Rebuilding = {}
           /\ Rebuilds(proc[p]) \/ UNCHANGED <<vectors, nodes>>
           /\ Rebuilds(proc[p]) /\ ~Rebuilds(Job(pc, op, req, got)) => vectors' = nodes'
           /\ pc \in {"embed", "drop_vectors"} => vectors' = nodes'
           /\ pc = "fill_vectors" => vectors' = {}
           /\ pc \in {"drop_nodes", "fill_nodes"} => vectors' = got
           /\ pc = "fill_nodes" => nodes' = {}
  PROVE  DatabaseInv'
<1> DEFINE job == Job(pc, op, req, got)
<1>1. Shape'  BY DEF DatabaseInv, Shape, Job
<1>2. job.pc = pc /\ job.got = got  BY DEF Job
<1>3. proc'[p] = job /\ \A q \in Procs : q # p => proc'[q] = proc[q]  BY DEF DatabaseInv, Shape
<1> HIDE DEF job
<1>4. IsSeq(log)' /\ crashes' \in Nat  BY DEF DatabaseInv, IsSeq
<1>5. ASSUME NEW q \in Procs, Rebuilds(proc'[q]) PROVE Segment(proc[q].got)'
  <2>1. Segment(proc'[q].got)
    <3>1. CASE q = p  BY <1>2, <1>3, <1>5, <3>1 DEF job
    <3>2. CASE q # p
      <4>1. Segment(proc[q].got)  BY <1>3, <1>5, <3>2 DEF DatabaseInv
      <4>. QED  BY <1>3, <3>2, <4>1
    <3>. QED  BY <3>1, <3>2
  <2>. QED  BY <2>1 DEF Segment
<1>6. ASSUME ~disturbed' PROVE Orderly'
  <2>1. Orderly /\ ~disturbed  BY <1>6 DEF DatabaseInv
  <2>2. Rebuilding = {} <=> \A q \in Procs : ~Rebuilds(proc[q])  BY DEF Rebuilding, Rebuilds
  <2>3. ASSUME NEW q \in Procs, NEW r \in Procs, Rebuilds(proc'[q]), Rebuilds(proc'[r]) PROVE q = r
    <3>1. CASE q # p /\ r # p  BY <1>3, <2>1, <2>3, <3>1 DEF Orderly
    <3>2. CASE q = p /\ r # p
      <4>1. Rebuilds(job) /\ Rebuilds(proc[r])  BY <1>3, <2>3, <3>2
      <4>2. Rebuilds(proc[p])  BY <1>6, <2>2, <4>1 DEF job
      <4>. QED  BY <2>1, <3>2, <4>1, <4>2 DEF Orderly
    <3>3. CASE r = p /\ q # p
      <4>1. Rebuilds(job) /\ Rebuilds(proc[q])  BY <1>3, <2>3, <3>3
      <4>2. Rebuilds(proc[p])  BY <1>6, <2>2, <4>1 DEF job
      <4>. QED  BY <2>1, <3>3, <4>1, <4>2 DEF Orderly
    <3>. QED  BY <3>1, <3>2, <3>3
  <2>4. ASSUME NEW q \in Procs PROVE Phase(proc[q])'
    <3>1. CASE q = p  BY <1>2, <1>3, <1>6, <3>1 DEF Phase
    <3>2. CASE q # p /\ Rebuilds(proc[q])
      <4>1. ~Rebuilds(proc[p])  BY <2>1, <3>2 DEF Orderly
      <4>2. UNCHANGED <<vectors, nodes>>  BY <1>6, <4>1
      <4>3. Phase(proc[q])  BY <2>1 DEF Orderly
      <4>. QED  BY <1>3, <3>2, <4>2, <4>3 DEF Phase
    <3>3. CASE q # p /\ ~Rebuilds(proc[q])
      <4>1. proc'[q] = proc[q]  BY <1>3, <3>3
      <4>. QED  BY <3>3, <4>1 DEF Phase, Rebuilds
    <3>. QED  BY <3>1, <3>2, <3>3
  <2>5. ASSUME \A q \in Procs : ~Rebuilds(proc'[q]) PROVE vectors' = nodes'
    <3>1. ~Rebuilds(job)  BY <1>3, <2>5
    <3>2. CASE Rebuilds(proc[p])  BY <1>6, <3>1, <3>2 DEF job
    <3>3. CASE ~Rebuilds(proc[p])
      <4>1. \A q \in Procs : ~Rebuilds(proc[q])  BY <1>3, <2>5, <3>3
      <4>2. vectors = nodes  BY <2>1, <4>1 DEF Orderly
      <4>. QED  BY <1>6, <3>3, <4>2
    <3>. QED  BY <3>2, <3>3
  <2>. QED  BY <2>3, <2>4, <2>5 DEF Orderly, Rebuilds
<1>. QED  BY <1>1, <1>4, <1>5, <1>6 DEF DatabaseInv, Rebuilds

(* A step of the runtime takes nothing from the log; if it moves a rebuild, the *)
(* rebuild died                                                                 *)
LEMMA RuntimeKeepsDatabases ==
  ASSUME DatabaseInv, NEW p \in Procs, RuntimeCommand(p)
  PROVE  DatabaseInv'
<1>1. /\ RuntimeStep(p) /\ UNCHANGED <<vectors, nodes>>
      /\ disturbed' = (disturbed \/ (p \in Rebuilding /\ crashes' > crashes))
  BY DEF RuntimeCommand, files
<1>2. /\ LogGrows /\ (proc[p].pc \in IndexPcs => Crash(p))
      /\ crashes' = IF Crash(p) THEN crashes + 1 ELSE crashes
      /\ \/ UNCHANGED proc
         \/ \E pc : pc \notin IndexPcs /\ \E op, req, got :
              proc' = [proc EXCEPT ![p] = Job(pc, op, req, got)]
  BY <1>1, RuntimeStepMoves
<1>3. Shape' /\ (UNCHANGED proc \/ ~Rebuilds(proc'[p])) /\ \A q \in Procs : q # p => proc'[q] = proc[q]
  <2>1. CASE UNCHANGED proc  BY <2>1 DEF DatabaseInv, Shape, Job
  <2>2. CASE ~UNCHANGED proc
    <3>1. PICK pc : pc \notin IndexPcs /\ \E op, req, got : proc' = [proc EXCEPT ![p] = Job(pc, op, req, got)]
      BY <1>2, <2>2
    <3>2. PICK op, req, got : proc' = [proc EXCEPT ![p] = Job(pc, op, req, got)]  BY <3>1
    <3>3. Shape' /\ proc'[p] = Job(pc, op, req, got)  BY <3>2 DEF DatabaseInv, Shape, Job
    <3>4. Job(pc, op, req, got).pc = pc  BY DEF Job
    <3>5. ~Rebuilds(proc'[p])  BY <3>1, <3>3, <3>4 DEF Rebuilds, IndexPcs
    <3>. QED  BY <3>2, <3>3, <3>5 DEF DatabaseInv, Shape
  <2>. QED  BY <2>1, <2>2
<1>4. IsSeq(log)' /\ Segment(vectors)' /\ Segment(nodes)'
  <2>1. Segment(vectors) /\ Segment(nodes) /\ IsSeq(log)  BY DEF DatabaseInv
  <2>. QED  BY <1>1, <1>2, <2>1, SegmentsStay DEF Segment
<1>5. crashes' \in Nat  BY <1>2 DEF DatabaseInv
<1>6. ASSUME NEW q \in Procs, Rebuilds(proc'[q]) PROVE Segment(proc[q].got)'
  <2>1. proc'[q] = proc[q]  BY <1>3, <1>6
  <2>2. Segment(proc[q].got) /\ IsSeq(log)  BY <1>6, <2>1 DEF DatabaseInv
  <2>. QED  BY <1>2, <2>1, <2>2, SegmentsStay DEF Segment
<1>7. ASSUME ~disturbed' PROVE Orderly'
  <2>1. Orderly  BY <1>1, <1>7 DEF DatabaseInv
  <2>2. ~Rebuilds(proc[p])
    <3>1. SUFFICES ASSUME Rebuilds(proc[p]) PROVE FALSE
      OBVIOUS
    <3>2. Crash(p) /\ p \in Rebuilding  BY <1>2, <3>1 DEF Rebuilds, IndexPcs, Rebuilding
    <3>3. crashes' > crashes  BY <1>2, <3>2 DEF DatabaseInv
    <3>. QED  BY <1>1, <1>7, <3>2, <3>3
  <2>3. \A q \in Procs : proc'[q] = proc[q] \/ (q = p /\ ~Rebuilds(proc'[q]))  BY <1>3
  <2>4. \A q \in Procs : Rebuilds(proc'[q]) <=> Rebuilds(proc[q])  BY <2>2, <2>3
  <2>5. ASSUME NEW q \in Procs PROVE Phase(proc[q])'
    <3>1. CASE proc'[q] = proc[q]  BY <1>1, <2>1, <3>1 DEF Orderly, Phase
    <3>2. CASE ~Rebuilds(proc'[q])  BY <3>2 DEF Phase, Rebuilds
    <3>. QED  BY <2>3, <3>1, <3>2
  <2>6. \A q, r \in Procs : Rebuilds(proc'[q]) /\ Rebuilds(proc'[r]) => q = r  BY <2>1, <2>4 DEF Orderly
  <2>7. (\A q \in Procs : ~Rebuilds(proc'[q])) => vectors' = nodes'  BY <1>1, <2>1, <2>4 DEF Orderly
  <2>. QED  BY <2>5, <2>6, <2>7 DEF Orderly, Rebuilds
<1>. QED  BY <1>3, <1>4, <1>5, <1>6, <1>7 DEF DatabaseInv, Rebuilds

(* A command that is no rebuild, before and after, and touches no database *)
LEMMA DatabaseRest ==
  ASSUME DatabaseInv, NEW p \in Procs, NEW pc, NEW op, NEW req, NEW got,
         proc' = [proc EXCEPT ![p] = Job(pc, op, req, got)], ~Rebuilds(Job(pc, op, req, got)),
         ~Rebuilds(proc[p]), UNCHANGED <<log, crashes, databases>>
  PROVE  DatabaseInv'
<1>1. Job(pc, op, req, got).pc = pc  BY DEF Job
<1>2. pc \notin {"embed", "drop_vectors", "fill_vectors", "drop_nodes", "fill_nodes"}
  BY <1>1 DEF Rebuilds
<1>3. Segment(vectors)' /\ Segment(nodes)' /\ UNCHANGED <<vectors, nodes, disturbed>>
  BY DEF DatabaseInv, Segment, databases
<1>. QED  BY <1>2, <1>3, DatabaseMove

(* A rebuild takes every line there is; if another one runs, it disturbs *)
LEMMA BeginsRebuild ==
  ASSUME DatabaseInv, NEW p \in Procs, NEW op, ReadForRebuild(p, op), proc[p] = Idle,
         UNCHANGED <<log, crashes, vectors, nodes>>
  PROVE  DatabaseInv'
<1>1. proc' = [proc EXCEPT ![p] = Job("embed", op, <<>>, Lines)]
  BY DEF ReadForRebuild
<1>2. disturbed' = (disturbed \/ Rebuilding # {})  BY DEF ReadForRebuild
<1>3. ~Rebuilds(proc[p])  BY IdleRebuildsNot DEF Idle
<1>4. Segment(Lines) /\ Segment(vectors)' /\ Segment(nodes)'
  BY SegmentsOfLog DEF DatabaseInv, Segment
<1>5. ASSUME ~disturbed' PROVE ~disturbed /\ Rebuilding = {} /\ vectors' = nodes'
  <2>1. ~disturbed /\ Rebuilding = {} /\ Orderly  BY <1>2, <1>5 DEF DatabaseInv
  <2>2. \A q \in Procs : ~Rebuilds(proc[q])  BY <2>1 DEF Rebuilding, Rebuilds
  <2>. QED  BY <2>1, <2>2 DEF Orderly
<1>. QED  BY <1>1, <1>3, <1>4, <1>5, DatabaseMove

(* The vectors are filled when they are empty, or not at all *)
LEMMA FillVectorsKeeps ==
  ASSUME DatabaseInv, NEW p \in Procs, FillVectors(p)
  PROVE  DatabaseInv'
<1> DEFINE got == proc[p].got
<1>1. proc[p].pc = "fill_vectors" /\ UNCHANGED <<log, crashes, nodes>>  BY DEF FillVectors, Unchanged
<1>2. Rebuilds(proc[p]) /\ Segment(got)  BY <1>1 DEF DatabaseInv, Rebuilds
<1>3. CASE vectors \cap got = {}
  <2>1. /\ vectors' = vectors \cup got /\ disturbed' = disturbed
        /\ proc' = [proc EXCEPT ![p] = Job("drop_nodes", proc[p].op, proc[p].req, got)]
    BY <1>3 DEF FillVectors, Go
  <2>2. Segment(vectors \cup got)  BY <1>2, <1>3, DisjointSegments DEF DatabaseInv
  <2>3. Segment(vectors)' /\ Segment(nodes)'  BY <1>1, <2>1, <2>2 DEF DatabaseInv, Segment
  <2>4. ASSUME ~disturbed' PROVE ~disturbed /\ vectors' = got
    <3>1. Phase(proc[p]) /\ ~disturbed  BY <2>1, <2>4 DEF DatabaseInv, Orderly
    <3>2. vectors = {}  BY <1>1, <3>1 DEF Phase
    <3>. QED  BY <2>1, <3>1, <3>2
  <2>5. Rebuilds(Job("drop_nodes", proc[p].op, proc[p].req, got))  BY DEF Rebuilds, Job
  <2>. QED  BY <1>1, <1>2, <2>1, <2>3, <2>4, <2>5, DatabaseMove
<1>4. CASE vectors \cap got # {}
  <2>1. UNCHANGED vectors /\ disturbed' = TRUE /\ proc' = [proc EXCEPT ![p] = Job("idle", "none", <<>>, <<>>)]
    BY <1>4, EndIsJob DEF FillVectors
  <2>2. Segment(vectors)' /\ Segment(nodes)'  BY <1>1, <2>1 DEF DatabaseInv, Segment
  <2>. QED  BY <1>1, <2>1, <2>2, IdleRebuildsNot, DatabaseMove
<1>. QED  BY <1>3, <1>4

(* The nodes follow, and an undisturbed rebuild leaves both alike *)
LEMMA FillNodesKeeps ==
  ASSUME DatabaseInv, NEW p \in Procs, FillNodes(p)
  PROVE  DatabaseInv'
<1> DEFINE got == proc[p].got
<1>1. proc[p].pc = "fill_nodes" /\ UNCHANGED <<log, crashes, vectors>>  BY DEF FillNodes, Unchanged
<1>2. Rebuilds(proc[p]) /\ Segment(got)  BY <1>1 DEF DatabaseInv, Rebuilds
<1>3. CASE nodes \cap got = {}
  <2>1. /\ nodes' = nodes \cup got /\ disturbed' = disturbed
        /\ IF proc[p].op = "ask" THEN Go(p, "hits", {}) ELSE End(p)
    BY <1>3 DEF FillNodes
  <2>2. Segment(nodes \cup got)  BY <1>2, <1>3, DisjointSegments DEF DatabaseInv
  <2>3. Segment(vectors)' /\ Segment(nodes)'  BY <1>1, <2>1, <2>2 DEF DatabaseInv, Segment
  <2>4. ASSUME ~disturbed' PROVE ~disturbed /\ vectors' = nodes'
    <3>1. Phase(proc[p]) /\ ~disturbed  BY <2>1, <2>4 DEF DatabaseInv, Orderly
    <3>2. vectors = got /\ nodes = {}  BY <1>1, <3>1 DEF Phase
    <3>. QED  BY <1>1, <2>1, <3>1, <3>2
  <2>5. CASE proc[p].op = "ask"
    <3>1. proc' = [proc EXCEPT ![p] = Job("hits", proc[p].op, proc[p].req, {})]  BY <2>1, <2>5 DEF Go
    <3>2. ~Rebuilds(Job("hits", proc[p].op, proc[p].req, {}))  BY DEF Rebuilds, Job
    <3>. QED  BY <1>1, <1>2, <2>3, <2>4, <3>1, <3>2, DatabaseMove
  <2>6. CASE proc[p].op # "ask"
    <3>1. proc' = [proc EXCEPT ![p] = Job("idle", "none", <<>>, <<>>)]  BY <2>1, <2>6, EndIsJob
    <3>. QED  BY <1>1, <1>2, <2>3, <2>4, <3>1, IdleRebuildsNot, DatabaseMove
  <2>. QED  BY <2>5, <2>6
<1>4. CASE nodes \cap got # {}
  <2>1. UNCHANGED nodes /\ disturbed' = TRUE /\ proc' = [proc EXCEPT ![p] = Job("idle", "none", <<>>, <<>>)]
    BY <1>4, EndIsJob DEF FillNodes
  <2>2. Segment(vectors)' /\ Segment(nodes)'  BY <1>1, <2>1 DEF DatabaseInv, Segment
  <2>. QED  BY <1>1, <2>1, <2>2, IdleRebuildsNot, DatabaseMove
<1>. QED  BY <1>3, <1>4

(* Action by action *)
LEMMA IndexKeepsDatabases ==
  ASSUME DatabaseInv, NEW p \in Procs, IndexStep(p)
  PROVE  DatabaseInv'
<1>0. Segment({}) /\ Segment(vectors) /\ Segment(nodes)  BY SegmentsOfLog DEF DatabaseInv
<1>1. UNCHANGED <<log, crashes>>  BY IndexStepMoves
<1>2. \A a : Segment(a)' <=> Segment(a)  BY <1>1 DEF Segment
<1>3. CASE BeginRebuild(p)  BY <1>1, <1>3, BeginsRebuild DEF BeginRebuild
<1>4. CASE BeginAsk(p)
  <2>1. CASE Status = "ready"
    <3>1. /\ proc' = [proc EXCEPT ![p] = Job("hits", "ask", <<>>, {})] /\ proc[p] = Idle
          /\ UNCHANGED databases
      BY <1>4, <2>1 DEF BeginAsk, databases
    <3>2. ~Rebuilds(Job("hits", "ask", <<>>, {}))  BY DEF Rebuilds, Job
    <3>3. ~Rebuilds(proc[p])  BY <3>1, IdleRebuildsNot DEF Idle
    <3>. QED  BY <1>1, <3>1, <3>2, <3>3, DatabaseRest
  <2>2. CASE Status # "ready"  BY <1>1, <1>4, <2>2, BeginsRebuild DEF BeginAsk
  <2>. QED  BY <2>1, <2>2
<1>5. CASE Embed(p)
  <2>1. proc[p].pc = "embed" /\ UNCHANGED <<vectors, nodes, disturbed>>  BY <1>5 DEF Embed, databases
  <2>2. Rebuilds(proc[p]) /\ Segment(proc[p].got)  BY <2>1 DEF Rebuilds, DatabaseInv
  <2>3. Segment(vectors)' /\ Segment(nodes)'  BY <1>0, <1>2, <2>1 DEF Segment
  <2>4. ~disturbed' => ~disturbed /\ vectors' = nodes'
    <3>1. ~disturbed => Phase(proc[p])  BY DEF DatabaseInv, Orderly
    <3>. QED  BY <2>1, <3>1 DEF Phase
  <2>5. CASE Go(p, "drop_vectors", proc[p].got)
    <3>1. proc' = [proc EXCEPT ![p] = Job("drop_vectors", proc[p].op, proc[p].req, proc[p].got)]
      BY <2>5 DEF Go
    <3>2. Rebuilds(Job("drop_vectors", proc[p].op, proc[p].req, proc[p].got))  BY DEF Rebuilds, Job
    <3>. QED  BY <1>1, <2>2, <2>3, <2>4, <3>1, <3>2, DatabaseMove
  <2>6. CASE End(p)
    <3>1. proc' = [proc EXCEPT ![p] = Job("idle", "none", <<>>, <<>>)]  BY <2>6, EndIsJob
    <3>. QED  BY <1>1, <2>2, <2>3, <2>4, <3>1, IdleRebuildsNot, DatabaseMove
  <2>. QED  BY <1>5, <2>5, <2>6 DEF Embed
<1>6. CASE DropVectors(p)
  <2>1. /\ proc[p].pc = "drop_vectors" /\ UNCHANGED <<nodes, disturbed>> /\ vectors' = {}
        /\ proc' = [proc EXCEPT ![p] = Job("fill_vectors", proc[p].op, proc[p].req, proc[p].got)]
    BY <1>6 DEF DropVectors, Go
  <2>2. Rebuilds(proc[p]) /\ Segment(proc[p].got)  BY <2>1 DEF Rebuilds, DatabaseInv
  <2>3. Segment(vectors)' /\ Segment(nodes)'  BY <1>0, <1>2, <2>1 DEF Segment
  <2>4. Rebuilds(Job("fill_vectors", proc[p].op, proc[p].req, proc[p].got))  BY DEF Rebuilds, Job
  <2>. QED  BY <1>1, <2>1, <2>2, <2>3, <2>4, DatabaseMove
<1>7. CASE FillVectors(p)  BY <1>7, FillVectorsKeeps
<1>8. CASE DropNodes(p)
  <2>1. /\ proc[p].pc = "drop_nodes" /\ UNCHANGED <<vectors, disturbed>> /\ nodes' = {}
        /\ proc' = [proc EXCEPT ![p] = Job("fill_nodes", proc[p].op, proc[p].req, proc[p].got)]
    BY <1>8 DEF DropNodes, Go
  <2>2. Rebuilds(proc[p]) /\ Segment(proc[p].got)  BY <2>1 DEF Rebuilds, DatabaseInv
  <2>3. Segment(vectors)' /\ Segment(nodes)'  BY <1>0, <1>2, <2>1 DEF Segment
  <2>4. Rebuilds(Job("fill_nodes", proc[p].op, proc[p].req, proc[p].got))  BY DEF Rebuilds, Job
  <2>5. ~disturbed' => ~disturbed /\ vectors' = proc[p].got
    <3>1. ~disturbed => Phase(proc[p])  BY DEF DatabaseInv, Orderly
    <3>. QED  BY <2>1, <3>1 DEF Phase
  <2>. QED  BY <1>1, <2>1, <2>2, <2>3, <2>4, <2>5, DatabaseMove
<1>9. CASE FillNodes(p)  BY <1>9, FillNodesKeeps
<1>10. CASE FindHits(p) \/ ExpandAndAnswer(p) \/ LoadIndex(p) \/ TruncateIndex(p) \/ StoreIndex(p)
  <2>1. ~Rebuilds(proc[p]) /\ UNCHANGED databases
    BY <1>10, IdleRebuildsNot
    DEF FindHits, ExpandAndAnswer, LoadIndex, TruncateIndex, StoreIndex, Idle, Rebuilds
  <2>2. PICK pc : /\ pc \in {"expand", "idle", "truncate_index", "store_index"}
                  /\ \E op, req, got : proc' = [proc EXCEPT ![p] = Job(pc, op, req, got)]
    <3>1. CASE FindHits(p)
      <4>1. Go(p, "expand", vectors) \/ End(p)  BY <3>1 DEF FindHits
      <4>. QED  BY <4>1, EndIsJob DEF Go
    <3>2. CASE ExpandAndAnswer(p) \/ StoreIndex(p)
      BY <3>2, EndIsJob DEF ExpandAndAnswer, StoreIndex
    <3>3. CASE LoadIndex(p)
      <4>1. \E op, req, got : proc' = [proc EXCEPT ![p] = Job("truncate_index", op, req, got)]
        BY <3>3, LoadIndexMoves
      <4>. QED  BY <4>1
    <3>4. CASE TruncateIndex(p)
      BY <3>4 DEF TruncateIndex, Go
    <3>. QED  BY <1>10, <3>1, <3>2, <3>3, <3>4
  <2>3. PICK op, req, got : proc' = [proc EXCEPT ![p] = Job(pc, op, req, got)]  BY <2>2
  <2>4. ~Rebuilds(Job(pc, op, req, got))
    <3>1. Job(pc, op, req, got).pc = pc  BY DEF Job
    <3>. QED  BY <2>2, <3>1 DEF Rebuilds
  <2>. QED  BY <1>1, <2>1, <2>3, <2>4, DatabaseRest
<1>11. CASE Refused(p)
  <2>1. disturbed' /\ UNCHANGED <<vectors, nodes>>
        /\ proc' = [proc EXCEPT ![p] = Job("idle", "none", <<>>, <<>>)]
    BY <1>11, EndIsJob DEF Refused
  <2>2. Segment(vectors)' /\ Segment(nodes)'  BY <1>0, <1>2, <2>1 DEF Segment
  <2>. QED  BY <1>1, <2>1, <2>2, IdleRebuildsNot, DatabaseMove
<1>. QED  BY <1>3, <1>4, <1>5, <1>6, <1>7, <1>8, <1>9, <1>10, <1>11 DEF IndexStep

(* The invariant of the databases, whatever else runs *)
LEMMA DatabaseKept ==
  ASSUME DatabaseInv, [Next]_vars
  PROVE  DatabaseInv'
<1>1. CASE Next
  <2>1. PICK p \in Procs : RuntimeCommand(p) \/ IndexStep(p)  BY <1>1, NextIsEither
  <2>. QED  BY <2>1, RuntimeKeepsDatabases, IndexKeepsDatabases
<1>2. CASE UNCHANGED vars
  BY <1>2 DEF vars, runtimeVars, databases, DatabaseInv, Shape, Job, IsSeq, Segment, Rebuilds, Orderly, Phase
<1>. QED  BY <1>1, <1>2

(* A ready report compares two counts, and is right about the vectors at any    *)
(* moment, for any number of commands that rebuild, ask, append and die at      *)
(* once; about the graph, it is right while no rebuild was disturbed            *)
(* (graphrag_runtime_service.py:158).                                           *)
THEOREM ReadyReportsCurrent == Spec => []ReadyIsCurrent
<1>1. DatabaseInv => ReadyIsCurrent
  <2>. SUFFICES ASSUME DatabaseInv, Status = "ready"
       PROVE  vectors = Lines /\ (Rebuilding = {} /\ ~disturbed => nodes = Lines)
    BY DEF ReadyIsCurrent
  <2>1. Ready
    <3>1. ~Ready => Status \in {"stale", "needs_rebuild"}  BY DEF Status
    <3>. QED  BY <3>1
  <2>2. Cardinality(vectors) = Cardinality(Lines)  BY <2>1 DEF Ready
  <2>3. PICK n \in Nat : n <= Len(log) /\ vectors = 1 .. n  BY DEF DatabaseInv, Segment
  <2>4. Lines = 1 .. Len(log) /\ Len(log) \in Nat  BY SegmentsOfLog DEF DatabaseInv
  <2>5. \A k \in Nat : Cardinality(1 .. k) = k
    <3>. SUFFICES ASSUME NEW k \in Nat PROVE Cardinality(1 .. k) = k
      OBVIOUS
    <3>1. Cardinality(1 .. k) = IF 1 > k THEN 0 ELSE k - 1 + 1  BY FS_Interval
    <3>. QED  BY <3>1
  <2>6. Cardinality(vectors) = n  BY <2>3, <2>5
  <2>7. Cardinality(Lines) = Len(log)  BY <2>4, <2>5
  <2>8. vectors = Lines  BY <2>2, <2>3, <2>4, <2>6, <2>7
  <2>9. ASSUME Rebuilding = {}, ~disturbed PROVE nodes = vectors
    <3>1. \A p \in Procs : ~Rebuilds(proc[p])  BY <2>9 DEF Rebuilding, Rebuilds
    <3>. QED  BY <2>9, <3>1 DEF DatabaseInv, Orderly
  <2>. QED  BY <2>8, <2>9
<1>2. Init => DatabaseInv  BY DatabaseInit
<1>3. DatabaseInv /\ [Next]_vars => DatabaseInv'  BY DatabaseKept
<1>. QED  BY <1>1, <1>2, <1>3, PTL DEF Spec

----------------------------------------------------------------------------
(* The index files.  What a command has loaded holds all that had been stored  *)
(* by then, and what was stored since is excused by its store.                 *)

Edits(job) == job.pc \in {"truncate_index", "store_index"}

(* The key of a store is in the entries, or a later store had not seen it *)
Found(kind, i, entries) ==
  \/ \E e \in entries : e.key = stores[kind][i].key
  \/ \E j \in DOMAIN stores[kind] : j > i /\ stores[kind][j].seen < i

Loaded(job) ==
  /\ job.op \in IndexKinds /\ job.req \in Nat /\ job.req <= Len(stores[job.op])
  /\ \E e \in job.got.entries : e.key = job.got.key
  /\ \A i \in 1 .. job.req : Found(job.op, i, job.got.entries)

FileInv ==
  /\ Shape
  /\ DOMAIN stores = IndexKinds /\ DOMAIN indexes = IndexKinds
  /\ \A kind \in IndexKinds :
       /\ IsSeq(stores[kind])
       /\ indexes[kind].state \in {"missing", "empty", "whole", "garbled"}
       /\ indexes[kind].state = "missing" => Len(stores[kind]) = 0
  /\ EntriesStay
  /\ \A p \in Procs : Edits(proc[p]) => Loaded(proc[p])

(* Nothing was stored, nobody edits *)
LEMMA FileInit == Init => FileInv
<1>. SUFFICES ASSUME Init PROVE FileInv
  OBVIOUS
<1>1. Shape  BY DEF Init, RuntimeInit, Shape, Job, Idle
<1>2. \A p \in Procs : proc[p].pc = "idle"  BY DEF Init, RuntimeInit, Idle, Job
<1>3. \A p \in Procs : ~Edits(proc[p])  BY <1>2 DEF Edits
<1>4. \A kind \in IndexKinds : stores[kind] = <<>> /\ indexes[kind].state = "missing"
  BY DEF Init, Missing
<1>5. <<>> \in Seq({})  OBVIOUS
<1>6. \A kind \in IndexKinds : IsSeq(stores[kind]) /\ Len(stores[kind]) = 0
  <2>1. IsSeq(<<>>) /\ Len(<<>>) = 0  BY <1>5 DEF IsSeq
  <2>. QED  BY <1>4, <2>1
<1>7. DOMAIN stores = IndexKinds /\ DOMAIN indexes = IndexKinds  BY DEF Init
<1>8. EntriesStay  BY <1>4 DEF EntriesStay
<1>. QED  BY <1>1, <1>3, <1>4, <1>6, <1>7, <1>8 DEF FileInv

(* A command moves on and leaves the files alone *)
LEMMA FileMove ==
  ASSUME FileInv, NEW p \in Procs, NEW pc, NEW op, NEW req, NEW got,
         proc' = [proc EXCEPT ![p] = Job(pc, op, req, got)], UNCHANGED files,
         Edits(Job(pc, op, req, got)) => Loaded(Job(pc, op, req, got))
  PROVE  FileInv'
<1>1. Shape'  BY DEF FileInv, Shape, Job
<1>2. proc'[p] = Job(pc, op, req, got) /\ \A q \in Procs : q # p => proc'[q] = proc[q]
  BY DEF FileInv, Shape
<1>3. UNCHANGED <<indexes, stores>>  BY DEF files
<1>4. ASSUME NEW q \in Procs, Edits(proc'[q]) PROVE Loaded(proc[q])'
  <2>1. Loaded(proc'[q])
    <3>1. CASE q = p  BY <1>2, <1>4, <3>1
    <3>2. CASE q # p  BY <1>2, <1>4, <3>2 DEF FileInv
    <3>. QED  BY <3>1, <3>2
  <2>. QED  BY <1>3, <2>1 DEF Loaded, Found
<1>5. EntriesStay'  BY <1>3 DEF FileInv, EntriesStay
<1>6. \A kind \in IndexKinds :
        /\ IsSeq(stores[kind])'
        /\ indexes'[kind].state \in {"missing", "empty", "whole", "garbled"}
        /\ indexes'[kind].state = "missing" => Len(stores'[kind]) = 0
  BY <1>3 DEF FileInv, IsSeq
<1>7. DOMAIN stores' = IndexKinds /\ DOMAIN indexes' = IndexKinds
  BY <1>3 DEF FileInv
<1>. QED  BY <1>1, <1>4, <1>5, <1>6, <1>7 DEF FileInv, Edits

(* The entry is put in, and every other entry keeps its key *)
LEMMA MergedKeys ==
  ASSUME NEW kind, NEW entries, NEW key, NEW value
  PROVE  /\ \E e \in Merged(kind, entries, key, value) : e.key = key
         /\ \A d \in entries : \E e \in Merged(kind, entries, key, value) : e.key = d.key
<1> DEFINE values == {value} \cup (IF kind = "graph" THEN UNION {e.values : e \in {d \in entries : d.key = key}} ELSE {})
           new == [key |-> key, values |-> values]
<1>1. Merged(kind, entries, key, value) = {e \in entries : e.key # key} \cup {new}
  BY DEF Merged
<1>2. new.key = key  OBVIOUS
<1> HIDE DEF new
<1>3. ASSUME NEW d \in entries PROVE \E e \in Merged(kind, entries, key, value) : e.key = d.key
  <2>1. CASE d.key = key  BY <1>1, <1>2, <2>1
  <2>2. CASE d.key # key  BY <1>1, <2>2
  <2>. QED  BY <2>1, <2>2
<1>. QED  BY <1>1, <1>2, <1>3

(* What is loaded holds what the file held, and the new entry *)
LEMMA LoadKeeps ==
  ASSUME FileInv, NEW p \in Procs, LoadIndex(p)
  PROVE  FileInv'
<1>1. PICK kind \in IndexKinds, i \in Lines, type \in {"event", "note"}, value \in Labels :
        LET held == IF indexes[kind].state = "whole" THEN indexes[kind].holds ELSE {} IN
        /\ proc[p] = Idle /\ "index" \in mix.ops /\ Len(stores[kind]) < MaxStores
        /\ kind = "graph" => type = "event"
        /\ indexes[kind].state \in {"missing", "whole"}
        /\ proc' = [proc EXCEPT ![p] =
             Job("truncate_index", kind, Len(stores[kind]),
                 [key |-> [record |-> i, type |-> type],
                  entries |-> Merged(kind, held, [record |-> i, type |-> type], value)])]
        /\ Unchanged /\ UNCHANGED <<databases, files, crashes>>
    BY DEF LoadIndex
<1> DEFINE held == IF indexes[kind].state = "whole" THEN indexes[kind].holds ELSE {}
           key == [record |-> i, type |-> type]
           entries == Merged(kind, held, key, value)
           got == [key |-> key, entries |-> entries]
           n == Len(stores[kind])
<1>2. proc' = [proc EXCEPT ![p] = Job("truncate_index", kind, n, got)] /\ UNCHANGED files
      /\ indexes[kind].state \in {"missing", "whole"}
  BY <1>1
<1>3. /\ \E e \in entries : e.key = key
      /\ \A d \in held : \E e \in entries : e.key = d.key
  BY MergedKeys
<1>4. n \in Nat /\ DOMAIN stores[kind] = 1 .. n  BY DEF FileInv, IsSeq
<1> HIDE DEF held, entries, key
<1>5. ASSUME NEW k \in 1 .. n PROVE Found(kind, k, entries)
  <2>1. indexes[kind].state = "whole"  BY <1>2, <1>4, <1>5 DEF FileInv
  <2>2. held = indexes[kind].holds  BY <2>1 DEF held
  <2>3. Found(kind, k, held)
    <3>1. k \in DOMAIN stores[kind]  BY <1>4, <1>5
    <3>. QED  BY <2>1, <2>2, <3>1 DEF FileInv, EntriesStay, Found
  <2>. QED  BY <1>3, <2>3 DEF Found
<1>6. got.key = key /\ got.entries = entries  OBVIOUS
<1> HIDE DEF got, n
<1>7. Loaded(Job("truncate_index", kind, n, got))
  <2>1. /\ Job("truncate_index", kind, n, got).op = kind
        /\ Job("truncate_index", kind, n, got).req = n
        /\ Job("truncate_index", kind, n, got).got = got
    BY DEF Job
  <2>. QED  BY <1>3, <1>4, <1>5, <1>6, <2>1 DEF Loaded, n
<1>. QED  BY <1>2, <1>7, FileMove

(* An emptied file promises nothing *)
LEMMA TruncateKeeps ==
  ASSUME FileInv, NEW p \in Procs, TruncateIndex(p)
  PROVE  FileInv'
<1>1. /\ proc[p].pc = "truncate_index" /\ indexes' = [indexes EXCEPT ![proc[p].op] = Empty]
      /\ proc' = [proc EXCEPT ![p] = Job("store_index", proc[p].op, proc[p].req, proc[p].got)]
      /\ UNCHANGED stores
  BY DEF TruncateIndex, Go
<1>2. Shape'  BY <1>1 DEF FileInv, Shape, Job
<1>3. Loaded(proc[p])  BY <1>1 DEF FileInv, Edits
<1>4. ASSUME NEW q \in Procs, Edits(proc'[q]) PROVE Loaded(proc[q])'
  <2>1. /\ proc'[q].op = proc[q].op /\ proc'[q].req = proc[q].req /\ proc'[q].got = proc[q].got
        /\ Loaded(proc[q])
    <3>1. CASE q = p
      <4>1. proc'[q] = Job("store_index", proc[p].op, proc[p].req, proc[p].got)
        BY <1>1, <3>1 DEF FileInv, Shape
      <4>. QED  BY <1>3, <3>1, <4>1 DEF Job
    <3>2. CASE q # p
      <4>1. proc'[q] = proc[q]  BY <1>1, <3>2 DEF FileInv, Shape
      <4>. QED  BY <1>4, <4>1 DEF FileInv
    <3>. QED  BY <3>1, <3>2
  <2>. QED  BY <1>1, <2>1 DEF Loaded, Found
<1>5. Empty.state = "empty"  BY DEF Empty
<1>6. /\ DOMAIN indexes' = IndexKinds
      /\ \A kind \in IndexKinds : indexes'[kind] = IF kind = proc[p].op THEN Empty ELSE indexes[kind]
  BY <1>1 DEF FileInv
<1>7. EntriesStay'  BY <1>1, <1>5, <1>6 DEF FileInv, EntriesStay
<1>8. \A kind \in IndexKinds :
        /\ IsSeq(stores[kind])'
        /\ indexes'[kind].state \in {"missing", "empty", "whole", "garbled"}
        /\ indexes'[kind].state = "missing" => Len(stores'[kind]) = 0
  BY <1>1, <1>5, <1>6 DEF FileInv, IsSeq
<1>. QED  BY <1>1, <1>2, <1>4, <1>6, <1>7, <1>8 DEF FileInv, Edits

(* What was found stays found, in what was loaded before this store *)
LEMMA StoreKeeps ==
  ASSUME FileInv, NEW p \in Procs, StoreIndex(p)
  PROVE  FileInv'
<1> DEFINE kind == proc[p].op
           n == Len(stores[kind])
           line == [key |-> proc[p].got.key, seen |-> proc[p].req]
           Later(k, i, entries) == \/ \E e \in entries : e.key = stores'[k][i].key
                                   \/ \E j \in DOMAIN stores'[k] : j > i /\ stores'[k][j].seen < i
<1>1. /\ proc[p].pc = "store_index"
      /\ \E file \in Overlaid(indexes[kind], proc[p].got.entries) : indexes' = [indexes EXCEPT ![kind] = file]
      /\ stores' = [stores EXCEPT ![kind] = Append(@, line)]
      /\ proc' = [proc EXCEPT ![p] = Job("idle", "none", <<>>, <<>>)]
  BY EndIsJob DEF StoreIndex
<1>2. Loaded(proc[p])  BY <1>1 DEF FileInv, Edits
<1>3. kind \in IndexKinds /\ proc[p].req \in Nat /\ proc[p].req <= n  BY <1>2 DEF Loaded
<1>4. DOMAIN stores' = IndexKinds /\ DOMAIN indexes' = IndexKinds  BY <1>1 DEF FileInv
<1>5. \A k \in IndexKinds : k # kind => stores'[k] = stores[k] /\ indexes'[k] = indexes[k]
  BY <1>1 DEF FileInv
<1>6. stores'[kind] = Append(stores[kind], line) /\ indexes'[kind] \in {Holding(proc[p].got.entries), Garbled}
  BY <1>1, <1>3 DEF FileInv, Overlaid
<1>7. /\ IsSeq(stores'[kind]) /\ n \in Nat /\ DOMAIN stores[kind] = 1 .. n
      /\ Len(stores'[kind]) = n + 1 /\ DOMAIN stores'[kind] = 1 .. (n + 1)
      /\ \A i \in 1 .. n : stores'[kind][i] = stores[kind][i]
      /\ stores'[kind][n + 1] = line
  BY <1>3, <1>6, Appending DEF FileInv
<1>8. line.key = proc[p].got.key /\ line.seen = proc[p].req  OBVIOUS
<1>9. /\ Holding(proc[p].got.entries).state = "whole" /\ Holding(proc[p].got.entries).holds = proc[p].got.entries
      /\ Garbled.state = "garbled"
  BY DEF Holding, Garbled
<1> HIDE DEF line, n, kind
<1>10. ASSUME NEW k \in IndexKinds, NEW i \in Nat, i >= 1, i <= Len(stores[k]), NEW entries, Found(k, i, entries)
       PROVE  Later(k, i, entries)
  <2>1. CASE k # kind
    <3>1. stores'[k] = stores[k]  BY <1>5, <2>1
    <3>. QED  BY <1>10, <3>1 DEF Found
  <2>2. CASE k = kind
    <3>1. i \in 1 .. n /\ stores'[kind][i] = stores[kind][i]  BY <1>7, <1>10, <2>2 DEF n
    <3>2. \A j \in DOMAIN stores[kind] : j \in DOMAIN stores'[kind] /\ stores'[kind][j] = stores[kind][j]
      BY <1>7
    <3>3. \/ \E e \in entries : e.key = stores[kind][i].key
          \/ \E j \in DOMAIN stores[kind] : j > i /\ stores[kind][j].seen < i
      BY <1>10, <2>2 DEF Found
    <3>4. CASE \E e \in entries : e.key = stores[kind][i].key
      BY <2>2, <3>1, <3>4 DEF Found
    <3>5. CASE \E j \in DOMAIN stores[kind] : j > i /\ stores[kind][j].seen < i
      <4>1. PICK j \in DOMAIN stores[kind] : j > i /\ stores[kind][j].seen < i  BY <3>5
      <4>2. j \in DOMAIN stores'[kind] /\ stores'[kind][j].seen < i /\ j > i  BY <3>2, <4>1
      <4>. QED  BY <2>2, <4>2 DEF Found
    <3>. QED  BY <3>3, <3>4, <3>5
  <2>. QED  BY <2>1, <2>2
<1>11. ASSUME NEW q \in Procs, Edits(proc'[q]) PROVE Loaded(proc[q])'
  <2>1. q # p
    <3>1. proc'[p].pc = "idle"  BY <1>1 DEF FileInv, Shape, Job
    <3>. QED  BY <1>11, <3>1 DEF Edits
  <2>2. proc'[q] = proc[q]  BY <1>1, <2>1 DEF FileInv, Shape
  <2>3. Loaded(proc[q])  BY <1>11, <2>2 DEF FileInv
  <2>4. proc[q].op \in IndexKinds /\ proc[q].req \in Nat /\ proc[q].req <= Len(stores[proc[q].op])
    BY <2>3 DEF Loaded
  <2>5. Len(stores[proc[q].op]) \in Nat /\ Len(stores'[proc[q].op]) >= Len(stores[proc[q].op])
    <3>1. CASE proc[q].op = kind  BY <1>7, <3>1 DEF n
    <3>2. CASE proc[q].op # kind
      <4>1. stores'[proc[q].op] = stores[proc[q].op]  BY <1>5, <2>4, <3>2
      <4>2. Len(stores[proc[q].op]) \in Nat  BY <2>4 DEF FileInv, IsSeq
      <4>. QED  BY <4>1, <4>2
    <3>. QED  BY <3>1, <3>2
  <2>6. \A i \in 1 .. proc[q].req : Later(proc[q].op, i, proc[q].got.entries)
    <3>. SUFFICES ASSUME NEW i \in 1 .. proc[q].req PROVE Later(proc[q].op, i, proc[q].got.entries)
      OBVIOUS
    <3>1. i \in Nat /\ i >= 1 /\ i <= Len(stores[proc[q].op])  BY <2>4, <2>5
    <3>2. Found(proc[q].op, i, proc[q].got.entries)  BY <2>3 DEF Loaded
    <3>. QED  BY <1>10, <2>4, <3>1, <3>2
  <2>7. proc[q].req <= Len(stores'[proc[q].op])  BY <2>4, <2>5, <1>7, <1>5
  <2>. QED  BY <2>2, <2>3, <2>4, <2>6, <2>7 DEF Loaded, Found
<1>12. EntriesStay'
  <2>. SUFFICES ASSUME NEW k \in IndexKinds, indexes'[k].state = "whole", NEW i \in DOMAIN stores'[k]
       PROVE  \/ \E e \in indexes'[k].holds : e.key = stores'[k][i].key
              \/ \E j \in DOMAIN stores'[k] : j > i /\ stores'[k][j].seen < i
    BY DEF EntriesStay
  <2>1. CASE k # kind
    <3>1. stores'[k] = stores[k] /\ indexes'[k] = indexes[k]  BY <1>5, <2>1
    <3>. QED  BY <3>1 DEF FileInv, EntriesStay
  <2>2. CASE k = kind /\ i = n + 1
    <3>1. \E e \in proc[p].got.entries : e.key = proc[p].got.key  BY <1>2 DEF Loaded
    <3>. QED  BY <1>6, <1>7, <1>8, <1>9, <2>2, <3>1
  <2>3. CASE k = kind /\ i # n + 1 /\ i > proc[p].req
    <3>1. n + 1 \in DOMAIN stores'[k] /\ n + 1 > i /\ stores'[k][n + 1].seen < i
      BY <1>3, <1>7, <1>8, <2>3
    <3>. QED  BY <3>1
  <2>4. CASE k = kind /\ i # n + 1 /\ ~(i > proc[p].req)
    <3>1. i \in 1 .. proc[p].req /\ i \in Nat /\ i >= 1 /\ i <= n  BY <1>3, <1>7, <2>4
    <3>2. Found(kind, i, proc[p].got.entries)  BY <1>2, <3>1 DEF Loaded, kind
    <3>3. Later(kind, i, proc[p].got.entries)  BY <1>3, <1>10, <3>1, <3>2 DEF n
    <3>. QED  BY <1>6, <1>9, <2>4, <3>3
  <2>. QED  BY <2>1, <2>2, <2>3, <2>4
<1>13. \A k \in IndexKinds :
         /\ IsSeq(stores[k])'
         /\ indexes'[k].state \in {"missing", "empty", "whole", "garbled"}
         /\ indexes'[k].state = "missing" => Len(stores'[k]) = 0
  <2>. SUFFICES ASSUME NEW k \in IndexKinds
       PROVE  /\ IsSeq(stores'[k])
              /\ indexes'[k].state \in {"missing", "empty", "whole", "garbled"}
              /\ indexes'[k].state = "missing" => Len(stores'[k]) = 0
    BY DEF IsSeq
  <2>1. CASE k = kind  BY <1>6, <1>7, <1>9, <2>1
  <2>2. CASE k # kind  BY <1>5, <2>2 DEF FileInv
  <2>. QED  BY <2>1, <2>2
<1>14. Shape'  BY <1>1 DEF FileInv, Shape, Job
<1>. QED  BY <1>4, <1>11, <1>12, <1>13, <1>14 DEF FileInv, Edits

(* The invariant of the index files, whatever else runs *)
LEMMA FilesKept ==
  ASSUME FileInv, [Next]_vars
  PROVE  FileInv'
<1>1. CASE Next
  <2>1. PICK p \in Procs : RuntimeCommand(p) \/ IndexStep(p)  BY <1>1, NextIsEither
  <2>2. CASE RuntimeCommand(p)
    <3>1. RuntimeStep(p) /\ UNCHANGED files  BY <2>2 DEF RuntimeCommand
    <3>2. CASE UNCHANGED proc
      BY ZenonT(60), <3>1, <3>2 DEF files, FileInv, Shape, Job, EntriesStay, Edits, Loaded, Found, IsSeq
    <3>3. CASE ~UNCHANGED proc
      <4>1. PICK pc : pc \notin IndexPcs /\ \E op, req, got : proc' = [proc EXCEPT ![p] = Job(pc, op, req, got)]
        BY <3>1, <3>3, RuntimeStepMoves
      <4>2. PICK op, req, got : proc' = [proc EXCEPT ![p] = Job(pc, op, req, got)]  BY <4>1
      <4>3. ~Edits(Job(pc, op, req, got))
        <5>1. Job(pc, op, req, got).pc = pc  BY DEF Job
        <5>. QED  BY <4>1, <5>1 DEF Edits, IndexPcs
      <4>. QED  BY <3>1, <4>2, <4>3, FileMove
    <3>. QED  BY <3>2, <3>3
  <2>3. CASE LoadIndex(p)  BY <2>3, LoadKeeps
  <2>4. CASE TruncateIndex(p)  BY <2>4, TruncateKeeps
  <2>5. CASE StoreIndex(p)  BY <2>5, StoreKeeps
  <2>6. CASE IndexStep(p) /\ ~LoadIndex(p) /\ ~TruncateIndex(p) /\ ~StoreIndex(p)
    <3>1. UNCHANGED files
      BY <2>6 DEF IndexStep, BeginRebuild, BeginAsk, Embed, Refused, DropVectors, FillVectors, DropNodes, FillNodes,
             FindHits, ExpandAndAnswer
    <3>2. PICK pc : /\ pc \notin {"truncate_index", "store_index"}
                    /\ \E op, req, got : proc' = [proc EXCEPT ![p] = Job(pc, op, req, got)]
      <4> DEFINE Moves == \E pc : /\ pc \notin {"truncate_index", "store_index"}
                                  /\ \E op, req, got : proc' = [proc EXCEPT ![p] = Job(pc, op, req, got)]
      <4>1. End(p) => Moves  BY EndIsJob
      <4>2. \A pc, got : pc \notin {"truncate_index", "store_index"} /\ Go(p, pc, got) => Moves
        BY DEF Go
      <4>3. CASE BeginRebuild(p) \/ (BeginAsk(p) /\ Status # "ready")
        <5>1. \E op : ReadForRebuild(p, op)  BY <4>3 DEF BeginRebuild, BeginAsk
        <5>2. \E op : proc' = [proc EXCEPT ![p] = Job("embed", op, <<>>, Lines)]
          BY <5>1 DEF ReadForRebuild
        <5>. QED  BY <5>2
      <4>4. CASE BeginAsk(p) /\ Status = "ready"
        <5>1. proc' = [proc EXCEPT ![p] = Job("hits", "ask", <<>>, {})]  BY <4>4 DEF BeginAsk
        <5>. QED  BY <5>1
      <4>5. CASE Embed(p) \/ Refused(p) \/ DropVectors(p) \/ FillVectors(p) \/ DropNodes(p) \/ FillNodes(p) \/ FindHits(p)
                 \/ ExpandAndAnswer(p)
        <5>1. End(p) \/ \E pc \in {"drop_vectors", "fill_vectors", "drop_nodes", "fill_nodes", "hits", "expand"} :
                          \E got : Go(p, pc, got)
          BY <4>5 DEF Embed, Refused, DropVectors, FillVectors, DropNodes, FillNodes, FindHits, ExpandAndAnswer
        <5>. QED  BY <4>1, <4>2, <5>1
      <4>. QED  BY <2>6, <4>3, <4>4, <4>5 DEF IndexStep
    <3>3. PICK op, req, got : proc' = [proc EXCEPT ![p] = Job(pc, op, req, got)]  BY <3>2
    <3>4. ~Edits(Job(pc, op, req, got))
      <4>1. Job(pc, op, req, got).pc = pc  BY DEF Job
      <4>. QED  BY <3>2, <4>1 DEF Edits
    <3>. QED  BY <3>1, <3>3, <3>4, FileMove
  <2>. QED  BY <2>1, <2>2, <2>3, <2>4, <2>5, <2>6
<1>2. CASE UNCHANGED vars
  BY <1>2 DEF vars, runtimeVars, files, FileInv, Shape, Job, EntriesStay, Edits, Loaded, Found, IsSeq
<1>. QED  BY <1>1, <1>2

(* Whatever commands edit an index file at once, an entry is lost only to a     *)
(* command that had loaded the file before it was stored                        *)
(* (vector_index_service.py:41, graph_index_service.py:18).                     *)
THEOREM IndexEntriesStay == Spec => []EntriesStay
<1>1. Init => FileInv  BY FileInit
<1>2. FileInv /\ [Next]_vars => FileInv'  BY FilesKept
<1>3. FileInv => EntriesStay  BY DEF FileInv
<1>. QED  BY <1>1, <1>2, <1>3, PTL DEF Spec

----------------------------------------------------------------------------
(* What is kept of an answer.  A command that keeps a draft owns its job until  *)
(* the file is whole, and what it will write there is in the log already.  The  *)
(* events without a file, and the answers nobody holds, are counted by the      *)
(* commands under way and the deaths.                                           *)

Works(job) == job.pc \in {"event", "truncate_job", "file"}
Announced(job) == job.pc \in {"truncate_job", "file"}

Honest(text, told) == \/ text = 0 /\ told = FALSE
                      \/ text \in Nat /\ text > 0 /\ told = TRUE

IsResult(got) ==
  /\ got = [text |-> got.text, told |-> got.told, job |-> got.job,
            artifact |-> got.artifact, event |-> got.event]
  /\ Honest(got.text, got.told)

(* The artifact with the text, and the event that names it, are lines of a log *)
HasArtifact(lines, artifact, text) ==
  artifact \in DOMAIN lines /\ lines[artifact] = Entry("artifact", text)

HasEvent(lines, event, k, artifact) ==
  /\ event \in DOMAIN lines /\ lines[event].kind = "job" /\ artifact < event
  /\ lines[event].data.job = k /\ lines[event].data.artifact = artifact

BackedIn(lines, k, job) ==
  /\ Honest(job.text, job.told)
  /\ HasArtifact(lines, job.artifact, job.text) /\ HasEvent(lines, job.event, k, job.artifact)

(* What a command at work relies on *)
HoldsIn(lines, asked, kept, job) ==
  /\ job.pc = "answer" => job.got \in DOMAIN asked /\ asked[job.got].wish = job.req.wish
  /\ job.pc = "keep" \/ Works(job) => IsResult(job.got)
  /\ Works(job) => /\ job.got.job \in JobIds /\ kept[job.got.job].state # "whole"
                   /\ HasArtifact(lines, job.got.artifact, job.got.text)
  /\ Announced(job) => HasEvent(lines, job.got.event, job.got.job, job.got.artifact)

Facts ==
  /\ Shape /\ IsSeq(log) /\ jobs = [k \in JobIds |-> jobs[k]]
  /\ \A e \in DOMAIN log : log[e].kind = "job" => log[e].data.job \in JobIds
  /\ \A k \in JobIds : jobs[k].state = "whole" => BackedIn(log, k, jobs[k].holds)
  /\ \A p \in Procs : HoldsIn(log, calls, jobs, proc[p])
  /\ \A p, q \in Procs : Works(proc[p]) /\ Works(proc[q]) /\ proc[p].got.job = proc[q].got.job => p = q

Undone == {e \in DOMAIN log : log[e].kind = "job" /\ jobs[log[e].data.job].state # "whole"}
Announcing == {p \in Procs : Announced(proc[p])}

Counted ==
  /\ crashes \in Nat /\ IsFiniteSet(Announcing)
  /\ Cardinality(Undone) <= crashes + Cardinality(Announcing)

(* An answer that is wanted, that no line has and that no command holds *)
Lost == {i \in DOMAIN calls :
           /\ calls[i].answered /\ calls[i].wish # {}
           /\ \A e \in DOMAIN log : log[e].kind \in {"artifact", "output"} => log[e].data # i
           /\ \A p \in Procs : proc[p].pc = "keep" => proc[p].got.text # i}

ResultInv == Facts /\ Counted /\ Cardinality(Lost) <= crashes

(* A log that grows keeps its lines *)
LEMMA LinesStay ==
  ASSUME IsSeq(log), LogGrows
  PROVE  /\ IsSeq(log') /\ Len(log) \in Nat /\ DOMAIN log = 1 .. Len(log)
         /\ \A i \in DOMAIN log : i \in DOMAIN log' /\ log'[i] = log[i]
<1>1. Len(log) \in Nat /\ DOMAIN log = 1 .. Len(log)  BY DEF IsSeq
<1>2. CASE log' = log  BY <1>1, <1>2
<1>3. CASE log' # log
  <2>1. PICK e : log' = Append(log, e)  BY <1>3 DEF LogGrows
  <2>2. /\ IsSeq(log') /\ DOMAIN log' = 1 .. (Len(log) + 1)
        /\ \A i \in 1 .. Len(log) : log'[i] = log[i]
    BY <2>1, Appending
  <2>. QED  BY <1>1, <2>2
<1>. QED  BY <1>2, <1>3

(* What backs a file stays in a log that keeps its lines *)
LEMMA BackingStays ==
  ASSUME NEW old, NEW new, \A i \in DOMAIN old : i \in DOMAIN new /\ new[i] = old[i]
  PROVE  /\ \A artifact, text : HasArtifact(old, artifact, text) => HasArtifact(new, artifact, text)
         /\ \A event, k, artifact : HasEvent(old, event, k, artifact) => HasEvent(new, event, k, artifact)
         /\ \A k, job : BackedIn(old, k, job) => BackedIn(new, k, job)
<1>1. \A artifact, text : HasArtifact(old, artifact, text) => HasArtifact(new, artifact, text)
  BY DEF HasArtifact
<1>2. \A event, k, artifact : HasEvent(old, event, k, artifact) => HasEvent(new, event, k, artifact)
  BY DEF HasEvent
<1>. QED  BY <1>1, <1>2 DEF BackedIn

CallsGrow == \A i \in DOMAIN calls : i \in DOMAIN calls' /\ calls'[i].wish = calls[i].wish

JobLinesKnown == \A e \in DOMAIN log' : log'[e].kind = "job" =>
                   e \in DOMAIN log \/ log'[e].data.job \in JobIds

(* One command moves on.  It writes no job but its own, and only when the file  *)
(* says what the log says.                                                      *)
LEMMA FactsMove ==
  ASSUME Facts, NEW p \in Procs, NEW pc, NEW op, NEW req, NEW got,
         proc' = [proc EXCEPT ![p] = Job(pc, op, req, got)],
         LogGrows, CallsGrow, JobLinesKnown,
         HoldsIn(log', calls', jobs', Job(pc, op, req, got)),
         Works(Job(pc, op, req, got)) =>
           \A q \in Procs : q # p /\ Works(proc[q]) => proc[q].got.job # got.job,
         \/ jobs' = jobs
         \/ \E file : /\ Works(proc[p]) /\ jobs' = [jobs EXCEPT ![proc[p].got.job] = file]
                      /\ file.state = "whole" => BackedIn(log', proc[p].got.job, file.holds)
  PROVE  Facts'
<1> DEFINE job == Job(pc, op, req, got)
<1>1. /\ IsSeq(log') /\ \A i \in DOMAIN log : i \in DOMAIN log' /\ log'[i] = log[i]
  BY LinesStay DEF Facts
<1>2. Shape' /\ proc'[p] = job /\ \A q \in Procs : q # p => proc'[q] = proc[q]
  BY DEF Facts, Shape, Job
<1>3. job.got = got  BY DEF Job
<1> HIDE DEF job
<1>4. /\ jobs' = [k \in JobIds |-> jobs'[k]]
      /\ \A k \in JobIds : jobs'[k] = jobs[k] \/ (Works(proc[p]) /\ k = proc[p].got.job)
  BY DEF Facts
<1>5. \A e \in DOMAIN log' : log'[e].kind = "job" => log'[e].data.job \in JobIds
  BY <1>1 DEF Facts, JobLinesKnown
<1>6. ASSUME NEW k \in JobIds, jobs'[k].state = "whole" PROVE BackedIn(log', k, jobs'[k].holds)
  <2>1. CASE jobs'[k] = jobs[k]
    <3>1. BackedIn(log, k, jobs[k].holds)  BY <1>6, <2>1 DEF Facts
    <3>2. BackedIn(log', k, jobs[k].holds)  BY <1>1, <3>1, BackingStays
    <3>. QED  BY <2>1, <3>2
  <2>2. CASE jobs'[k] # jobs[k]
    <3>1. PICK file : /\ Works(proc[p]) /\ jobs' = [jobs EXCEPT ![proc[p].got.job] = file]
                      /\ file.state = "whole" => BackedIn(log', proc[p].got.job, file.holds)
      BY <2>2
    <3>2. k = proc[p].got.job /\ jobs'[k] = file  BY <1>4, <2>2, <3>1 DEF Facts
    <3>. QED  BY <1>6, <3>1, <3>2
  <2>. QED  BY <2>1, <2>2
<1>7. ASSUME NEW q \in Procs PROVE HoldsIn(log', calls', jobs', proc'[q])
  <2>1. CASE q = p  BY <1>2, <2>1 DEF job
  <2>2. CASE q # p
    <3>1. proc'[q] = proc[q] /\ HoldsIn(log, calls, jobs, proc[q])  BY <1>2, <2>2 DEF Facts
    <3>2. Works(proc[q]) => jobs'[proc[q].got.job] = jobs[proc[q].got.job]
      <4>1. CASE Works(proc[q])
        <5>1. proc[q].got.job \in JobIds  BY <3>1, <4>1 DEF HoldsIn
        <5>2. ~(Works(proc[p]) /\ proc[q].got.job = proc[p].got.job)  BY <2>2, <4>1 DEF Facts
        <5>. QED  BY <1>4, <5>1, <5>2
      <4>. QED  BY <4>1
    <3>3. HoldsIn(log', calls', jobs', proc[q])
      <4>1. proc[q].pc = "answer" => proc[q].got \in DOMAIN calls' /\ calls'[proc[q].got].wish = proc[q].req.wish
        BY <3>1 DEF HoldsIn, CallsGrow
      <4>2. Works(proc[q]) => /\ proc[q].got.job \in JobIds /\ jobs'[proc[q].got.job].state # "whole"
                              /\ HasArtifact(log', proc[q].got.artifact, proc[q].got.text)
        BY <1>1, <3>1, <3>2, BackingStays DEF HoldsIn
      <4>3. Announced(proc[q]) => HasEvent(log', proc[q].got.event, proc[q].got.job, proc[q].got.artifact)
        BY <1>1, <3>1, BackingStays DEF HoldsIn
      <4>4. proc[q].pc = "keep" \/ Works(proc[q]) => IsResult(proc[q].got)
        BY <3>1 DEF HoldsIn
      <4>. QED  BY <4>1, <4>2, <4>3, <4>4 DEF HoldsIn
    <3>. QED  BY <3>1, <3>3
  <2>. QED  BY <2>1, <2>2
<1>8. ASSUME NEW q \in Procs, NEW r \in Procs, Works(proc'[q]), Works(proc'[r]), proc'[q].got.job = proc'[r].got.job
      PROVE  q = r
  <2>1. CASE q # p /\ r # p  BY <1>2, <1>8, <2>1 DEF Facts
  <2>2. CASE q = p /\ r # p  BY <1>2, <1>3, <1>8, <2>2 DEF job
  <2>3. CASE r = p /\ q # p  BY <1>2, <1>3, <1>8, <2>3 DEF job
  <2>. QED  BY <2>1, <2>2, <2>3
<1>9. IsSeq(log)'  BY <1>1 DEF IsSeq
<1>10. \A q \in Procs : HoldsIn(log, calls, jobs, proc[q])'
  BY <1>7 DEF HoldsIn, Works, Announced, IsResult, Honest, HasArtifact, HasEvent, Entry, JobIds
<1>11. \A k \in JobIds : jobs'[k].state = "whole" => BackedIn(log, k, jobs[k].holds)'
  BY <1>6 DEF BackedIn, Honest, HasArtifact, HasEvent, Entry
<1>. QED  BY <1>2, <1>4, <1>5, <1>8, <1>9, <1>10, <1>11 DEF Facts, Works, JobIds

(* Counting: what is undone stays within the deaths and the commands at work,   *)
(* if a line comes with its command and goes with it                            *)
LEMMA Counting ==
  ASSUME NEW U, NEW A, NEW c \in Nat, IsFiniteSet(U), IsFiniteSet(A), Cardinality(U) <= c + Cardinality(A), NEW V
  PROVE  /\ V \subseteq U => Cardinality(V) <= c + Cardinality(A)
         /\ \A x : V \subseteq U => /\ IsFiniteSet(A \ {x})
                                  /\ Cardinality(V) <= (c + 1) + Cardinality(A \ {x})
         /\ \A x, y : V \subseteq U \cup {y} /\ x \notin A =>
              IsFiniteSet(A \cup {x}) /\ Cardinality(V) <= c + Cardinality(A \cup {x})
         /\ \A x, y : V \subseteq U \ {y} /\ y \in U =>
              IsFiniteSet(A \ {x}) /\ Cardinality(V) <= c + Cardinality(A \ {x})
<1>1. Cardinality(U) \in Nat /\ Cardinality(A) \in Nat  BY FS_CardinalityType
<1>2. \A x : /\ IsFiniteSet(A \ {x})
             /\ Cardinality(A \ {x}) = IF x \in A THEN Cardinality(A) - 1 ELSE Cardinality(A)
  BY FS_RemoveElement
<1>3. \A x : /\ IsFiniteSet(A \cup {x})
             /\ Cardinality(A \cup {x}) = IF x \in A THEN Cardinality(A) ELSE Cardinality(A) + 1
  BY FS_AddElement
<1>4. \A y : /\ IsFiniteSet(U \ {y})
             /\ Cardinality(U \ {y}) = IF y \in U THEN Cardinality(U) - 1 ELSE Cardinality(U)
  BY FS_RemoveElement
<1>5. \A y : /\ IsFiniteSet(U \cup {y})
             /\ Cardinality(U \cup {y}) = IF y \in U THEN Cardinality(U) ELSE Cardinality(U) + 1
  BY FS_AddElement
<1>6. \A S : IsFiniteSet(S) /\ V \subseteq S => Cardinality(V) \in Nat /\ Cardinality(V) <= Cardinality(S)
  BY FS_Subset, FS_CardinalityType
<1>7. ASSUME V \subseteq U PROVE Cardinality(V) \in Nat /\ Cardinality(V) <= Cardinality(U)
  BY <1>6, <1>7
<1>8. V \subseteq U => Cardinality(V) <= c + Cardinality(A)
  BY <1>1, <1>7
<1>9. ASSUME NEW x, V \subseteq U
      PROVE  IsFiniteSet(A \ {x}) /\ Cardinality(V) <= (c + 1) + Cardinality(A \ {x})
  <2>1. IsFiniteSet(A \ {x}) /\ Cardinality(A \ {x}) \in {Cardinality(A) - 1, Cardinality(A)}  BY <1>2
  <2>. QED  BY <1>1, <1>7, <1>9, <2>1
<1>10. ASSUME NEW x, NEW y, V \subseteq U \cup {y}, x \notin A
       PROVE  IsFiniteSet(A \cup {x}) /\ Cardinality(V) <= c + Cardinality(A \cup {x})
  <2>1. IsFiniteSet(A \cup {x}) /\ Cardinality(A \cup {x}) = Cardinality(A) + 1  BY <1>3, <1>10
  <2>2. IsFiniteSet(U \cup {y}) /\ Cardinality(U \cup {y}) \in {Cardinality(U), Cardinality(U) + 1}  BY <1>5
  <2>3. Cardinality(V) \in Nat /\ Cardinality(V) <= Cardinality(U \cup {y})  BY <1>6, <1>10, <2>2
  <2>. QED  BY <1>1, <2>1, <2>2, <2>3
<1>11. ASSUME NEW x, NEW y, V \subseteq U \ {y}, y \in U
       PROVE  IsFiniteSet(A \ {x}) /\ Cardinality(V) <= c + Cardinality(A \ {x})
  <2>1. IsFiniteSet(A \ {x}) /\ Cardinality(A \ {x}) \in {Cardinality(A) - 1, Cardinality(A)}  BY <1>2
  <2>2. IsFiniteSet(U \ {y}) /\ Cardinality(U \ {y}) = Cardinality(U) - 1  BY <1>4, <1>11
  <2>3. Cardinality(V) \in Nat /\ Cardinality(V) <= Cardinality(U \ {y})  BY <1>6, <1>11, <2>2
  <2>. QED  BY <1>1, <2>1, <2>2, <2>3
<1>. QED  BY <1>8, <1>9, <1>10, <1>11

(* One command moves on: who has announced a job *)
LEMMA AnnouncingMoves ==
  ASSUME Facts, NEW p \in Procs, NEW pc, NEW op, NEW req, NEW got,
         proc' = [proc EXCEPT ![p] = Job(pc, op, req, got)]
  PROVE  Announcing' = IF Announced(Job(pc, op, req, got)) THEN Announcing \cup {p} ELSE Announcing \ {p}
<1>1. proc'[p] = Job(pc, op, req, got) /\ \A q \in Procs : q # p => proc'[q] = proc[q]
  BY DEF Facts, Shape
<1>2. Announcing' = {q \in Procs : Announced(proc'[q])}  BY DEF Announcing, Announced
<1>3. CASE Announced(Job(pc, op, req, got))
  <2>1. \A q \in Procs : Announced(proc'[q]) <=> q = p \/ Announced(proc[q])  BY <1>1, <1>3
  <2>. QED  BY <1>2, <1>3, <2>1 DEF Announcing
<1>4. CASE ~Announced(Job(pc, op, req, got))
  <2>1. \A q \in Procs : Announced(proc'[q]) <=> q # p /\ Announced(proc[q])  BY <1>1, <1>4
  <2>. QED  BY <1>2, <1>4, <2>1 DEF Announcing
<1>. QED  BY <1>3, <1>4

(* A log is finite *)
LEMMA UndoneFinite ==
  ASSUME IsSeq(log)
  PROVE  IsFiniteSet(Undone)
<1>1. DOMAIN log = 1 .. Len(log) /\ Len(log) \in Nat  BY DEF IsSeq
<1>2. IsFiniteSet(1 .. Len(log))  BY <1>1, FS_Interval
<1>3. Undone \subseteq 1 .. Len(log)  BY <1>1 DEF Undone
<1>. QED  BY <1>2, <1>3, FS_Subset

NoJobLine == \A e \in DOMAIN log' : log'[e].kind = "job" => e \in DOMAIN log

(* No event is announced, no file is written: only a death counts *)
LEMMA CountStays ==
  ASSUME Facts, Counted, NEW p \in Procs, NEW pc, NEW op, NEW req, NEW got,
         proc' = [proc EXCEPT ![p] = Job(pc, op, req, got)],
         LogGrows, NoJobLine, UNCHANGED jobs,
         \/ crashes' = crashes /\ (Announced(proc[p]) <=> Announced(Job(pc, op, req, got)))
         \/ crashes' = crashes + 1 /\ ~Announced(Job(pc, op, req, got))
  PROVE  Counted'
<1>1. Undone' \subseteq Undone
  BY LinesStay DEF Facts, Undone, NoJobLine
<1>2. IsFiniteSet(Undone)  BY UndoneFinite DEF Facts
<1>3. crashes \in Nat /\ crashes' \in Nat  BY DEF Counted
<1>4. \/ Announcing' = Announcing /\ crashes' = crashes
      \/ Announcing' = Announcing \ {p} /\ crashes' = crashes + 1
  <2>1. CASE crashes' = crashes + 1 /\ ~Announced(Job(pc, op, req, got))
    BY <2>1, AnnouncingMoves
  <2>2. CASE crashes' = crashes /\ (Announced(proc[p]) <=> Announced(Job(pc, op, req, got)))
    <3>1. p \in Announcing <=> Announced(Job(pc, op, req, got))  BY <2>2 DEF Announcing
    <3>2. Announcing' = Announcing
      <4>1. CASE Announced(Job(pc, op, req, got))
        <5>1. Announcing' = Announcing \cup {p}  BY <4>1, AnnouncingMoves
        <5>. QED  BY <3>1, <4>1, <5>1
      <4>2. CASE ~Announced(Job(pc, op, req, got))
        <5>1. Announcing' = Announcing \ {p}  BY <4>2, AnnouncingMoves
        <5>. QED  BY <3>1, <4>2, <5>1
      <4>. QED  BY <4>1, <4>2
    <3>. QED  BY <2>2, <3>2
  <2>. QED  BY <2>1, <2>2
<1>5. IsFiniteSet(Announcing') /\ Cardinality(Undone') <= crashes' + Cardinality(Announcing')
  <2>1. PICK A : A = Announcing  OBVIOUS
  <2>2. PICK U : U = Undone  OBVIOUS
  <2>3. PICK c : c = crashes  OBVIOUS
  <2>4. IsFiniteSet(U) /\ IsFiniteSet(A) /\ Cardinality(U) <= c + Cardinality(A) /\ c \in Nat
    BY <1>2, <2>1, <2>2, <2>3 DEF Counted
  <2>5. PICK V : V = Undone'  OBVIOUS
  <2>6. V \subseteq U  BY <1>1, <2>2, <2>5
  <2>7. CASE Announcing' = Announcing /\ crashes' = crashes
    <3>1. Cardinality(V) <= c + Cardinality(A)  BY <2>4, <2>6, Counting
    <3>. QED  BY <2>1, <2>3, <2>4, <2>5, <2>7, <3>1
  <2>8. CASE Announcing' = Announcing \ {p} /\ crashes' = crashes + 1
    <3>1. IsFiniteSet(A \ {p}) /\ Cardinality(V) <= (c + 1) + Cardinality(A \ {p})  BY <2>4, <2>6, Counting
    <3>. QED  BY <2>1, <2>3, <2>5, <2>8, <3>1
  <2>. QED  BY <1>4, <2>7, <2>8
<1>. QED  BY <1>3, <1>5 DEF Counted

(* A new answer is in the hands of a command that moves on with it *)
TakesAnswers(pc, got) ==
  \A i \in DOMAIN calls' : calls'[i].answered /\ calls'[i].wish # {} =>
    \/ i \in DOMAIN calls /\ calls[i].answered /\ calls[i].wish # {}
    \/ pc = "keep" /\ got.text = i

(* A text is let go by its command when a line has it, or by a death *)
LetsGo(p, pc, got) ==
  proc[p].pc = "keep" =>
    \/ pc = "keep" /\ got.text = proc[p].got.text
    \/ \E e \in DOMAIN log' : log'[e].kind \in {"artifact", "output"} /\ log'[e].data = proc[p].got.text
    \/ crashes' = crashes + 1

(* Without a new call or answer there is none to take *)
LEMMA NoNewAnswer ==
  ASSUME UNCHANGED calls
  PROVE  \A pc, got : TakesAnswers(pc, got)
BY DEF TakesAnswers

(* Only a command that dies while it holds a text can lose one *)
LEMMA LostMove ==
  ASSUME Facts, crashes \in Nat, Cardinality(Lost) <= crashes,
         calls \in Seq(CallRecord), NEW p \in Procs, NEW pc, NEW op, NEW req, NEW got,
         proc' = [proc EXCEPT ![p] = Job(pc, op, req, got)],
         LogGrows, crashes' \in {crashes, crashes + 1},
         TakesAnswers(pc, got), LetsGo(p, pc, got)
  PROVE  Cardinality(Lost') <= crashes'
<1>1. proc'[p] = Job(pc, op, req, got) /\ \A q \in Procs : q # p => proc'[q] = proc[q]
  BY DEF Facts, Shape
<1>2. Job(pc, op, req, got).pc = pc /\ Job(pc, op, req, got).got = got  BY DEF Job
<1>3. \A e \in DOMAIN log : e \in DOMAIN log' /\ log'[e] = log[e]  BY LinesStay DEF Facts
<1>4. ASSUME NEW i \in Lost'
      PROVE  i \in Lost \/ (crashes' = crashes + 1 /\ i = proc[p].got.text)
  <2>1. /\ i \in DOMAIN calls' /\ calls'[i].answered /\ calls'[i].wish # {}
        /\ \A e \in DOMAIN log' : log'[e].kind \in {"artifact", "output"} => log'[e].data # i
        /\ \A q \in Procs : proc'[q].pc = "keep" => proc'[q].got.text # i
    BY DEF Lost
  <2>2. ~(pc = "keep" /\ got.text = i)  BY <1>1, <1>2, <2>1
  <2>3. i \in DOMAIN calls /\ calls[i].answered /\ calls[i].wish # {}  BY <2>1, <2>2 DEF TakesAnswers
  <2>4. \A e \in DOMAIN log : log[e].kind \in {"artifact", "output"} => log[e].data # i  BY <1>3, <2>1
  <2>5. \A q \in Procs : q # p /\ proc[q].pc = "keep" => proc[q].got.text # i  BY <1>1, <2>1
  <2>6. CASE proc[p].pc = "keep" /\ proc[p].got.text = i
    BY <2>1, <2>2, <2>6 DEF LetsGo
  <2>7. CASE ~(proc[p].pc = "keep" /\ proc[p].got.text = i)
    BY <2>3, <2>4, <2>5, <2>7 DEF Lost
  <2>. QED  BY <2>6, <2>7
<1>5. IsFiniteSet(Lost) /\ Cardinality(Lost) \in Nat
  <2>1. DOMAIN calls = 1 .. Len(calls) /\ Len(calls) \in Nat  OBVIOUS
  <2>2. IsFiniteSet(1 .. Len(calls))  BY <2>1, FS_Interval
  <2>3. Lost \subseteq 1 .. Len(calls)  BY <2>1 DEF Lost
  <2>. QED  BY <2>2, <2>3, FS_Subset, FS_CardinalityType
<1>6. CASE crashes' = crashes
  <2>1. crashes' # crashes + 1  BY <1>6
  <2>2. Lost' \subseteq Lost  BY <1>4, <2>1
  <2>3. Cardinality(Lost') \in Nat /\ Cardinality(Lost') <= Cardinality(Lost)
    BY <1>5, <2>2, FS_Subset, FS_CardinalityType
  <2>. QED  BY <1>5, <1>6, <2>3
<1>7. CASE crashes' = crashes + 1
  <2>1. Lost' \subseteq Lost \cup {proc[p].got.text}  BY <1>4
  <2>2. /\ IsFiniteSet(Lost \cup {proc[p].got.text})
        /\ Cardinality(Lost \cup {proc[p].got.text}) \in Nat
        /\ Cardinality(Lost \cup {proc[p].got.text}) <= Cardinality(Lost) + 1
    <3>1. \A S, x : IsFiniteSet(S) => /\ IsFiniteSet(S \cup {x})
                                     /\ Cardinality(S \cup {x}) \in {Cardinality(S), Cardinality(S) + 1}
      BY FS_AddElement
    <3>2. PICK L : L = Lost  OBVIOUS
    <3>3. PICK x : x = proc[p].got.text  OBVIOUS
    <3>4. IsFiniteSet(L \cup {x}) /\ Cardinality(L \cup {x}) \in {Cardinality(L), Cardinality(L) + 1}
      BY <1>5, <3>1, <3>2
    <3>. QED  BY <1>5, <3>2, <3>3, <3>4
  <2>3. Cardinality(Lost') \in Nat /\ Cardinality(Lost') <= Cardinality(Lost \cup {proc[p].got.text})
    BY <2>1, <2>2, FS_Subset, FS_CardinalityType
  <2>. QED  BY <1>5, <1>7, <2>2, <2>3
<1>. QED  BY <1>6, <1>7

----------------------------------------------------------------------------
(* The steps that keep a result                                              *)

(* A command moves on without touching a file of a job or announcing one *)
LEMMA TextMove ==
  ASSUME ResultInv, Inv, NEW p \in Procs, NEW pc, NEW op, NEW req, NEW got,
         proc' = [proc EXCEPT ![p] = Job(pc, op, req, got)],
         LogGrows, NoJobLine, UNCHANGED jobs, CallsGrow,
         HoldsIn(log', calls', jobs', Job(pc, op, req, got)),
         Works(Job(pc, op, req, got)) =>
           \A q \in Procs : q # p /\ Works(proc[q]) => proc[q].got.job # got.job,
         \/ crashes' = crashes /\ (Announced(proc[p]) <=> Announced(Job(pc, op, req, got)))
         \/ crashes' = crashes + 1 /\ ~Announced(Job(pc, op, req, got)),
         TakesAnswers(pc, got), LetsGo(p, pc, got)
  PROVE  ResultInv'
<1>1. Facts /\ Counted /\ Cardinality(Lost) <= crashes /\ crashes \in Nat /\ calls \in Seq(CallRecord)
  BY DEF ResultInv, Counted, Inv, CallsLogged
<1>2. JobLinesKnown  BY DEF NoJobLine, JobLinesKnown
<1>3. Facts'  BY <1>1, <1>2, FactsMove
<1>4. Counted'  BY <1>1, CountStays
<1>5. Cardinality(Lost') <= crashes'
  <2>1. crashes' \in {crashes, crashes + 1}  OBVIOUS
  <2>. QED  BY <1>1, <2>1, LostMove
<1>. QED  BY <1>3, <1>4, <1>5 DEF ResultInv

(* ... or without having to do with results at all *)
LEMMA Aside ==
  ASSUME ResultInv, Inv, NEW p \in Procs, NEW pc, NEW op, NEW req, NEW got,
         pc \notin {"answer", "keep", "event", "truncate_job", "file"},
         proc[p].pc \notin {"keep", "event", "truncate_job", "file"},
         proc' = [proc EXCEPT ![p] = Job(pc, op, req, got)],
         LogGrows, NoJobLine, UNCHANGED <<jobs, calls, crashes>>
  PROVE  ResultInv'
<1>1. Job(pc, op, req, got).pc = pc  BY DEF Job
<1>2. ~Works(Job(pc, op, req, got)) /\ ~Announced(Job(pc, op, req, got)) /\ ~Announced(proc[p])
  BY <1>1 DEF Works, Announced
<1>3. HoldsIn(log', calls', jobs', Job(pc, op, req, got))
  BY <1>1, <1>2 DEF HoldsIn
<1>4. CallsGrow  BY DEF CallsGrow
<1>5. TakesAnswers(pc, got) /\ LetsGo(p, pc, got)  BY NoNewAnswer DEF LetsGo
<1>. QED  BY <1>2, <1>3, <1>4, <1>5, TextMove

(* A command with an empty log entry or none, that stays idle *)
LEMMA StaysIdle ==
  ASSUME ResultInv, Inv, NEW p \in Procs, proc[p] = Idle, UNCHANGED proc,
         LogGrows, NoJobLine, UNCHANGED <<jobs, calls, crashes>>
  PROVE  ResultInv'
<1>1. proc' = [proc EXCEPT ![p] = Job("idle", "none", <<>>, <<>>)]
  BY DEF Idle, ResultInv, Facts, Shape
<1>2. proc[p].pc = "idle"  BY DEF Idle, Job
<1>. QED  BY <1>1, <1>2, Aside

(* What an append adds *)
LEMMA NewLine ==
  ASSUME IsSeq(log), NEW kind, NEW data, AddEvent(kind, data)
  PROVE  /\ LogGrows /\ DOMAIN log' = DOMAIN log \cup {Len(log) + 1}
         /\ log'[Len(log) + 1] = Entry(kind, data) /\ Len(log) + 1 \notin DOMAIN log
         /\ \A i \in DOMAIN log : i < Len(log) + 1 /\ log'[i] = log[i]
         /\ kind # "job" => NoJobLine
<1>1. log' = Append(log, Entry(kind, data))  BY DEF AddEvent
<1>2. LogGrows  BY <1>1 DEF LogGrows
<1>3. /\ Len(log) \in Nat /\ DOMAIN log = 1 .. Len(log) /\ DOMAIN log' = 1 .. (Len(log) + 1)
      /\ \A i \in 1 .. Len(log) : log'[i] = log[i]
      /\ log'[Len(log) + 1] = Entry(kind, data)
  BY <1>1, Appending
<1>4. Entry(kind, data).kind = kind  BY DEF Entry
<1>5. DOMAIN log' = DOMAIN log \cup {Len(log) + 1}  BY <1>3
<1>6. kind # "job" => NoJobLine  BY <1>3, <1>4, <1>5 DEF NoJobLine
<1>. QED  BY <1>2, <1>3, <1>5, <1>6

(* A text of no provider, and one of a call, are told apart *)
LEMMA ResultIsResult ==
  /\ IsResult(Result(0, FALSE))
  /\ \A text \in Nat : text > 0 => IsResult(Result(text, TRUE))
BY DEF IsResult, Result, Honest

(* After a wish is done, the command ends or keeps the same text on *)
LEMMA KeptMoves ==
  ASSUME NEW p \in Procs, NEW what, Kept(p, what)
  PROVE  \/ proc' = [proc EXCEPT ![p] = Job("idle", "none", <<>>, <<>>)]
         \/ \E req : proc' = [proc EXCEPT ![p] = Job("keep", proc[p].op, req, proc[p].got)]
BY EndIsJob DEF Kept

(* A death loses what its command held, once *)
LEMMA CrashResult ==
  ASSUME ResultInv, Inv, NEW p \in Procs, Crash(p)
  PROVE  ResultInv'
<1>1. /\ proc' = [proc EXCEPT ![p] = Job("idle", "none", <<>>, <<>>)] /\ crashes' = crashes + 1
      /\ UNCHANGED <<log, jobs, calls>>
  BY EndIsJob DEF Crash
<1>2. Job("idle", "none", <<>>, <<>>).pc = "idle"  BY DEF Job
<1>3. HoldsIn(log', calls', jobs', Job("idle", "none", <<>>, <<>>))
  BY <1>2 DEF HoldsIn, Works, Announced
<1>4. LogGrows /\ NoJobLine /\ CallsGrow  BY <1>1 DEF LogGrows, NoJobLine, CallsGrow
<1>5. ~Works(Job("idle", "none", <<>>, <<>>)) /\ ~Announced(Job("idle", "none", <<>>, <<>>))
  BY <1>2 DEF Works, Announced
<1>6. /\ TakesAnswers("idle", <<>>) /\ LetsGo(p, "idle", <<>>)
  BY <1>1, NoNewAnswer DEF LetsGo
<1>. QED  BY <1>1, <1>3, <1>4, <1>5, <1>6, TextMove

(* A local answer is nobody's call *)
LEMMA ReadConfigResult ==
  ASSUME ResultInv, Inv, NEW p \in Procs, ReadConfig(p)
  PROVE  ResultInv'
<1>1. proc[p].pc = "config" /\ UNCHANGED <<log, jobs, calls, crashes>>  BY DEF ReadConfig
<1>2. LogGrows /\ NoJobLine /\ CallsGrow  BY <1>1 DEF LogGrows, NoJobLine, CallsGrow
<1>3. CASE End(p)
  <2>1. proc' = [proc EXCEPT ![p] = Job("idle", "none", <<>>, <<>>)]  BY <1>3, EndIsJob
  <2>. QED  BY <1>1, <1>2, <2>1, Aside
<1>4. CASE Go(p, "send", <<>>)
  <2>1. proc' = [proc EXCEPT ![p] = Job("send", proc[p].op, proc[p].req, <<>>)]  BY <1>4 DEF Go
  <2>. QED  BY <1>1, <1>2, <2>1, Aside
<1>5. CASE Go(p, "keep", Result(0, FALSE))
  <2> DEFINE job == Job("keep", proc[p].op, proc[p].req, Result(0, FALSE))
  <2>1. proc' = [proc EXCEPT ![p] = job]  BY <1>5 DEF Go
  <2>2. job.pc = "keep" /\ job.got = Result(0, FALSE)  BY DEF Job
  <2>3. ~Works(job) /\ ~Announced(job) /\ ~Announced(proc[p])  BY <1>1, <2>2 DEF Works, Announced
  <2>4. HoldsIn(log', calls', jobs', job)  BY <2>2, <2>3, ResultIsResult DEF HoldsIn
  <2>5. TakesAnswers("keep", Result(0, FALSE)) /\ LetsGo(p, "keep", Result(0, FALSE))
    BY <1>1, NoNewAnswer DEF LetsGo
  <2>. QED  BY <1>1, <1>2, <2>1, <2>3, <2>4, <2>5, TextMove
<1>. QED  BY <1>3, <1>4, <1>5 DEF ReadConfig, Keep

(* The call is on its way, and its command knows what was wished *)
LEMMA SendResult ==
  ASSUME ResultInv, Inv, NEW p \in Procs, Send(p)
  PROVE  ResultInv'
<1> DEFINE req == proc[p].req
           call == [refs |-> (req.r.refs /\ proc[p].op # "summarize"), answered |-> FALSE,
                    from |-> req.from, at |-> Len(past), wish |-> req.wish]
           job == Job("answer", proc[p].op, req, Len(calls) + 1)
<1>1. /\ proc[p].pc = "send" /\ calls' = Append(calls, call)
      /\ UNCHANGED <<log, jobs, crashes>> /\ proc' = [proc EXCEPT ![p] = job]
  BY DEF Send, Go
<1>2. IsSeq(calls)  BY DEF Inv, CallsLogged, IsSeq
<1>3. call.answered = FALSE /\ call.wish = req.wish  OBVIOUS
<1>4. job.pc = "answer" /\ job.got = Len(calls) + 1 /\ job.req = req  BY DEF Job
<1> HIDE DEF call, job
<1>5. /\ DOMAIN calls = 1 .. Len(calls) /\ DOMAIN calls' = 1 .. (Len(calls) + 1) /\ Len(calls) \in Nat
      /\ \A i \in 1 .. Len(calls) : calls'[i] = calls[i]
      /\ calls'[Len(calls) + 1] = call
  BY <1>1, <1>2, Appending
<1>6. CallsGrow /\ LogGrows /\ NoJobLine  BY <1>1, <1>5 DEF CallsGrow, LogGrows, NoJobLine
<1>7. ~Works(job) /\ ~Announced(job) /\ ~Announced(proc[p])  BY <1>1, <1>4 DEF Works, Announced
<1>8. HoldsIn(log', calls', jobs', job)
  <2>1. Len(calls) + 1 \in DOMAIN calls' /\ calls'[Len(calls) + 1].wish = req.wish  BY <1>3, <1>5
  <2>. QED  BY <1>4, <1>7, <2>1 DEF HoldsIn
<1>9. \A i \in DOMAIN calls' : calls'[i].answered /\ calls'[i].wish # {} =>
        i \in DOMAIN calls /\ calls[i].answered /\ calls[i].wish # {}
  <2>. SUFFICES ASSUME NEW i \in DOMAIN calls', calls'[i].answered, calls'[i].wish # {}
       PROVE  i \in DOMAIN calls /\ calls[i].answered /\ calls[i].wish # {}
    OBVIOUS
  <2>1. i # Len(calls) + 1  BY <1>3, <1>5
  <2>2. i \in DOMAIN calls /\ calls'[i] = calls[i]  BY <1>5, <2>1
  <2>. QED  BY <2>2
<1>10. TakesAnswers("answer", Len(calls) + 1) /\ LetsGo(p, "answer", Len(calls) + 1)
  BY <1>1, <1>9 DEF TakesAnswers, LetsGo
<1>. QED  BY <1>1, <1>6, <1>7, <1>8, <1>10, TextMove DEF job

(* An answer that is wanted is in the hands of its command *)
LEMMA ReceiveResult ==
  ASSUME ResultInv, Inv, NEW p \in Procs, Receive(p)
  PROVE  ResultInv'
<1>1. proc[p].pc = "answer" /\ UNCHANGED <<log, jobs, crashes>>  BY DEF Receive
<1>2. LogGrows /\ NoJobLine  BY <1>1 DEF LogGrows, NoJobLine
<1>3. CASE End(p) /\ UNCHANGED calls
  <2>1. proc' = [proc EXCEPT ![p] = Job("idle", "none", <<>>, <<>>)]  BY <1>3, EndIsJob
  <2>. QED  BY <1>1, <1>2, <1>3, <2>1, Aside
<1>4. CASE calls' = [calls EXCEPT ![proc[p].got].answered = TRUE] /\ Keep(p, proc[p].got, TRUE)
  <2>1. PICK g : g = proc[p].got  OBVIOUS
  <2>2. g \in DOMAIN calls /\ calls[g].wish = proc[p].req.wish
    BY <1>1, <2>1 DEF ResultInv, Facts, HoldsIn
  <2>3. calls' = [calls EXCEPT ![g].answered = TRUE]  BY <1>4, <2>1
  <2>4. g \in Nat /\ g > 0 /\ DOMAIN calls' = DOMAIN calls
    BY <2>2, <2>3 DEF Inv, CallsLogged
  <2>5. \A i \in DOMAIN calls : /\ calls'[i].wish = calls[i].wish
                                /\ i # g => calls'[i] = calls[i]
    <3>1. \A i \in DOMAIN calls : calls[i] \in CallRecord  BY CallTypes DEF Inv
    <3>2. \A i \in DOMAIN calls : i # g => calls'[i] = calls[i]  BY <2>3
    <3>3. calls'[g] = [calls[g] EXCEPT !.answered = TRUE]  BY <2>2, <2>3
    <3>4. calls'[g].wish = calls[g].wish  BY <2>2, <3>1, <3>3 DEF CallRecord
    <3>. QED  BY <3>2, <3>4
  <2>6. CallsGrow  BY <2>4, <2>5 DEF CallsGrow
  <2>7. CASE proc[p].req.wish = {}
    <3>1. proc' = [proc EXCEPT ![p] = Job("idle", "none", <<>>, <<>>)]  BY <1>4, <2>7, EndIsJob DEF Keep
    <3>2. Job("idle", "none", <<>>, <<>>).pc = "idle"  BY DEF Job
    <3>3. ~Works(Job("idle", "none", <<>>, <<>>)) /\ ~Announced(Job("idle", "none", <<>>, <<>>)) /\ ~Announced(proc[p])
      BY <1>1, <3>2 DEF Works, Announced
    <3>4. HoldsIn(log', calls', jobs', Job("idle", "none", <<>>, <<>>))
      BY <3>2, <3>3 DEF HoldsIn
    <3>5. \A i \in DOMAIN calls' : calls'[i].answered /\ calls'[i].wish # {} =>
            i \in DOMAIN calls /\ calls[i].answered /\ calls[i].wish # {}
      <4>. SUFFICES ASSUME NEW i \in DOMAIN calls', calls'[i].answered, calls'[i].wish # {}
           PROVE  i \in DOMAIN calls /\ calls[i].answered /\ calls[i].wish # {}
        OBVIOUS
      <4>1. i # g  BY <2>2, <2>5, <2>7
      <4>. QED  BY <2>4, <2>5, <4>1
    <3>6. TakesAnswers("idle", <<>>) /\ LetsGo(p, "idle", <<>>)
      BY <1>1, <3>5 DEF TakesAnswers, LetsGo
    <3>. QED  BY <1>1, <1>2, <2>6, <3>1, <3>3, <3>4, <3>6, TextMove
  <2>8. CASE proc[p].req.wish # {}
    <3> DEFINE job == Job("keep", proc[p].op, proc[p].req, Result(g, TRUE))
    <3>1. proc' = [proc EXCEPT ![p] = job]  BY <1>4, <2>1, <2>8 DEF Keep, Go
    <3>2. job.pc = "keep" /\ job.got = Result(g, TRUE)  BY DEF Job
    <3>3. ~Works(job) /\ ~Announced(job) /\ ~Announced(proc[p])  BY <1>1, <3>2 DEF Works, Announced
    <3>4. HoldsIn(log', calls', jobs', job)  BY <2>4, <3>2, <3>3, ResultIsResult DEF HoldsIn
    <3>5. Result(g, TRUE).text = g  BY DEF Result
    <3>6. \A i \in DOMAIN calls' : calls'[i].answered /\ calls'[i].wish # {} =>
            \/ i \in DOMAIN calls /\ calls[i].answered /\ calls[i].wish # {}
            \/ Result(g, TRUE).text = i
      <4>. SUFFICES ASSUME NEW i \in DOMAIN calls', calls'[i].answered, calls'[i].wish # {}, i # g
           PROVE  i \in DOMAIN calls /\ calls[i].answered /\ calls[i].wish # {}
        BY <3>5
      <4>. QED  BY <2>4, <2>5
    <3>7. crashes' = crashes /\ (Announced(proc[p]) <=> Announced(job))  BY <1>1, <3>3
    <3>8. TakesAnswers("keep", Result(g, TRUE)) /\ LetsGo(p, "keep", Result(g, TRUE))
      BY <1>1, <3>6 DEF TakesAnswers, LetsGo
    <3> HIDE DEF job
    <3>. QED  BY <1>1, <1>2, <2>6, <3>1, <3>3, <3>4, <3>7, <3>8, TextMove DEF job
  <2>. QED  BY <2>7, <2>8
<1>. QED  BY <1>3, <1>4 DEF Receive

(* A draft made by hand holds no text of a provider *)
LEMMA BeginDraftResult ==
  ASSUME ResultInv, Inv, NEW p \in Procs, BeginDraft(p)
  PROVE  ResultInv'
<1>1. proc[p] = Idle /\ UNCHANGED <<log, jobs, calls, crashes>>  BY DEF BeginDraft
<1>2. PICK refs : proc' = [proc EXCEPT ![p] = Job("keep", "draft", ManualDraft(refs), Result(0, FALSE))]
  BY DEF BeginDraft
<1> DEFINE job == Job("keep", "draft", ManualDraft(refs), Result(0, FALSE))
<1>3. job.pc = "keep" /\ job.got = Result(0, FALSE) /\ proc[p].pc = "idle"  BY <1>1 DEF Job, Idle
<1>4. LogGrows /\ NoJobLine /\ CallsGrow  BY <1>1 DEF LogGrows, NoJobLine, CallsGrow
<1>5. ~Works(job) /\ ~Announced(job) /\ ~Announced(proc[p])  BY <1>3 DEF Works, Announced
<1>6. HoldsIn(log', calls', jobs', job)  BY <1>3, <1>5, ResultIsResult DEF HoldsIn
<1>7. TakesAnswers("keep", Result(0, FALSE)) /\ LetsGo(p, "keep", Result(0, FALSE))
  BY <1>1, <1>3, NoNewAnswer DEF LetsGo
<1> HIDE DEF job
<1>. QED  BY <1>1, <1>2, <1>4, <1>5, <1>6, <1>7, TextMove DEF job

(* The artifact holds the text from now on, and the job is taken by nobody else *)
LEMMA DraftArtifactResult ==
  ASSUME ResultInv, Inv, NEW p \in Procs, DraftArtifact(p)
  PROVE  ResultInv'
<1>1. PICK j \in JobIds \ Taken :
        /\ Wished(p, "draft") /\ jobs[j] = Missing
        /\ \A e \in EventsOf("job") : log[e].data.job # j
        /\ AddEvent("artifact", proc[p].got.text)
        /\ Go(p, "event", [proc[p].got EXCEPT !.job = j, !.artifact = Len(log) + 1])
        /\ UNCHANGED <<mix, config, past, jobs, calls, crashes>>
  BY DEF DraftArtifact
<1>0. proc[p].pc = "keep"  BY <1>1 DEF Wished
<1>2. PICK g : g = proc[p].got  OBVIOUS
<1> DEFINE new == [g EXCEPT !.job = j, !.artifact = Len(log) + 1]
           job == Job("event", proc[p].op, proc[p].req, new)
<1>3. IsResult(g)  BY <1>0, <1>2 DEF ResultInv, Facts, HoldsIn
<1>4. /\ new.text = g.text /\ new.told = g.told /\ new.job = j /\ new.artifact = Len(log) + 1
      /\ IsResult(new)
  <2>1. g = [text |-> g.text, told |-> g.told, job |-> g.job, artifact |-> g.artifact, event |-> g.event]
    BY <1>3 DEF IsResult
  <2>2. new = [text |-> g.text, told |-> g.told, job |-> j, artifact |-> Len(log) + 1, event |-> g.event]
    <3>1. PICK h : h = [g EXCEPT !.job = j]  OBVIOUS
    <3>2. h = [text |-> g.text, told |-> g.told, job |-> j, artifact |-> g.artifact, event |-> g.event]
      BY <2>1, <3>1
    <3>3. [h EXCEPT !.artifact = Len(log) + 1]
            = [text |-> g.text, told |-> g.told, job |-> j, artifact |-> Len(log) + 1, event |-> g.event]
      BY <3>2
    <3>4. new = [h EXCEPT !.artifact = Len(log) + 1]  BY <3>1
    <3>. QED  BY <3>3, <3>4
  <2>3. Honest(g.text, g.told)  BY <1>3 DEF IsResult
  <2>4. IsResult([text |-> g.text, told |-> g.told, job |-> j, artifact |-> Len(log) + 1, event |-> g.event])
    BY <2>3 DEF IsResult
  <2>5. IsResult(new)  BY <2>2, <2>4, Zenon
  <2>6. new.text = g.text /\ new.told = g.told /\ new.job = j /\ new.artifact = Len(log) + 1
    BY <2>2
  <2>. QED  BY <2>5, <2>6
<1>5. proc' = [proc EXCEPT ![p] = job]  BY <1>1, <1>2 DEF Go
<1>6. job.pc = "event" /\ job.got = new  BY DEF Job
<1> HIDE DEF new, job
<1>7. /\ LogGrows /\ NoJobLine /\ Len(log) + 1 \in DOMAIN log'
      /\ log'[Len(log) + 1] = Entry("artifact", g.text)
  BY <1>1, <1>2, NewLine DEF ResultInv, Facts
<1>8. CallsGrow  BY <1>1 DEF CallsGrow
<1>9. ~Announced(job) /\ ~Announced(proc[p]) /\ Works(job)  BY <1>0, <1>6 DEF Works, Announced
<1>10. HoldsIn(log', calls', jobs', job)
  <2>1. j \in JobIds /\ jobs'[j].state # "whole"  BY <1>1 DEF Missing
  <2>2. HasArtifact(log', new.artifact, new.text)  BY <1>4, <1>7 DEF HasArtifact
  <2>. QED  BY <1>4, <1>6, <1>9, <2>1, <2>2 DEF HoldsIn
<1>11. \A q \in Procs : q # p /\ Works(proc[q]) => proc[q].got.job # new.job
  BY <1>1, <1>4 DEF Taken, Works
<1>12. TakesAnswers("event", new) /\ LetsGo(p, "event", new)
  <2>1. log'[Len(log) + 1].kind = "artifact" /\ log'[Len(log) + 1].data = proc[p].got.text
    BY <1>2, <1>7 DEF Entry
  <2>. QED  BY <1>1, <1>7, <2>1, NoNewAnswer DEF LetsGo
<1>. QED  BY <1>1, <1>5, <1>7, <1>8, <1>9, <1>10, <1>11, <1>12, TextMove DEF job

(* A command that has what it works on in the log *)
LEMMA WorkerHolds ==
  ASSUME Facts, NEW p \in Procs, Works(proc[p])
  PROVE  /\ IsResult(proc[p].got) /\ proc[p].got.job \in JobIds
         /\ jobs[proc[p].got.job].state # "whole"
         /\ HasArtifact(log, proc[p].got.artifact, proc[p].got.text)
         /\ Announced(proc[p]) => HasEvent(log, proc[p].got.event, proc[p].got.job, proc[p].got.artifact)
         /\ \A q \in Procs : q # p /\ Works(proc[q]) => proc[q].got.job # proc[p].got.job
BY DEF Facts, HoldsIn

(* One line and one command more are under way *)
LEMMA JobEventResult ==
  ASSUME ResultInv, Inv, NEW p \in Procs, JobEvent(p)
  PROVE  ResultInv'
<1>1. PICK g : g = proc[p].got  OBVIOUS
<1> DEFINE data == [job |-> g.job, artifact |-> g.artifact, told |-> FALSE]
           e == Len(log) + 1
           new == [g EXCEPT !.event = e]
           job == Job("truncate_job", proc[p].op, proc[p].req, new)
<1>2. /\ proc[p].pc = "event" /\ AddEvent("job", data) /\ proc' = [proc EXCEPT ![p] = job]
      /\ UNCHANGED <<jobs, calls, crashes>>
  BY <1>1 DEF JobEvent, Go
<1>3. Facts /\ Counted /\ Cardinality(Lost) <= crashes /\ crashes \in Nat /\ calls \in Seq(CallRecord)
  BY DEF ResultInv, Counted, Inv, CallsLogged
<1>4. Works(proc[p]) /\ ~Announced(proc[p])  BY <1>2 DEF Works, Announced
<1>5. /\ IsResult(g) /\ g.job \in JobIds /\ jobs[g.job].state # "whole"
      /\ HasArtifact(log, g.artifact, g.text)
      /\ \A q \in Procs : q # p /\ Works(proc[q]) => proc[q].got.job # g.job
  BY <1>1, <1>3, <1>4, WorkerHolds
<1>6. /\ new.text = g.text /\ new.told = g.told /\ new.job = g.job /\ new.artifact = g.artifact /\ new.event = e
      /\ IsResult(new)
  <2>1. g = [text |-> g.text, told |-> g.told, job |-> g.job, artifact |-> g.artifact, event |-> g.event]
    BY <1>5 DEF IsResult
  <2>2. new = [text |-> g.text, told |-> g.told, job |-> g.job, artifact |-> g.artifact, event |-> e]
    BY <2>1
  <2>. QED  BY <1>5, <2>2 DEF IsResult
<1>7. job.pc = "truncate_job" /\ job.got = new  BY DEF Job
<1>8. data.job = g.job /\ data.artifact = g.artifact  OBVIOUS
<1> HIDE DEF new, job, data
<1>9. /\ LogGrows /\ DOMAIN log' = DOMAIN log \cup {e} /\ log'[e] = Entry("job", data) /\ e \notin DOMAIN log
      /\ \A i \in DOMAIN log : i < e /\ log'[i] = log[i]
  BY <1>2, <1>3, NewLine DEF Facts
<1>10. log'[e].kind = "job" /\ log'[e].data = data  BY <1>9 DEF Entry
<1> HIDE DEF e
<1>11. CallsGrow  BY <1>2 DEF CallsGrow
<1>12. JobLinesKnown  BY <1>5, <1>8, <1>9, <1>10 DEF JobLinesKnown
<1>13. Works(job) /\ Announced(job)  BY <1>7 DEF Works, Announced
<1>14. HoldsIn(log', calls', jobs', job)
  <2>1. g.artifact \in DOMAIN log  BY <1>5 DEF HasArtifact
  <2>2. HasArtifact(log', new.artifact, new.text)  BY <1>5, <1>6, <1>9 DEF HasArtifact
  <2>3. HasEvent(log', new.event, new.job, new.artifact)
    BY <1>6, <1>8, <1>9, <1>10, <2>1 DEF HasEvent
  <2>. QED  BY <1>2, <1>5, <1>6, <1>7, <2>2, <2>3 DEF HoldsIn
<1>15. Facts'
  <2>1. \A q \in Procs : q # p /\ Works(proc[q]) => proc[q].got.job # new.job  BY <1>5, <1>6
  <2>. QED  BY <1>2, <1>3, <1>9, <1>11, <1>12, <1>14, <2>1, FactsMove DEF job
<1>16. Counted'
  <2>1. Undone' \subseteq Undone \cup {e}  BY <1>2, <1>9 DEF Undone
  <2>2. Announcing' = Announcing \cup {p} /\ p \notin Announcing
    <3>1. p \notin Announcing  BY <1>4 DEF Announcing
    <3>2. Announcing' = Announcing \cup {p}  BY <1>2, <1>3, <1>13, AnnouncingMoves DEF job
    <3>. QED  BY <3>1, <3>2
  <2>3. IsFiniteSet(Undone)  BY <1>3, UndoneFinite DEF Facts
  <2>4. PICK A : A = Announcing  OBVIOUS
  <2>5. PICK U : U = Undone  OBVIOUS
  <2>6. PICK c : c = crashes  OBVIOUS
  <2>7. PICK V : V = Undone'  OBVIOUS
  <2>8. PICK n : n = e  OBVIOUS
  <2>9. IsFiniteSet(U) /\ IsFiniteSet(A) /\ Cardinality(U) <= c + Cardinality(A) /\ c \in Nat
    BY <1>3, <2>3, <2>4, <2>5, <2>6 DEF Counted
  <2>10. V \subseteq U \cup {n} /\ p \notin A  BY <2>1, <2>2, <2>4, <2>5, <2>7, <2>8
  <2>11. IsFiniteSet(A \cup {p}) /\ Cardinality(V) <= c + Cardinality(A \cup {p})
    BY <2>9, <2>10, Counting
  <2>12. Announcing' = A \cup {p} /\ crashes' = c  BY <1>2, <2>2, <2>4, <2>6
  <2>. QED  BY <1>2, <1>3, <2>7, <2>11, <2>12 DEF Counted
<1>17. Cardinality(Lost') <= crashes'
  <2>1. TakesAnswers("truncate_job", new) /\ LetsGo(p, "truncate_job", new)
    BY <1>2, NoNewAnswer DEF LetsGo
  <2>. QED  BY <1>2, <1>3, <1>9, <2>1, LostMove DEF job
<1>. QED  BY <1>15, <1>16, <1>17 DEF ResultInv

(* The file of a job that is not whole is emptied *)
LEMMA TruncateJobResult ==
  ASSUME ResultInv, Inv, NEW p \in Procs, TruncateJob(p)
  PROVE  ResultInv'
<1> DEFINE got == proc[p].got
           job == Job("file", proc[p].op, proc[p].req, got)
<1>1. /\ proc[p].pc = "truncate_job" /\ jobs' = [jobs EXCEPT ![got.job] = Empty]
      /\ proc' = [proc EXCEPT ![p] = job] /\ UNCHANGED <<log, calls, crashes>>
  BY DEF TruncateJob, Go
<1>2. Facts /\ Counted /\ Cardinality(Lost) <= crashes /\ crashes \in Nat /\ calls \in Seq(CallRecord)
  BY DEF ResultInv, Counted, Inv, CallsLogged
<1>3. Works(proc[p]) /\ Announced(proc[p])  BY <1>1 DEF Works, Announced
<1>4. /\ IsResult(got) /\ got.job \in JobIds /\ jobs[got.job].state # "whole"
      /\ HasArtifact(log, got.artifact, got.text) /\ HasEvent(log, got.event, got.job, got.artifact)
      /\ \A q \in Procs : q # p /\ Works(proc[q]) => proc[q].got.job # got.job
  BY <1>2, <1>3, WorkerHolds
<1>5. job.pc = "file" /\ job.got = got  BY DEF Job
<1>6. Empty.state # "whole"  BY DEF Empty
<1>7. LogGrows /\ CallsGrow /\ JobLinesKnown  BY <1>1 DEF LogGrows, CallsGrow, JobLinesKnown
<1>8. \A k \in JobIds : jobs'[k] = IF k = got.job THEN Empty ELSE jobs[k]
  BY <1>1, <1>2 DEF Facts
<1> HIDE DEF job
<1>9. Works(job) /\ Announced(job)  BY <1>5 DEF Works, Announced
<1>10. HoldsIn(log', calls', jobs', job)
  <2>1. jobs'[got.job].state # "whole"  BY <1>4, <1>6, <1>8
  <2>. QED  BY <1>1, <1>4, <1>5, <2>1 DEF HoldsIn
<1>11. Facts'
  <2>1. \E file : /\ Works(proc[p]) /\ jobs' = [jobs EXCEPT ![proc[p].got.job] = file]
                  /\ file.state = "whole" => BackedIn(log', proc[p].got.job, file.holds)
    BY <1>1, <1>3, <1>6
  <2>. QED  BY <1>1, <1>2, <1>4, <1>7, <1>10, <2>1, FactsMove DEF job
<1>12. Counted'
  <2>1. Undone' = Undone
    <3>1. \A i \in DOMAIN log : log[i].kind = "job" => log[i].data.job \in JobIds  BY <1>2 DEF Facts
    <3>2. \A k \in JobIds : jobs'[k].state # "whole" <=> jobs[k].state # "whole"  BY <1>4, <1>6, <1>8
    <3>. QED  BY <1>1, <3>1, <3>2 DEF Undone
  <2>2. Announcing' = Announcing
    <3>1. p \in Announcing  BY <1>3 DEF Announcing
    <3>2. Announcing' = Announcing \cup {p}  BY <1>1, <1>2, <1>9, AnnouncingMoves DEF job
    <3>. QED  BY <3>1, <3>2
  <2>. QED  BY <1>1, <1>2, <2>1, <2>2 DEF Counted
<1>13. Cardinality(Lost') <= crashes'
  <2>1. TakesAnswers("file", got) /\ LetsGo(p, "file", got)
    BY <1>1, NoNewAnswer DEF LetsGo
  <2>. QED  BY <1>1, <1>2, <1>7, <2>1, LostMove DEF job
<1>. QED  BY <1>11, <1>12, <1>13 DEF ResultInv

(* The file says what the log says; the line is done with, and so is the work *)
LEMMA WriteJobResult ==
  ASSUME ResultInv, Inv, NEW p \in Procs, WriteJob(p)
  PROVE  ResultInv'
<1>1. PICK g : g = proc[p].got  OBVIOUS
<1> DEFINE file == [text |-> g.text, told |-> g.told, refs |-> proc[p].req.r.refs,
                    artifact |-> g.artifact, event |-> g.event]
<1>2. /\ proc[p].pc = "file" /\ Kept(p, "draft") /\ jobs' = [jobs EXCEPT ![g.job] = Holding(file)]
      /\ UNCHANGED <<log, calls, crashes>>
  BY <1>1 DEF WriteJob
<1>3. Facts /\ Counted /\ Cardinality(Lost) <= crashes /\ crashes \in Nat /\ calls \in Seq(CallRecord)
  BY DEF ResultInv, Counted, Inv, CallsLogged
<1>4. Works(proc[p]) /\ Announced(proc[p])  BY <1>2 DEF Works, Announced
<1>5. /\ IsResult(g) /\ g.job \in JobIds /\ jobs[g.job].state # "whole"
      /\ HasArtifact(log, g.artifact, g.text) /\ HasEvent(log, g.event, g.job, g.artifact)
  BY <1>1, <1>3, <1>4, WorkerHolds
<1>6. BackedIn(log', g.job, file)
  BY <1>2, <1>5 DEF BackedIn, IsResult
<1>7. Holding(file).state = "whole" /\ Holding(file).holds = file  BY DEF Holding
<1> HIDE DEF file
<1>8. LogGrows /\ CallsGrow /\ JobLinesKnown  BY <1>2 DEF LogGrows, CallsGrow, JobLinesKnown
<1>9. PICK pc \in {"idle", "keep"} : \E op, req, got :
        /\ proc' = [proc EXCEPT ![p] = Job(pc, op, req, got)]
        /\ pc = "keep" => got = g
  BY <1>1, <1>2, KeptMoves
<1>10. PICK op, req, got : /\ proc' = [proc EXCEPT ![p] = Job(pc, op, req, got)]
                           /\ pc = "keep" => got = g
  BY <1>9
<1> DEFINE job == Job(pc, op, req, got)
<1>11. job.pc = pc /\ job.got = got  BY DEF Job
<1> HIDE DEF job
<1>12. ~Works(job) /\ ~Announced(job)  BY <1>9, <1>11 DEF Works, Announced
<1>13. HoldsIn(log', calls', jobs', job)
  BY <1>5, <1>9, <1>10, <1>11, <1>12 DEF HoldsIn
<1>14. Facts'
  <2>1. \E kept : /\ Works(proc[p]) /\ jobs' = [jobs EXCEPT ![proc[p].got.job] = kept]
                  /\ kept.state = "whole" => BackedIn(log', proc[p].got.job, kept.holds)
    BY <1>1, <1>2, <1>4, <1>6, <1>7
  <2>. QED  BY <1>3, <1>8, <1>10, <1>12, <1>13, <2>1, FactsMove DEF job
<1>15. Counted'
  <2>1. Undone' \subseteq Undone \ {g.event} /\ g.event \in Undone
    <3>1. \A i \in DOMAIN log : log[i].kind = "job" => log[i].data.job \in JobIds  BY <1>3 DEF Facts
    <3>2. \A k \in JobIds : jobs'[k] = IF k = g.job THEN Holding(file) ELSE jobs[k]
      BY <1>2, <1>3 DEF Facts
    <3>3. g.event \in DOMAIN log /\ log[g.event].kind = "job" /\ log[g.event].data.job = g.job
      BY <1>5 DEF HasEvent
    <3>4. g.event \in Undone  BY <1>5, <3>3 DEF Undone
    <3>5. ASSUME NEW i \in Undone' PROVE i \in Undone /\ i # g.event
      <4>1. i \in DOMAIN log /\ log[i].kind = "job" /\ jobs'[log[i].data.job].state # "whole"
        BY <1>2 DEF Undone
      <4>2. log[i].data.job # g.job  BY <1>5, <1>7, <3>2, <4>1
      <4>3. jobs'[log[i].data.job] = jobs[log[i].data.job]  BY <3>1, <3>2, <4>1, <4>2
      <4>. QED  BY <3>3, <4>1, <4>2, <4>3 DEF Undone
    <3>. QED  BY <3>4, <3>5
  <2>2. Announcing' = Announcing \ {p}  BY <1>3, <1>10, <1>12, AnnouncingMoves DEF job
  <2>3. IsFiniteSet(Undone)  BY <1>3, UndoneFinite DEF Facts
  <2>4. PICK A : A = Announcing  OBVIOUS
  <2>5. PICK U : U = Undone  OBVIOUS
  <2>6. PICK c : c = crashes  OBVIOUS
  <2>7. PICK V : V = Undone'  OBVIOUS
  <2>8. IsFiniteSet(U) /\ IsFiniteSet(A) /\ Cardinality(U) <= c + Cardinality(A) /\ c \in Nat
    BY <1>3, <2>3, <2>4, <2>5, <2>6 DEF Counted
  <2>12. PICK e : e = g.event  OBVIOUS
  <2>9. V \subseteq U \ {e} /\ e \in U  BY <2>1, <2>5, <2>7, <2>12
  <2>10. IsFiniteSet(A \ {p}) /\ Cardinality(V) <= c + Cardinality(A \ {p})
    BY <2>8, <2>9, Counting
  <2>11. Announcing' = A \ {p} /\ crashes' = c  BY <1>2, <2>2, <2>4, <2>6
  <2>. QED  BY <1>2, <1>3, <2>7, <2>10, <2>11 DEF Counted
<1>16. Cardinality(Lost') <= crashes'
  <2>1. TakesAnswers(pc, got) /\ LetsGo(p, pc, got)
    BY <1>2, NoNewAnswer DEF LetsGo
  <2>. QED  BY <1>2, <1>3, <1>8, <1>10, <2>1, LostMove
<1>. QED  BY <1>14, <1>15, <1>16 DEF ResultInv

(* An artifact or an output takes the text into the log *)
LEMMA KeepTextResult ==
  ASSUME ResultInv, Inv, NEW p \in Procs, KeepArtifact(p) \/ KeepRecord(p)
  PROVE  ResultInv'
<1>1. PICK g : g = proc[p].got  OBVIOUS
<1>2. PICK kind \in {"artifact", "output"}, what \in {"artifact", "record"} :
        /\ proc[p].pc = "keep" /\ AddEvent(kind, g.text) /\ Kept(p, what)
        /\ UNCHANGED <<jobs, calls, crashes>>
  BY <1>1 DEF KeepArtifact, KeepRecord, Wished
<1>3. IsResult(g)  BY <1>1, <1>2 DEF ResultInv, Facts, HoldsIn
<1>4. PICK pc \in {"idle", "keep"} : \E op, req, got :
        /\ proc' = [proc EXCEPT ![p] = Job(pc, op, req, got)]
        /\ pc = "keep" => got = g
  BY <1>1, <1>2, KeptMoves
<1>5. PICK op, req, got : /\ proc' = [proc EXCEPT ![p] = Job(pc, op, req, got)]
                          /\ pc = "keep" => got = g
  BY <1>4
<1> DEFINE job == Job(pc, op, req, got)
<1>6. job.pc = pc /\ job.got = got  BY DEF Job
<1> HIDE DEF job
<1>7. ~Works(job) /\ ~Announced(job) /\ ~Announced(proc[p])  BY <1>2, <1>4, <1>6 DEF Works, Announced
<1>8. HoldsIn(log', calls', jobs', job)
  BY <1>3, <1>4, <1>5, <1>6, <1>7 DEF HoldsIn
<1>9. /\ LogGrows /\ NoJobLine /\ Len(log) + 1 \in DOMAIN log'
      /\ log'[Len(log) + 1] = Entry(kind, g.text)
  BY <1>2, NewLine DEF ResultInv, Facts
<1>10. CallsGrow  BY <1>2 DEF CallsGrow
<1>11. TakesAnswers(pc, got) /\ LetsGo(p, pc, got)
  <2>1. log'[Len(log) + 1].kind \in {"artifact", "output"} /\ log'[Len(log) + 1].data = proc[p].got.text
    BY <1>1, <1>2, <1>9 DEF Entry
  <2>. QED  BY <1>2, <1>9, <2>1, NoNewAnswer DEF LetsGo
<1>. QED  BY <1>2, <1>5, <1>7, <1>8, <1>9, <1>10, <1>11, TextMove DEF job

(* The other steps of the runtime have nothing to do with results *)
LEMMA RuntimeResult ==
  ASSUME ResultInv, Inv, NEW p \in Procs, RuntimeStep(p)
  PROVE  ResultInv'
<1>0. Idle.pc = "idle"  BY DEF Idle, Job
<1>1. ASSUME NEW op, NEW pc \in {"truncate", "plan", "config"}, NEW req, Start(p, op, pc, req)
      PROVE  ResultInv'
  <2>1. /\ proc' = [proc EXCEPT ![p] = Job(pc, op, req, <<>>)] /\ proc[p].pc = "idle"
        /\ UNCHANGED <<log, jobs, calls, crashes>>
    BY <1>0, <1>1 DEF Start
  <2>2. LogGrows /\ NoJobLine  BY <2>1 DEF LogGrows, NoJobLine
  <2>. QED  BY <2>1, <2>2, Aside
<1>2. CASE BeginConfigure(p) \/ BeginPlan(p) \/ BeginPlanFromJob(p) \/ BeginSummarize(p) \/ BeginInvoke(p)
  BY <1>1, <1>2 DEF BeginConfigure, BeginPlan, BeginPlanFromJob, BeginSummarize, BeginInvoke
<1>3. CASE BeginExecute(p)
  <2>1. \E req : Start(p, "execute", "config", req)  BY <1>3 DEF BeginExecute
  <2>. QED  BY <1>1, <2>1
<1>4. CASE BeginRun(p)
  <2>1. \E op, req : Start(p, op, "config", req)  BY <1>4 DEF BeginRun
  <2>. QED  BY <1>1, <2>1
<1>5. CASE TruncateConfig(p) \/ StoreConfig(p)
  <2>1. UNCHANGED <<log, jobs, calls, crashes>> /\ proc[p].pc \in {"truncate", "store"}
    BY <1>5 DEF TruncateConfig, StoreConfig
  <2>2. LogGrows /\ NoJobLine  BY <2>1 DEF LogGrows, NoJobLine
  <2>3. PICK pc \in {"store", "idle"} : \E op, req, got : proc' = [proc EXCEPT ![p] = Job(pc, op, req, got)]
    BY <1>5, EndIsJob DEF TruncateConfig, StoreConfig, Go
  <2>4. PICK op, req, got : proc' = [proc EXCEPT ![p] = Job(pc, op, req, got)]  BY <2>3
  <2>. QED  BY <2>1, <2>2, <2>4, Aside
<1>6. CASE RecordPlan(p)
  <2>1. UNCHANGED log \/ \E data : AddEvent("plan", data)  BY <1>6 DEF RecordPlan
  <2>2. LogGrows /\ NoJobLine
    <3>1. CASE UNCHANGED log  BY <3>1 DEF LogGrows, NoJobLine
    <3>2. CASE \E data : AddEvent("plan", data)  BY <3>2, NewLine DEF ResultInv, Facts
    <3>. QED  BY <2>1, <3>1, <3>2
  <2>3. proc[p].pc = "plan" /\ End(p) /\ UNCHANGED <<jobs, calls, crashes>>  BY <1>6 DEF RecordPlan
  <2>4. proc' = [proc EXCEPT ![p] = Job("idle", "none", <<>>, <<>>)]  BY <2>3, EndIsJob
  <2>. QED  BY <2>2, <2>3, <2>4, Aside
<1>7. CASE RetrievePlan(p) \/ ReceiveInput(p) \/ PromoteInput(p)
  <2>1. proc[p] = Idle /\ UNCHANGED <<jobs, calls, proc, crashes>>
    BY <1>7 DEF RetrievePlan, ReceiveInput, PromoteInput
  <2>2. PICK kind \in {"retrieval", "input", "promotion"} : \E data : AddEvent(kind, data)
    BY <1>7 DEF RetrievePlan, ReceiveInput, PromoteInput
  <2>3. LogGrows /\ NoJobLine  BY <2>2, NewLine DEF ResultInv, Facts
  <2>. QED  BY <2>1, <2>3, StaysIdle
<1>8. CASE ReadConfig(p)  BY <1>8, ReadConfigResult
<1>9. CASE Send(p)  BY <1>9, SendResult
<1>10. CASE Receive(p)  BY <1>10, ReceiveResult
<1>11. CASE BeginDraft(p)  BY <1>11, BeginDraftResult
<1>12. CASE DraftArtifact(p)  BY <1>12, DraftArtifactResult
<1>13. CASE JobEvent(p)  BY <1>13, JobEventResult
<1>14. CASE TruncateJob(p)  BY <1>14, TruncateJobResult
<1>15. CASE WriteJob(p)  BY <1>15, WriteJobResult
<1>16. CASE KeepArtifact(p) \/ KeepRecord(p)  BY <1>16, KeepTextResult
<1>17. CASE Crash(p)  BY <1>17, CrashResult
<1>. QED
  BY <1>2, <1>3, <1>4, <1>5, <1>6, <1>7, <1>8, <1>9, <1>10, <1>11, <1>12, <1>13, <1>14, <1>15, <1>16, <1>17
  DEF RuntimeStep

(* Nothing was asked, nothing is kept *)
LEMMA ResultInit == Init => ResultInv
<1>. SUFFICES ASSUME Init PROVE ResultInv
  OBVIOUS
<1>1. log = <<>> /\ calls = <<>> /\ crashes = 0 /\ Shape /\ jobs = [k \in JobIds |-> Missing]
  BY DEF Init, RuntimeInit, Shape, Job, Idle
<1>2. \A p \in Procs : proc[p].pc = "idle"  BY DEF Init, RuntimeInit, Idle, Job
<1>3. \A p \in Procs : ~Works(proc[p]) /\ ~Announced(proc[p])  BY <1>2 DEF Works, Announced
<1>4. \A p \in Procs : HoldsIn(log, calls, jobs, proc[p])  BY <1>2, <1>3 DEF HoldsIn
<1>5. IsSeq(log)
  <2>1. <<>> \in Seq({})  OBVIOUS
  <2>. QED  BY <1>1, <2>1 DEF IsSeq
<1>6. \A k \in JobIds : jobs[k].state # "whole"  BY <1>1 DEF Missing
<1>7. DOMAIN log = {} /\ DOMAIN calls = {}  BY <1>1
<1>8. jobs = [k \in JobIds |-> jobs[k]]  BY <1>1
<1>9. Facts  BY <1>1, <1>3, <1>4, <1>5, <1>6, <1>7, <1>8 DEF Facts
<1>10. Undone = {} /\ Announcing = {} /\ Lost = {}
  BY <1>3, <1>7 DEF Undone, Announcing, Lost
<1>11. IsFiniteSet({}) /\ Cardinality({}) = 0  BY FS_EmptySet
<1>. QED  BY <1>1, <1>9, <1>10, <1>11 DEF ResultInv, Counted

(* The invariant of the results, whatever else runs *)
LEMMA ResultKept ==
  ASSUME ResultInv, Inv, [Next]_vars
  PROVE  ResultInv'
<1>1. CASE Next
  <2>1. PICK p \in Procs : RuntimeCommand(p) \/ IndexStep(p)  BY <1>1, NextIsEither
  <2>2. CASE RuntimeCommand(p)  BY <2>2, RuntimeResult DEF RuntimeCommand
  <2>3. CASE IndexStep(p)
    <3>1. PICK pc \in IndexPcs \cup {"idle"} : \E op, req, got :
            proc' = [proc EXCEPT ![p] = Job(pc, op, req, got)]
      BY <2>3, IndexStepMoves
    <3>2. PICK op, req, got : proc' = [proc EXCEPT ![p] = Job(pc, op, req, got)]  BY <3>1
    <3>3. proc[p].pc \in IndexPcs \cup {"idle"} /\ UNCHANGED <<log, jobs, calls, crashes>>
      BY <2>3, IndexStepMoves
    <3>4. pc \notin {"answer", "keep", "event", "truncate_job", "file"}
      BY DEF IndexPcs
    <3>5. proc[p].pc \notin {"keep", "event", "truncate_job", "file"}
      BY <3>3 DEF IndexPcs
    <3>6. LogGrows /\ NoJobLine  BY <3>3 DEF LogGrows, NoJobLine
    <3>. QED  BY <3>2, <3>3, <3>4, <3>5, <3>6, Aside
  <2>. QED  BY <2>1, <2>2, <2>3
<1>2. CASE UNCHANGED vars
  <2>1. UNCHANGED <<log, jobs, calls, proc, crashes>>  BY <1>2 DEF vars, runtimeVars
  <2>2. Facts'
    BY ZenonT(60), <2>1 DEF ResultInv, Facts, Shape, Job, IsSeq, HoldsIn, Works, Announced, IsResult, Honest,
                HasArtifact, HasEvent, BackedIn, Entry, JobIds
  <2>3. Undone' = Undone /\ Announcing' = Announcing /\ Lost' = Lost
    BY <2>1 DEF Undone, Announcing, Announced, Lost
  <2>. QED  BY <2>1, <2>2, <2>3 DEF ResultInv, Counted
<1>. QED  BY <1>1, <1>2

(* The invariant says what the property counts *)
LEMMA ResultImplies == ResultInv => ResultsKept
<1>. SUFFICES ASSUME ResultInv PROVE ResultsKept
  OBVIOUS
<1>1. ASSUME NEW j \in JobIds, Whole(j)
      PROVE  LET job == jobs[j].holds IN
             /\ job.told = (job.text > 0)
             /\ job.artifact < job.event /\ job.event \in EventsOf("job")
             /\ log[job.event].data.job = j /\ log[job.event].data.artifact = job.artifact
             /\ log[job.artifact] = Entry("artifact", job.text)
  <2>1. PICK job : job = jobs[j].holds  OBVIOUS
  <2>2. BackedIn(log, j, job)  BY <1>1, <2>1 DEF ResultInv, Facts, Whole
  <2>3. job.told = (job.text > 0)
    <3>1. CASE job.text = 0 /\ job.told = FALSE
      <4>1. (job.text > 0) = FALSE  BY <3>1
      <4>. QED  BY <3>1, <4>1
    <3>2. CASE job.text > 0 /\ job.told = TRUE
      <4>1. (job.text > 0) = TRUE  BY <3>2
      <4>. QED  BY <3>2, <4>1
    <3>. QED  BY <2>2, <3>1, <3>2 DEF BackedIn, Honest
  <2>. QED  BY <2>1, <2>2, <2>3 DEF BackedIn, HasArtifact, HasEvent, EventsOf
<1>2. {e \in EventsOf("job") : ~Whole(log[e].data.job)} = Undone
  BY DEF EventsOf, Whole, Undone
<1>3. {p \in Procs : proc[p].pc \in {"truncate_job", "file"}} = Announcing
  BY DEF Announcing, Announced
<1>4. JobsAreRecorded  BY <1>1, <1>2, <1>3 DEF JobsAreRecorded, ResultInv, Counted
<1>5. {i \in DOMAIN calls :
         /\ calls[i].answered /\ calls[i].wish # {}
         /\ \A e \in EventsOf("artifact") \cup EventsOf("output") : log[e].data # i
         /\ \A p \in Procs : proc[p].pc = "keep" => proc[p].got.text # i} = Lost
  BY DEF EventsOf, Lost
<1>6. AnswersKept  BY <1>5 DEF AnswersKept, ResultInv
<1>. QED  BY <1>4, <1>6 DEF ResultsKept

(* A file that keeps a text says truly whether a provider wrote it, and the     *)
(* artifact and the event it names are in the log; no more events lack a file,  *)
(* and no more wanted answers are nowhere, than commands are at work or died:   *)
(* for any number of commands, jobs and calls (summary_job_service.py:89,       *)
(* runtime_service.py:122).                                                     *)
THEOREM ResultsAreKept == Spec => []ResultsKept
<1>1. Init => Inv /\ ResultInv  BY InitInv, ResultInit DEF Init
<1>2. Inv /\ ResultInv /\ [Next]_vars => Inv' /\ ResultInv'  BY InvKept, ResultKept
<1>3. ResultInv => ResultsKept  BY ResultImplies
<1>. QED  BY <1>1, <1>2, <1>3, PTL DEF Spec

=============================================================================
