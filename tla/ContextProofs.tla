---------------------------- MODULE ContextProofs ----------------------------
(***************************************************************************)
(* Proofs about ContextFlow: what leaves the project, what an edit keeps    *)
(* and what a plan selects, for any number of commands, contexts, rules,    *)
(* markers, packages and crashes.                                           *)
(***************************************************************************)
EXTENDS ContextFlow, FiniteSetTheorems, SequenceTheorems, WellFoundedInduction, TLAPS

(***************************************************************************)
(* Facts about the operators                                                *)
(***************************************************************************)

(* A non-empty set of line numbers has a greatest element, which LastOf is. *)
LEMMA LastOfIsLast ==
  ASSUME NEW n \in Nat, NEW T \in SUBSET (1 .. n), T # {}
  PROVE  LastOf(T) \in T /\ \A j \in T : j <= LastOf(T)
<1> DEFINE U == {n - i : i \in T}
<1>1. U \subseteq Nat /\ U # {}
  <2>1. \A i \in T : i \in 1 .. n /\ n - i \in Nat
    OBVIOUS
  <2>. QED  BY <2>1
<1>2. \E x \in U : \A y \in U : ~ (<<y, x>> \in OpToRel(<, Nat))
  <2> HIDE DEF U
  <2>. QED  BY <1>1, WFMin, NatLessThanWellFounded
<1>3. PICK x \in U : \A y \in U : ~ (y < x)
  BY <1>1, <1>2 DEF OpToRel
<1>4. PICK i \in T : x = n - i
  OBVIOUS
<1>5. \A j \in T : j <= i
  <2> TAKE j \in T
  <2>1. ~ (n - j < n - i)
    BY <1>3, <1>4
  <2>. QED  BY <2>1
<1>. QED  BY <1>4, <1>5 DEF LastOf

(* A line behind a log leaves the log as it was. *)
LEMMA AppendGrows ==
  ASSUME NEW S, NEW s \in Seq(S), NEW e
  PROVE  /\ \E T : Append(s, e) \in Seq(T)
         /\ Len(Append(s, e)) = Len(s) + 1 /\ Len(s) \in Nat
         /\ Append(s, e)[Len(s) + 1] = e
         /\ \A i \in 1 .. Len(s) : Append(s, e)[i] = s[i]
<1>1. s \in Seq(S \cup {e})
  BY SeqMonotonic
<1>. QED  BY <1>1, AppendProperties, LenProperties

(***************************************************************************)
(* The invariant: the log and the indexes                                   *)
(***************************************************************************)

EditOps == {"classify", "update"}
SnapshotOps == {"add"} \cup EditOps

Ctx ==
  [id : Ids, text : Texts, cls : {Classification(l) : l \in Layers \cup {Unclassified}},
   fields : {Fields[i] : i \in Ids}]

(* What a command may append, and what the log therefore holds *)
IsLine(e) ==
  /\ e = Line(e.kind, e.op, e.data, e.began, e.stale)
  /\ e.kind = "context" <=> e.op \in SnapshotOps
  /\ e.kind = "context" => e.data \in Ctx
  /\ e.kind = "rule" <=> e.op = "rule"
  /\ e.began \in Nat

LogTyped ==
  /\ \E S : log \in Seq(S)
  /\ \A i \in 1 .. Len(log) : IsLine(log[i])

(* No index is ahead of the newest rebuild, and what an editor that has       *)
(* ended appended was in that rebuild.                                        *)
IndexesBehind ==
  /\ newest \in 0 .. Len(log)
  /\ ctxIndex \in 0 .. newest /\ ruleIndex \in 0 .. newest
  /\ settled \subseteq 1 .. Len(log)
  /\ \A i \in settled : log[i].kind \in {"context", "rule"} => i <= newest

(* Only a marker written behind a torn one is lost *)
MarksTyped ==
  /\ \E S : lifecycle \in Seq(S)
  /\ \A i \in 1 .. Len(lifecycle) :
       /\ lifecycle[i] = [target |-> lifecycle[i].target, action |-> lifecycle[i].action,
                          ok |-> lifecycle[i].ok, ended |-> lifecycle[i].ended]
       /\ lifecycle[i].ended \in BOOLEAN /\ lifecycle[i].ok \in BOOLEAN
       /\ lifecycle[i].ended /\ ~lifecycle[i].ok => i > 1 /\ ~lifecycle[i - 1].ended
  /\ tornTail \in BOOLEAN
  /\ tornTail = (lifecycle # <<>> /\ ~lifecycle[Len(lifecycle)].ended)

(***************************************************************************)
(* ... and a command j in the middle of its work                            *)
(***************************************************************************)

At(pc, op, job, got) == [pc |-> pc, op |-> op, job |-> job, got |-> got]

(* What an editor was asked to do *)
IsTask(j) ==
  /\ j.op \in EditOps /\ j.job.id \in Ids /\ j.job.began \in Nat
  /\ j.op = "classify" => j.job.layer \in Layers
  /\ j.op = "update" => j.job.text \in Texts

Reads(j) ==
  j.pc = "read" =>
    /\ j.op \in Editors
    /\ \/ j.got = <<>> /\ IsTask(j) /\ j.job.began <= Len(log)
       \/ j.got = [at |-> j.got.at] /\ j.got # <<>> /\ j.got.at \in 1 .. Len(log)

Saves(j) ==
  j.pc \in {"save_contexts", "save_rules"} =>
    /\ j.op \in Editors
    /\ j.got = [len |-> j.got.len, at |-> j.got.at]
    /\ j.got.len \in 0 .. Len(log) /\ j.got.at \in 0 .. j.got.len
    /\ j.got.at = 0 => IsTask(j) /\ j.job.began <= j.got.len
    /\ j.pc = "save_rules" => j.got.len <= newest

Edits(j) == j.pc = "edit" => IsTask(j) /\ j.job.began <= newest

(* An edit of a context was made from its last snapshot in a prefix of the    *)
(* log that is not shorter than the log was when the edit began.              *)
MadeFrom(e, n) ==
  /\ SnapshotsOf(e.data.id, n) # {}
  /\ LET base == log[LastOf(SnapshotsOf(e.data.id, n))].data
     IN  IF e.op = "update" THEN e.data.cls = base.cls ELSE e.data.text = base.text

EditFits(e) ==
  e.op \in EditOps /\ ~e.stale => \E n \in e.began .. Len(log) : MadeFrom(e, n)

Appends(j) ==
  j.pc = "append" =>
    /\ j.op \in Editors \cup {"preview", "plan"} /\ j.job.op = j.op
    /\ IsLine(j.job) /\ EditFits(j.job)

(* A reader that did not find an old index has seen what had ended *)
Sees(j) ==
  j.pc \in {"rules", "build"} =>
    /\ j.op \in Readers
    /\ j.pc = "rules" <=> j.op = "plan"
    /\ j.got = [view |-> j.got.view, stale |-> j.got.stale, known |-> j.got.known]
    /\ j.got.view \in 0 .. Len(log) /\ j.got.known \subseteq 1 .. Len(log)
    /\ j.got.stale \in BOOLEAN
    /\ ~j.got.stale => \A i \in j.got.known :
         /\ log[i].kind = "context" => i <= j.got.view
         /\ log[i].kind = "rule" => i <= newest

Loads(j) == j.pc = "load" => j.op \in Readers

PackageSteps == {"load", "build", "manifest", "records", "audit"}

PackageJob(j) ==
  /\ j.pc \in {"manifest", "records", "audit"} => j.op = "package"
  /\ j.op = "package" =>
       /\ j.pc \in PackageSteps
       /\ j.job.pkg \in PackageIds /\ j.job.target \in Targets
       /\ j.job.marked \in 0 .. Len(lifecycle)

Fits(j) ==
  /\ Reads(j) /\ Saves(j) /\ Edits(j) /\ Appends(j) /\ Loads(j) /\ Sees(j) /\ PackageJob(j)

Shape ==
  /\ proc = [p \in Procs |-> At(proc[p].pc, proc[p].op, proc[p].job, proc[p].got)]
  /\ crashes \in Nat

Jobs == {proc[p] : p \in Procs}

Base == Shape /\ LogTyped /\ IndexesBehind /\ MarksTyped /\ \A j \in Jobs : Fits(j)

(***************************************************************************)
(* ... the files of the packages                                            *)
(***************************************************************************)

(* What the review relies on *)
WarnsOfSensitive(target, records) ==
  \A r \in records :
    /\ r.layer \in Layers \cup {Unclassified}
    /\ target = "external" /\ r.layer >= SensitiveContext =>
         "external_sensitive_context_not_allowed" \in r.warnings

(* How far a command is with the two files of its package *)
Writes(j) ==
  LET k == j.job.pkg  built == j.got.built IN
  j.op = "package" =>
    /\ j.pc \in {"load", "build", "manifest"} => packages[k] = NoPackage
    /\ j.pc \in {"manifest", "records", "audit"} =>
         built.target = j.job.target /\ WarnsOfSensitive(built.target, built.records)
    /\ j.pc = "records" => packages[k] = [manifest |-> <<Manifest(built)>>, records |-> Missing]
    /\ j.pc = "audit" => packages[k] = [manifest |-> <<Manifest(built)>>, records |-> <<built.records>>]

OwnPackage ==
  \A p, q \in Procs :
    p # q /\ proc[p].op = "package" /\ proc[q].op = "package" => proc[p].job.pkg # proc[q].job.pkg

(* What is in the files of a package *)
FilesAgree ==
  \A k \in PackageIds :
    LET pkg == packages[k] IN
    /\ pkg = [manifest |-> pkg.manifest, records |-> pkg.records]
    /\ pkg.records # Missing =>
         /\ pkg.manifest # Missing /\ pkg.manifest[1].refs = {r.id : r \in pkg.records[1]}
         /\ WarnsOfSensitive(pkg.manifest[1].target, pkg.records[1])

Announced == \A k \in audit : packages[k].records # Missing

Reviewed ==
  \A k \in PackageIds :
    /\ verdict[k] # "none" => packages[k].manifest # Missing
    /\ verdict[k] \in {"pass", "warning"} =>
         /\ packages[k].records # Missing
         /\ packages[k].manifest[1].target = "external" =>
              \A r \in packages[k].records[1] : r.layer < SensitiveContext

(* A manifest without records is being completed, or its command died *)
Unfinished ==
  \A k \in PackageIds : packages[k].manifest # Missing /\ packages[k].records = Missing =>
    crashes > 0 \/ \E p \in Packaging : proc[p].job.pkg = k

PackagesTyped ==
  DOMAIN packages = PackageIds /\ DOMAIN verdict = PackageIds /\ audit \subseteq PackageIds

PackageInv ==
  /\ PackagesTyped /\ OwnPackage /\ FilesAgree /\ Announced /\ Reviewed /\ Unfinished
  /\ \A p \in Procs : Writes(proc[p])

(***************************************************************************)
(* ... what an edit in the log was made from, what a plan was made of and   *)
(* what a package was built from                                            *)
(***************************************************************************)

EditsFit ==
  \A i \in 1 .. Len(log) : log[i].op \in EditOps /\ ~log[i].stale =>
    \E n \in log[i].began .. i - 1 : MadeFrom(log[i], n)

PlanMade(j) ==
  j.pc = "append" /\ j.op = "plan" =>
    /\ j.got.view \in 0 .. Len(log) /\ j.got.known \subseteq 1 .. Len(log)
    /\ ~j.got.stale => \E m \in 0 .. Len(log) :
         /\ j.job.data = InjectionPlan(ContextsAt(j.got.view), RulesAt(m))
         /\ \A i \in j.got.known : log[i].kind = "rule" => i <= m

(* From a prefix that has what was known, with the markers there were *)
BuiltFrom(j, v, marked) ==
  /\ \E target, ids, asked : j.got.built = Package(ContextsAt(v), target, ids, asked, marked)
  /\ ~j.got.stale => \A i \in j.got.known : log[i].kind = "context" => i <= v
  /\ \A i \in 1 .. j.job.marked : lifecycle[i].ok =>
       [target |-> lifecycle[i].target, action |-> lifecycle[i].action] \in marked

PackageMade(j) ==
  j.pc \in {"manifest", "records", "audit"} =>
    /\ j.got.known \subseteq 1 .. Len(log) /\ j.job.marked \in 0 .. Len(lifecycle)
    /\ \E marked : \E v \in 0 .. Len(log) : BuiltFrom(j, v, marked)

(* A line that lost its end costs at most one marker, which may be yet to come *)
Lost == {i \in DOMAIN lifecycle : lifecycle[i].ended /\ ~lifecycle[i].ok}

TornCounted == Cardinality(Lost) + (IF tornTail THEN 1 ELSE 0) <= crashes

----------------------------------------------------------------------------
(* Prefixes of the log *)

(* No action takes back a line, a rebuild or a marker. *)
Grows ==
  /\ Len(log) <= Len(log') /\ \A i \in 1 .. Len(log) : log'[i] = log[i]
  /\ newest <= newest'
  /\ Len(lifecycle) <= Len(lifecycle') /\ \A i \in 1 .. Len(lifecycle) : lifecycle'[i] = lifecycle[i]

(* The snapshots of a context in a prefix of the log, and the last of them. *)
LEMMA SnapshotsTyped ==
  ASSUME LogTyped, NEW n \in 0 .. Len(log), NEW id
  PROVE  /\ SnapshotsOf(id, n) \in SUBSET (1 .. n)
         /\ \A i \in SnapshotsOf(id, n) :
              log[i].kind = "context" /\ log[i].data \in Ctx /\ log[i].data.id = id
         /\ SnapshotsOf(id, n) # {} =>
              /\ LastOf(SnapshotsOf(id, n)) \in SnapshotsOf(id, n)
              /\ \A j \in SnapshotsOf(id, n) : j <= LastOf(SnapshotsOf(id, n))
<1>1. Len(log) \in Nat
  BY LenProperties DEF LogTyped
<1>2. SnapshotsOf(id, n) \in SUBSET (1 .. n)
  BY DEF SnapshotsOf, Positions
<1>3. \A i \in SnapshotsOf(id, n) :
        log[i].kind = "context" /\ log[i].data \in Ctx /\ log[i].data.id = id
  BY <1>1 DEF SnapshotsOf, Positions, LogTyped, IsLine
<1>4. SnapshotsOf(id, n) # {} =>
        /\ LastOf(SnapshotsOf(id, n)) \in SnapshotsOf(id, n)
        /\ \A j \in SnapshotsOf(id, n) : j <= LastOf(SnapshotsOf(id, n))
  <2>1. n \in Nat
    BY <1>1
  <2>. QED  BY <1>2, <2>1, LastOfIsLast
<1>. QED  BY <1>2, <1>3, <1>4

(* The index of a prefix holds the last snapshot of each context in it. *)
LEMMA ContextsTyped ==
  ASSUME LogTyped, NEW n \in 0 .. Len(log)
  PROVE  /\ \A id \in Ids : KnownAt(id, n) =>
              ContextAt(id, n) = log[LastOf(SnapshotsOf(id, n))].data
         /\ \A c \in ContextsAt(n) :
              c \in Ctx /\ KnownAt(c.id, n) /\ c = log[LastOf(SnapshotsOf(c.id, n))].data
<1>1. \A c \in ContextsAt(n) : \E id \in Ids :
        SnapshotsOf(id, n) # {} /\ c = log[LastOf(SnapshotsOf(id, n))].data
  BY DEF ContextsAt
<1>2. \A c \in ContextsAt(n) :
        c \in Ctx /\ KnownAt(c.id, n) /\ c = log[LastOf(SnapshotsOf(c.id, n))].data
  BY <1>1, SnapshotsTyped DEF KnownAt
<1>3. ASSUME NEW id \in Ids, KnownAt(id, n)
      PROVE  ContextAt(id, n) = log[LastOf(SnapshotsOf(id, n))].data
  <2>1. log[LastOf(SnapshotsOf(id, n))].data \in ContextsAt(n)
    BY <1>3 DEF KnownAt, ContextsAt
  <2>2. log[LastOf(SnapshotsOf(id, n))].data.id = id
    BY <1>3, SnapshotsTyped DEF KnownAt
  <2>. QED  BY <1>2, <2>1, <2>2 DEF ContextAt
<1>. QED  BY <1>2, <1>3

(* A prefix stays what it was. *)
LEMMA PrefixStays ==
  ASSUME LogTyped, Grows, NEW n \in 0 .. Len(log)
  PROVE  /\ \A id : SnapshotsOf(id, n)' = SnapshotsOf(id, n)
         /\ ContextsAt(n)' = ContextsAt(n)
         /\ \A kind : Positions(kind, n)' = Positions(kind, n)
<1>1. Len(log) \in Nat /\ n \in Nat /\ \A i \in 1 .. n : log'[i] = log[i]
  BY LenProperties DEF LogTyped, Grows
<1>2. \A kind : Positions(kind, n)' = Positions(kind, n)
  BY <1>1 DEF Positions
<1>3. \A id : SnapshotsOf(id, n)' = SnapshotsOf(id, n)
  BY <1>1, <1>2 DEF SnapshotsOf, Positions
<1>4. \A id : SnapshotsOf(id, n) # {} =>
        log'[LastOf(SnapshotsOf(id, n))] = log[LastOf(SnapshotsOf(id, n))]
  BY <1>1, SnapshotsTyped
<1>. QED  BY <1>2, <1>3, <1>4 DEF ContextsAt

----------------------------------------------------------------------------
(* What a step of one command leaves to the others *)

(* What an edit was made from is still what it was made from. *)
LEMMA MadeFromStays ==
  ASSUME LogTyped, Grows, NEW n \in 0 .. Len(log), NEW e, MadeFrom(e, n)
  PROVE  MadeFrom(e, n)'
<1>1. \A id : SnapshotsOf(id, n)' = SnapshotsOf(id, n)
  BY PrefixStays
<1>2. Len(log) \in Nat /\ LastOf(SnapshotsOf(e.data.id, n)) \in 1 .. n
  BY SnapshotsTyped, LenProperties DEF MadeFrom, LogTyped
<1>3. log'[LastOf(SnapshotsOf(e.data.id, n))] = log[LastOf(SnapshotsOf(e.data.id, n))]
  BY <1>2 DEF Grows
<1>. QED  BY <1>1, <1>3 DEF MadeFrom

(* An edit that waits to be appended stays one that fits. *)
LEMMA EditStaysFit ==
  ASSUME LogTyped, LogTyped', Grows, NEW e, IsLine(e), EditFits(e)
  PROVE  EditFits(e)'
<1>1. Len(log) \in Nat /\ Len(log') \in Nat /\ Len(log) <= Len(log')
  BY LenProperties DEF LogTyped, Grows
<1>2. ASSUME e.op \in EditOps, ~e.stale
      PROVE  \E n \in e.began .. Len(log') : MadeFrom(e, n)'
  <2>1. PICK n \in e.began .. Len(log) : MadeFrom(e, n)
    BY <1>2 DEF EditFits
  <2>2. n \in 0 .. Len(log)
    BY <1>1 DEF IsLine
  <2>. QED  BY <1>1, <2>1, <2>2, MadeFromStays
<1>. QED  BY <1>2 DEF EditFits

(* A command that does nothing still fits what the others have made of the files. *)
LEMMA StaysFit ==
  ASSUME Base, LogTyped', IndexesBehind', MarksTyped', Grows, NEW j, Fits(j)
  PROVE  Fits(j)'
<1>1. /\ Len(log) \in Nat /\ Len(log') \in Nat /\ newest \in Nat /\ newest' \in Nat
      /\ Len(lifecycle) \in Nat /\ Len(lifecycle') \in Nat
  BY LenProperties DEF Base, LogTyped, IndexesBehind, MarksTyped
<1>2. /\ Len(log) <= Len(log') /\ newest <= newest' /\ Len(lifecycle) <= Len(lifecycle')
      /\ \A i \in 1 .. Len(log) : log'[i] = log[i]
  BY DEF Grows
<1>3. Reads(j)'
  BY <1>1, <1>2 DEF Fits, Reads, IsTask
<1>4. Saves(j)'
  BY <1>1, <1>2 DEF Fits, Saves, IsTask
<1>5. Edits(j)'
  BY <1>1, <1>2 DEF Fits, Edits, IsTask
<1>6. Appends(j)'
  BY EditStaysFit DEF Fits, Appends, Base
<1>7. Sees(j)'
  <2>1. SUFFICES ASSUME j.pc \in {"rules", "build"} PROVE Sees(j)'
    BY DEF Sees
  <2>2. /\ j.got.view \in 0 .. Len(log) /\ j.got.known \subseteq 1 .. Len(log)
        /\ ~j.got.stale => \A i \in j.got.known :
             /\ log[i].kind = "context" => i <= j.got.view
             /\ log[i].kind = "rule" => i <= newest
    BY <2>1 DEF Fits, Sees
  <2>3. j.got.view \in 0 .. Len(log') /\ j.got.known \subseteq 1 .. Len(log')
    BY <1>1, <1>2, <2>2
  <2>4. ~j.got.stale => \A i \in j.got.known :
             /\ log'[i].kind = "context" => i <= j.got.view
             /\ log'[i].kind = "rule" => i <= newest'
    BY <1>1, <1>2, <2>2
  <2>. QED  BY <2>1, <2>3, <2>4 DEF Fits, Sees
<1>8. PackageJob(j)'
  BY <1>1, <1>2 DEF Fits, PackageJob
<1>. QED  BY <1>3, <1>4, <1>5, <1>6, <1>7, <1>8 DEF Fits, Loads

----------------------------------------------------------------------------
(* Every step keeps the log, the indexes and the commands in order *)

IdleJob == At("idle", "none", <<>>, <<>>)

(* A command that is not running fits anything. *)
LEMMA IdleFits == IdleJob = Idle /\ Fits(IdleJob)
  BY DEF IdleJob, Idle, At, Fits, Reads, Saves, Edits, Appends, Loads, Sees, PackageJob, Editors

(* p goes on to j, everybody else stays where he is *)
LEMMA Advances ==
  ASSUME Base, LogTyped', IndexesBehind', MarksTyped', Grows, crashes' \in Nat,
         NEW p \in Procs, NEW pc, NEW op, NEW job, NEW got,
         proc' = [proc EXCEPT ![p] = At(pc, op, job, got)], Fits(At(pc, op, job, got))'
  PROVE  Base' /\ Grows
<1>1. \A q \in Procs : proc'[q] = IF q = p THEN At(pc, op, job, got) ELSE proc[q]
  BY DEF Base, Shape
<1>2. Shape'
  BY <1>1 DEF Base, Shape, At
<1>3. ASSUME NEW j \in Jobs' PROVE Fits(j)'
  <2>1. j \in Jobs \/ j = At(pc, op, job, got)
    BY <1>1 DEF Jobs
  <2>. QED  BY <2>1, StaysFit DEF Base
<1>. QED  BY <1>2, <1>3 DEF Base

(* Go changes where p is and what it has read, nothing else of it. *)
LEMMA GoesOn ==
  ASSUME Shape, NEW p \in Procs, NEW pc, NEW got, Go(p, pc, got), NEW j, j = proc[p]
  PROVE  proc' = [proc EXCEPT ![p] = At(pc, j.op, j.job, got)]
<1> DEFINE half == [proc EXCEPT ![p] = [proc[p] EXCEPT !.pc = pc]]
           new == At(pc, proc[p].op, proc[p].job, got)
<1>1. DOMAIN proc = Procs /\ proc[p] = At(proc[p].pc, proc[p].op, proc[p].job, proc[p].got)
  BY DEF Shape
<1>2. half[p] = At(pc, proc[p].op, proc[p].job, proc[p].got)
  BY <1>1 DEF At
<1>3. [half[p] EXCEPT !.got = got] = new
  BY <1>2 DEF At
<1>4. proc' = [half EXCEPT ![p] = [half[p] EXCEPT !.got = got]]
  BY DEF Go
<1>5. proc' = [half EXCEPT ![p] = new]
  <2> HIDE DEF half, new
  <2>. QED  BY <1>3, <1>4
<1>6. [half EXCEPT ![p] = new] = [proc EXCEPT ![p] = new]
  <2> HIDE DEF new
  <2>. QED  BY <1>1
<1>. QED  BY <1>5, <1>6

(* The form in which a command takes its next step and what it has made of the last *)
Takes(p, pc, job, got) == proc' = [proc EXCEPT ![p].pc = pc, ![p].job = job, ![p].got = got]

(* The same for a step that also changes the job. *)
LEMMA TakesOn ==
  ASSUME Shape, NEW p \in Procs, NEW pc, NEW job, NEW got, NEW j, j = proc[p], Takes(p, pc, job, got)
  PROVE  proc' = [proc EXCEPT ![p] = At(pc, j.op, job, got)]
<1>1. DOMAIN proc = Procs /\ j = At(j.pc, j.op, j.job, j.got)
  BY DEF Shape
<1>2. proc' = [q \in Procs |-> IF q = p THEN [[[j EXCEPT !.pc = pc] EXCEPT !.job = job] EXCEPT !.got = got]
                                        ELSE proc[q]]
  BY <1>1 DEF Takes
<1>3. [[[j EXCEPT !.pc = pc] EXCEPT !.job = job] EXCEPT !.got = got] = At(pc, j.op, job, got)
  <2>1. [j EXCEPT !.pc = pc] = At(pc, j.op, j.job, j.got)
    BY <1>1 DEF At
  <2>2. [At(pc, j.op, j.job, j.got) EXCEPT !.job = job] = At(pc, j.op, job, j.got)
    BY DEF At
  <2>3. [At(pc, j.op, job, j.got) EXCEPT !.got = got] = At(pc, j.op, job, got)
    BY DEF At
  <2>. QED  BY <2>1, <2>2, <2>3
<1>4. proc' = [q \in Procs |-> IF q = p THEN At(pc, j.op, job, got) ELSE proc[q]]
  BY <1>2, <1>3
<1>. QED  BY <1>1, <1>4

(* Steps that change nothing but commands, packages and the audit log *)
LEMMA Quiet ==
  ASSUME Base, UNCHANGED <<log, indexes, marks, settled, newest>>
  PROVE  LogTyped' /\ IndexesBehind' /\ MarksTyped' /\ Grows
<1>1. Len(log) \in Nat /\ newest \in Nat /\ Len(lifecycle) \in Nat
  BY LenProperties DEF Base, LogTyped, IndexesBehind, MarksTyped
<1>. QED  BY <1>1 DEF Base, LogTyped, IndexesBehind, MarksTyped, Grows, indexes, marks

(* Beginning a command keeps the base of the invariant. *)
LEMMA BeginBase ==
  ASSUME Base, NEW p \in Procs,
         \/ BeginAdd(p) \/ BeginRule(p) \/ BeginClassify(p) \/ BeginUpdate(p)
         \/ BeginPackage(p) \/ BeginPreview(p) \/ BeginPlan(p)
  PROVE  Base' /\ Grows
<1>1. \E pc, op, job :
        /\ Start(p, op, pc, job)
        /\ Fits(At(pc, op, job, <<>>))'
  <2>0. Len(log) \in Nat /\ Len(lifecycle) \in Nat
    BY LenProperties DEF Base, LogTyped, MarksTyped
  <2> USE DEF At, Fits, Reads, Saves, Edits, Appends, Loads, Sees, PackageJob
  <2>1. CASE BeginAdd(p)
    <3>1. PICK id \in Ids, text \in Texts :
            Start(p, "add", "append",
              Line("context", "add", [id |-> id, text |-> text, cls |-> Classification(Unclassified),
                                      fields |-> Fields[id]], 0, FALSE))
      BY <2>1 DEF BeginAdd
    <3> DEFINE job == Line("context", "add", [id |-> id, text |-> text,
                             cls |-> Classification(Unclassified), fields |-> Fields[id]], 0, FALSE)
    <3>2. IsLine(job) /\ job.op = "add"
      BY DEF IsLine, Line, Ctx, SnapshotOps, EditOps
    <3>3. EditFits(job)'
      BY <3>2 DEF EditFits, EditOps
    <3> HIDE DEF job
    <3>4. Fits(At("append", "add", job, <<>>))'
      BY <3>2, <3>3 DEF Editors
    <3>. QED  BY <3>1, <3>4 DEF job
  <2>2. CASE BeginRule(p)
    <3>1. PICK r \in Rules : Start(p, "rule", "append", Line("rule", "rule", r, 0, FALSE))
      BY <2>2 DEF BeginRule
    <3> DEFINE job == Line("rule", "rule", r, 0, FALSE)
    <3>2. IsLine(job) /\ job.op = "rule"
      BY DEF IsLine, Line, SnapshotOps, EditOps
    <3>3. EditFits(job)'
      BY <3>2 DEF EditFits, EditOps
    <3> HIDE DEF job
    <3>4. Fits(At("append", "rule", job, <<>>))'
      BY <3>2, <3>3 DEF Editors
    <3>. QED  BY <3>1, <3>4 DEF job
  <2>3. CASE BeginClassify(p)
    <3>1. PICK id \in Ids, layer \in GivenLayers :
            Start(p, "classify", "read", [id |-> id, layer |-> layer, began |-> Len(log)])
      BY <2>3 DEF BeginClassify
    <3>2. PICK job : job = [id |-> id, layer |-> layer, began |-> Len(log)]
      OBVIOUS
    <3>3. job.id \in Ids /\ job.began \in Nat /\ job.began <= Len(log') /\ job.layer \in Layers
      BY <2>0, <3>1, <3>2, LayersAssumption DEF Start
    <3>4. Fits(At("read", "classify", job, <<>>))'
      BY <3>3 DEF Editors, EditOps, IsTask
    <3>. QED  BY <3>1, <3>2, <3>4
  <2>4. CASE BeginUpdate(p)
    <3>1. PICK id \in Ids, text \in Texts :
            Start(p, "update", "read", [id |-> id, text |-> text, began |-> Len(log)])
      BY <2>4 DEF BeginUpdate
    <3>2. PICK job : job = [id |-> id, text |-> text, began |-> Len(log)]
      OBVIOUS
    <3>3. job.id \in Ids /\ job.began \in Nat /\ job.began <= Len(log') /\ job.text \in Texts
      BY <2>0, <3>1, <3>2 DEF Start
    <3>4. Fits(At("read", "update", job, <<>>))'
      BY <3>3 DEF Editors, EditOps, IsTask
    <3>. QED  BY <3>1, <3>2, <3>4
  <2>5. CASE BeginPackage(p)
    <3>1. PICK ids \in Selections, target \in Targets, k \in PackageIds :
            Start(p, "package", "load",
              [ids |-> ids, target |-> target, pkg |-> k, marked |-> Len(lifecycle)])
      BY <2>5 DEF BeginPackage
    <3>2. PICK job : job = [ids |-> ids, target |-> target, pkg |-> k, marked |-> Len(lifecycle)]
      OBVIOUS
    <3>3. job.pkg \in PackageIds /\ job.target \in Targets /\ job.marked \in 0 .. Len(lifecycle')
      BY <2>0, <3>1, <3>2 DEF Start, marks
    <3>4. Fits(At("load", "package", job, <<>>))'
      BY <3>3 DEF Readers, PackageSteps
    <3>. QED  BY <3>1, <3>2, <3>4
  <2>6. CASE BeginPreview(p)
    <3>1. PICK ids \in Selections : Start(p, "preview", "load", [ids |-> ids])
      BY <2>6 DEF BeginPreview
    <3>2. Fits(At("load", "preview", [ids |-> ids], <<>>))'
      BY DEF Readers
    <3>. QED  BY <3>1, <3>2
  <2>7. CASE BeginPlan(p)
    <3>1. Start(p, "plan", "load", <<>>)
      BY <2>7 DEF BeginPlan
    <3>2. Fits(At("load", "plan", <<>>, <<>>))'
      BY DEF Readers
    <3>. QED  BY <3>1, <3>2
  <2>. QED  BY <2>1, <2>2, <2>3, <2>4, <2>5, <2>6, <2>7
<1>2. PICK pc, op, job : Start(p, op, pc, job) /\ Fits(At(pc, op, job, <<>>))'
  BY <1>1
<1>3. proc' = [proc EXCEPT ![p] = At(pc, op, job, <<>>)]
  BY <1>2 DEF Start, At
<1>4. LogTyped' /\ IndexesBehind' /\ MarksTyped' /\ Grows
  BY <1>2, Quiet DEF Start
<1>5. crashes' \in Nat
  BY <1>2 DEF Start, Base, Shape
<1>. QED  BY <1>2, <1>3, <1>4, <1>5, Advances

(* A command ends, however far the indexes and the log have got *)
LEMMA EndsBase ==
  ASSUME Base, LogTyped', IndexesBehind', MarksTyped', Grows, crashes' \in Nat,
         NEW p \in Procs, End(p)
  PROVE  Base' /\ Grows
<1>1. proc' = [proc EXCEPT ![p] = IdleJob] /\ Fits(IdleJob)'
  BY IdleFits DEF End, Fits, Reads, Saves, Edits, Appends, Loads, Sees, PackageJob, IdleJob, At, Editors
<1>. QED  BY <1>1, Advances DEF IdleJob

(* So does every step of a rebuild: newest only ever grows. *)
LEMMA RebuildBase ==
  ASSUME Base, NEW p \in Procs, ReadLog(p) \/ SaveContexts(p) \/ SaveRules(p)
  PROVE  Base' /\ Grows
<1>0. PICK j : j = proc[p]
  OBVIOUS
<1>1. /\ Len(log) \in Nat /\ newest \in Nat /\ Len(lifecycle) \in Nat
      /\ Shape /\ crashes \in Nat /\ Fits(j)
  BY <1>0, LenProperties DEF Base, LogTyped, IndexesBehind, MarksTyped, Shape, Jobs
<1> USE DEF Fits, Reads, Saves, Edits, Appends, Loads, Sees, PackageJob, At
<1>2. CASE ReadLog(p)
  <2>1. PICK got : got = [len |-> Len(log), at |-> IF j.got = <<>> THEN 0 ELSE j.got.at]
    OBVIOUS
  <2>2. Go(p, "save_contexts", got) /\ UNCHANGED <<log, indexes, marks, settled, newest, crashes>>
    BY <1>0, <1>2, <2>1 DEF ReadLog
  <2>3. /\ j.op \in Editors /\ got.len \in 0 .. Len(log') /\ got.at \in 0 .. got.len
        /\ got = [len |-> got.len, at |-> got.at]
        /\ (got.at = 0 => IsTask(j) /\ j.job.began <= got.len)
    BY <1>0, <1>1, <1>2, <2>1 DEF ReadLog
  <2>4. Fits(At("save_contexts", j.op, j.job, got))'
    BY <2>3 DEF IsTask, Editors
  <2>. QED  BY <1>0, <1>1, <2>2, <2>4, GoesOn, Quiet, Advances
<1>3. CASE SaveContexts(p)
  <2>1. /\ Go(p, "save_rules", j.got) /\ UNCHANGED <<log, ruleIndex, marks, settled, crashes>>
        /\ ctxIndex' = j.got.len /\ newest' = IF j.got.len > newest THEN j.got.len ELSE newest
        /\ j.pc = "save_contexts"
    BY <1>0, <1>3 DEF SaveContexts
  <2>2. /\ newest' \in 0 .. Len(log) /\ newest <= newest' /\ ctxIndex' \in 0 .. newest'
    BY <1>1, <2>1 DEF Base, IndexesBehind
  <2>3. LogTyped' /\ MarksTyped' /\ Grows
    BY <1>1, <2>1, <2>2 DEF Base, LogTyped, MarksTyped, Grows, marks
  <2>4. IndexesBehind'
    BY <1>1, <2>1, <2>2 DEF Base, IndexesBehind
  <2>5. Fits(At("save_rules", j.op, j.job, j.got))'
    BY <1>1, <2>1, <2>2 DEF IsTask, Editors
  <2>. QED  BY <1>0, <1>1, <2>1, <2>3, <2>4, <2>5, GoesOn, Advances
<1>4. CASE SaveRules(p)
  <2>1. /\ UNCHANGED <<log, ctxIndex, marks, newest, crashes>>
        /\ ruleIndex' = j.got.len /\ j.pc = "save_rules"
    BY <1>0, <1>4 DEF SaveRules
  <2>2. /\ j.got.len \in 0 .. newest /\ j.got.at \in 0 .. j.got.len /\ j.op \in Editors
        /\ newest \in 0 .. Len(log)
    BY <1>1, <2>1 DEF Base, IndexesBehind
  <2>3. LogTyped' /\ MarksTyped' /\ Grows
    BY <1>1, <2>1 DEF Base, LogTyped, MarksTyped, Grows, marks
  <2>4. CASE j.got.at > 0
    <3>1. End(p) /\ settled' = settled \cup {j.got.at}
      BY <1>0, <1>4, <2>4 DEF SaveRules
    <3>2. j.got.at \in 1 .. Len(log) /\ j.got.at <= newest
      BY <1>1, <2>2, <2>4
    <3>3. IndexesBehind'
      <4>1. ruleIndex' \in 0 .. newest' /\ ctxIndex' \in 0 .. newest' /\ newest' \in 0 .. Len(log')
        BY <2>1, <2>2 DEF Base, IndexesBehind
      <4>2. \A i \in settled' : i = j.got.at \/ i \in settled
        BY <3>1
      <4>. QED  BY <2>1, <3>2, <4>1, <4>2 DEF Base, IndexesBehind
    <3>. QED  BY <1>1, <2>1, <2>3, <3>1, <3>3, EndsBase
  <2>5. CASE ~(j.got.at > 0)
    <3>1. Go(p, "edit", <<>>) /\ UNCHANGED settled
      BY <1>0, <1>4, <2>5 DEF SaveRules
    <3>2. IndexesBehind'
      BY <1>1, <2>1, <2>2, <3>1 DEF Base, IndexesBehind
    <3>3. j.got.at = 0 /\ newest' = newest
      BY <1>1, <2>1, <2>2, <2>5
    <3>4. IsTask(j) /\ j.job.began <= newest'
      BY <1>1, <2>1, <2>2, <3>3 DEF IsTask
    <3>5. Fits(At("edit", j.op, j.job, <<>>))'
      BY <3>4 DEF IsTask, EditOps
    <3>. QED  BY <1>0, <1>1, <2>1, <2>3, <3>1, <3>2, <3>5, GoesOn, Advances
  <2>. QED  BY <2>4, <2>5
<1>. QED  BY <1>2, <1>3, <1>4

(* A command that goes on to pc without touching the log or an index *)
LEMMA GoesQuietly ==
  ASSUME Base, NEW p \in Procs, NEW pc, NEW op, NEW job, NEW got,
         UNCHANGED <<log, indexes, marks, settled, newest, crashes>>,
         proc' = [proc EXCEPT ![p] = At(pc, op, job, got)], Fits(At(pc, op, job, got))
  PROVE  Base' /\ Grows
<1>1. LogTyped' /\ IndexesBehind' /\ MarksTyped' /\ Grows /\ crashes' \in Nat
  BY Quiet DEF Base, Shape
<1>2. Fits(At(pc, op, job, got))'
  BY <1>1, StaysFit
<1>. QED  BY <1>1, <1>2, Advances

(* A command that ends without touching the log or an index. *)
LEMMA EndsQuietly ==
  ASSUME Base, NEW p \in Procs, End(p), crashes' \in Nat,
         UNCHANGED <<log, indexes, marks, settled, newest>>
  PROVE  Base' /\ Grows
BY Quiet, EndsBase

(* What an editor makes of the index it rebuilt fits the prefix of that index. *)
LEMMA EditBase ==
  ASSUME Base, NEW p \in Procs, LoadForEdit(p)
  PROVE  Base' /\ Grows
<1>0. PICK j : j = proc[p]
  OBVIOUS
<1>1. /\ Len(log) \in Nat /\ newest \in 0 .. Len(log) /\ ctxIndex \in 0 .. newest /\ LogTyped
      /\ Shape /\ crashes' \in Nat /\ Fits(j) /\ j.pc = "edit"
      /\ UNCHANGED <<log, indexes, marks, settled, newest, crashes>>
  BY <1>0, LenProperties DEF Base, LogTyped, IndexesBehind, Shape, Jobs, LoadForEdit
<1>2. IsTask(j) /\ j.job.began <= newest
  BY <1>1 DEF Fits, Edits
<1>3. CASE ~KnownAt(j.job.id, ctxIndex)
  BY <1>0, <1>1, <1>3, EndsQuietly DEF LoadForEdit
<1>4. CASE KnownAt(j.job.id, ctxIndex)
  <2> DEFINE base == ContextAt(j.job.id, ctxIndex)
  <2>1. base = log[LastOf(SnapshotsOf(j.job.id, ctxIndex))].data /\ base \in Ctx /\ base.id = j.job.id
    BY <1>1, <1>2, <1>4, ContextsTyped, SnapshotsTyped DEF KnownAt, IsTask
  <2>2. PICK data : data = Edited(p, base)
    OBVIOUS
  <2>3. /\ data \in Ctx /\ data.id = j.job.id
        /\ IF j.op = "update" THEN data.cls = base.cls ELSE data.text = base.text
    <3> HIDE DEF base
    <3>1. CASE j.op = "classify"
      BY <1>0, <1>2, <2>1, <2>2, <3>1 DEF Edited, Ctx, IsTask
    <3>2. CASE j.op = "update"
      BY <1>0, <1>2, <2>1, <2>2, <3>2 DEF Edited, Ctx, IsTask
    <3>. QED  BY <1>2, <3>1, <3>2 DEF IsTask, EditOps
  <2>4. PICK job : job = Line("context", j.op, data, j.job.began, Stale)
    OBVIOUS
  <2>5. /\ job.op = j.op /\ job.data = data /\ job.began = j.job.began /\ job.stale = Stale
        /\ IsLine(job)
    BY <1>2, <2>3, <2>4 DEF IsLine, Line, IsTask, EditOps, SnapshotOps
  <2>6. EditFits(job)
    <3> SUFFICES ASSUME ~job.stale PROVE \E n \in job.began .. Len(log) : MadeFrom(job, n)
      BY DEF EditFits
    <3>1. ctxIndex = newest
      <4>1. ~Stale
        BY <2>5
      <4>. QED  BY <1>1, <4>1 DEF Stale
    <3>2. ctxIndex \in job.began .. Len(log)
      BY <1>1, <1>2, <2>5, <3>1 DEF IsTask
    <3>3. MadeFrom(job, ctxIndex)
      BY <1>4, <2>1, <2>3, <2>5 DEF MadeFrom, KnownAt
    <3>. QED  BY <3>2, <3>3
  <2>7. Fits(At("append", j.op, job, j.got))
    BY <1>2, <2>5, <2>6
    DEF IsTask, EditOps, Editors, At, Fits, Reads, Saves, Edits, Appends, Loads, Sees, PackageJob
  <2>8. proc' = [proc EXCEPT ![p] = At("append", j.op, job, j.got)]
    BY ZenonT(60), <1>0, <1>1, <1>4, <2>2, <2>4 DEF LoadForEdit, Shape, At
  <2>. QED  BY <1>1, <2>7, <2>8, GoesQuietly
<1>. QED  BY <1>3, <1>4

(* A new line of the log is a line, and an index is no further than it was. *)
LEMMA AppendBase ==
  ASSUME Base, NEW p \in Procs, AppendEvent(p)
  PROVE  Base' /\ Grows
<1>0. PICK j : j = proc[p]
  OBVIOUS
<1>1. /\ Shape /\ crashes \in Nat /\ Fits(j) /\ j.pc = "append" /\ LogTyped /\ IndexesBehind
      /\ log' = Append(log, j.job)
      /\ UNCHANGED <<ctxIndex, ruleIndex, lifecycle, tornTail, newest, crashes>>
  BY <1>0 DEF Base, Shape, Jobs, AppendEvent, indexes, marks
<1>2. /\ j.op \in Editors \cup {"preview", "plan"} /\ j.job.op = j.op /\ IsLine(j.job)
  BY <1>1 DEF Fits, Appends
<1>3. /\ \E T : log' \in Seq(T) /\ Len(log') = Len(log) + 1 /\ Len(log) \in Nat
      /\ log'[Len(log) + 1] = j.job /\ \A i \in 1 .. Len(log) : log'[i] = log[i]
  <2>1. PICK S : log \in Seq(S)
    BY <1>1 DEF LogTyped
  <2>2. PICK e : e = j.job
    OBVIOUS
  <2>3. /\ \E T : Append(log, e) \in Seq(T)
        /\ Len(Append(log, e)) = Len(log) + 1 /\ Len(log) \in Nat
        /\ Append(log, e)[Len(log) + 1] = e
        /\ \A i \in 1 .. Len(log) : Append(log, e)[i] = log[i]
    BY ZenonT(60), <2>1, AppendGrows
  <2>. QED  BY <1>1, <2>2, <2>3
<1>4. LogTyped' /\ Grows /\ MarksTyped'
  <2>1. \A i \in 1 .. Len(log') : i = Len(log) + 1 \/ i \in 1 .. Len(log)
    BY <1>3
  <2>2. LogTyped'
    BY <1>1, <1>2, <1>3, <2>1 DEF LogTyped, IsLine
  <2>3. Len(lifecycle) \in Nat /\ newest \in Nat
    BY LenProperties DEF Base, MarksTyped, IndexesBehind
  <2>. QED  BY <1>1, <1>3, <2>2, <2>3 DEF Grows, Base, MarksTyped
<1>5. CASE j.op \in Editors
  <2>1. UNCHANGED settled
    BY <1>0, <1>5 DEF AppendEvent
  <2>2. IndexesBehind'
    BY <1>1, <1>3, <2>1 DEF IndexesBehind
  <2>3. PICK got : got = [at |-> Len(log) + 1]
    OBVIOUS
  <2>4. proc' = [proc EXCEPT ![p] = At("read", j.op, <<>>, got)]
    <3>1. Takes(p, "read", <<>>, got)
      BY <1>0, <1>5, <2>3 DEF AppendEvent, Takes
    <3>. QED  BY <1>0, <1>1, <3>1, TakesOn
  <2>5. got # <<>>
    <3>1. DOMAIN got = {"at"} /\ DOMAIN <<>> = {}
      BY <2>3
    <3>. QED  BY <3>1
  <2>6. got = [at |-> got.at] /\ got.at \in 1 .. Len(log')
    BY <1>3, <2>3
  <2>7. Fits(At("read", j.op, <<>>, got))'
    BY <1>5, <2>5, <2>6
    DEF Editors, At, Fits, Reads, Saves, Edits, Appends, Loads, Sees, PackageJob
  <2>. QED  BY <1>1, <1>4, <2>2, <2>4, <2>7, Advances
<1>6. CASE j.op \notin Editors
  <2>1. End(p) /\ settled' = settled \cup {Len(log) + 1}
    BY <1>0, <1>6 DEF AppendEvent
  <2>2. j.job.kind \notin {"context", "rule"}
    BY <1>2, <1>6 DEF IsLine, Editors, SnapshotOps, EditOps
  <2>3. IndexesBehind'
    <3>1. \A i \in settled' : i = Len(log) + 1 \/ i \in settled
      BY <2>1
    <3>2. /\ newest' \in 0 .. Len(log') /\ ctxIndex' \in 0 .. newest' /\ ruleIndex' \in 0 .. newest'
          /\ settled' \subseteq 1 .. Len(log')
      <4>1. settled \subseteq 1 .. Len(log)
        BY <1>1 DEF IndexesBehind
      <4>2. 1 .. Len(log') = (1 .. Len(log)) \cup {Len(log) + 1}
        BY <1>3
      <4>3. settled' \subseteq 1 .. Len(log')
        BY <2>1, <4>1, <4>2
      <4>. QED  BY <1>1, <1>3, <4>3 DEF IndexesBehind
    <3>. QED  BY <1>1, <1>3, <2>2, <3>1, <3>2 DEF IndexesBehind
  <2>. QED  BY <1>1, <1>4, <2>1, <2>3, EndsBase
<1>. QED  BY <1>5, <1>6

(* What ctxIndex shows and what had ended, when neither index is old *)
LEMMA ReaderBase ==
  ASSUME Base, NEW p \in Procs,
         LoadContexts(p) \/ BuildPlan(p) \/ BuildPreview(p) \/ BuildPackage(p)
  PROVE  Base' /\ Grows
<1>0. PICK j : j = proc[p]
  OBVIOUS
<1>1. /\ Len(log) \in Nat /\ Shape /\ crashes' \in Nat /\ Fits(j)
      /\ newest \in 0 .. Len(log) /\ ctxIndex \in 0 .. newest /\ ruleIndex \in 0 .. newest
      /\ settled \subseteq 1 .. Len(log)
      /\ \A i \in settled : log[i].kind \in {"context", "rule"} => i <= newest
      /\ UNCHANGED <<log, indexes, marks, settled, newest, crashes>>
  BY <1>0, LenProperties DEF Base, LogTyped, IndexesBehind, Shape, Jobs,
     LoadContexts, BuildPlan, BuildPreview, BuildPackage
<1> USE DEF Fits, Reads, Saves, Edits, Appends, Loads, Sees, PackageJob
<1>2. CASE LoadContexts(p)
  <2>1. PICK got : got = [view |-> ctxIndex, stale |-> Stale, known |-> settled]
    OBVIOUS
  <2>2. PICK pc : pc = IF j.op = "plan" THEN "rules" ELSE "build"
    OBVIOUS
  <2>3. Go(p, pc, got) /\ j.pc = "load" /\ j.op \in Readers
    BY <1>0, <1>1, <1>2, <2>1, <2>2 DEF LoadContexts
  <2>4. /\ got = [view |-> got.view, stale |-> got.stale, known |-> got.known]
        /\ got.view = ctxIndex /\ got.known = settled /\ got.stale = Stale
    BY <2>1
  <2>5. got.stale \in BOOLEAN
    BY <2>4 DEF Stale
  <2>6. ~got.stale => ctxIndex = newest
    <3>1. ~Stale => ~(ctxIndex < newest)
      BY DEF Stale
    <3>2. ~(ctxIndex < newest) => ctxIndex = newest
      BY <1>1
    <3>. QED  BY <2>4, <3>1, <3>2
  <2>7. Fits(At(pc, j.op, j.job, got))
    <3>1. j.op = "package" => PackageJob(At(pc, j.op, j.job, got))
      BY <1>1, <2>2, <2>3 DEF At, PackageSteps
    <3>2. Sees(At(pc, j.op, j.job, got))
      BY <1>1, <2>2, <2>3, <2>4, <2>5, <2>6 DEF At
    <3>. QED  BY <2>2, <2>3, <3>1, <3>2 DEF At
  <2>. QED  BY SMTT(60), <1>0, <1>1, <2>3, <2>7, GoesOn, GoesQuietly
<1>3. CASE BuildPlan(p)
  <2>1. PICK job :
          job = Line("plan", "plan", InjectionPlan(ContextsAt(j.got.view), RulesAt(ruleIndex)), 0, FALSE)
    OBVIOUS
  <2>2. PICK got : got = [j.got EXCEPT !.stale = j.got.stale \/ Stale]
    OBVIOUS
  <2>3. proc' = [proc EXCEPT ![p] = At("append", j.op, job, got)]
    <3>1. Takes(p, "append", job, got)
      BY <1>0, <1>3, <2>1, <2>2 DEF BuildPlan, Takes
    <3>. QED  BY <1>0, <1>1, <3>1, TakesOn
  <2>4. j.op = "plan" /\ IsLine(job) /\ job.op = "plan" /\ EditFits(job)
    BY <1>0, <1>1, <1>3, <2>1 DEF BuildPlan, IsLine, Line, SnapshotOps, EditOps, EditFits
  <2>5. Fits(At("append", j.op, job, got))
    BY <2>4 DEF At
  <2>. QED  BY <1>1, <2>3, <2>5, GoesQuietly
<1>4. CASE BuildPreview(p)
  <2>1. PICK job :
          job = Line("preview", "preview", Preview(ContextsAt(j.got.view), j.job.ids, Readable), 0, FALSE)
    OBVIOUS
  <2>2. proc' = [proc EXCEPT ![p] = At("append", j.op, job, <<>>)] /\ j.op = "preview"
    <3>1. Takes(p, "append", job, <<>>) /\ j.op = "preview"
      BY <1>0, <1>4, <2>1 DEF BuildPreview, Takes
    <3>. QED  BY <1>0, <1>1, <3>1, TakesOn
  <2>3. IsLine(job) /\ job.op = "preview" /\ EditFits(job)
    BY <2>1 DEF IsLine, Line, SnapshotOps, EditOps, EditFits
  <2>4. Fits(At("append", j.op, job, <<>>))
    BY <2>2, <2>3 DEF At
  <2>. QED  BY <1>1, <2>2, <2>4, GoesQuietly
<1>5. CASE BuildPackage(p)
  <2>1. PICK got : Go(p, "manifest", got) /\ j.op = "package"
    BY <1>0, <1>5 DEF BuildPackage
  <2>2. Fits(At("manifest", j.op, j.job, got))
    BY <1>1, <2>1 DEF At, PackageSteps
  <2>. QED  BY SMTT(60), <1>0, <1>1, <2>1, <2>2, GoesOn, GoesQuietly
<1>. QED  BY <1>2, <1>3, <1>4, <1>5

(* The files of packages, reviews and crashes touch none of it. *)
LEMMA FilesBase ==
  ASSUME Base, NEW p \in Procs,
         WriteManifest(p) \/ WriteRecords(p) \/ AuditPackage(p) \/ MarksRaise(p) \/ ReviewPackage(p) \/ Crash(p)
  PROVE  Base' /\ Grows
<1>0. PICK j : j = proc[p]
  OBVIOUS
<1>1. Shape /\ Fits(j) /\ crashes \in Nat
  BY <1>0 DEF Base, Shape, Jobs
<1>2. CASE WriteManifest(p)
  <2>1. /\ Go(p, "records", j.got) /\ j.pc = "manifest"
        /\ UNCHANGED <<log, indexes, marks, settled, newest, crashes>>
    BY <1>0, <1>2 DEF WriteManifest
  <2>2. Fits(At("records", j.op, j.job, j.got))
    BY <1>1, <2>1
    DEF At, Fits, Reads, Saves, Edits, Appends, Loads, Sees, PackageJob, PackageSteps
  <2>. QED  BY <1>0, <1>1, <2>1, <2>2, GoesOn, GoesQuietly
<1>3. CASE WriteRecords(p)
  <2>1. /\ Go(p, "audit", j.got) /\ j.pc = "records"
        /\ UNCHANGED <<log, indexes, marks, settled, newest, crashes>>
    BY <1>0, <1>3 DEF WriteRecords
  <2>2. Fits(At("audit", j.op, j.job, j.got))
    BY <1>1, <2>1
    DEF At, Fits, Reads, Saves, Edits, Appends, Loads, Sees, PackageJob, PackageSteps
  <2>. QED  BY <1>0, <1>1, <2>1, <2>2, GoesOn, GoesQuietly
<1>4. CASE AuditPackage(p) \/ MarksRaise(p)
  BY <1>1, <1>4, EndsQuietly DEF AuditPackage, MarksRaise
<1>5. CASE ReviewPackage(p)
  <2>1. UNCHANGED <<log, indexes, marks, settled, newest>> /\ UNCHANGED <<proc, crashes>>
    BY <1>5 DEF ReviewPackage
  <2>2. LogTyped' /\ IndexesBehind' /\ MarksTyped' /\ Grows
    BY <2>1, Quiet
  <2>3. \A q : q \in Jobs' => Fits(q)'
    BY <2>1, <2>2, StaysFit DEF Base, Jobs
  <2>. QED  BY <2>1, <2>2, <2>3 DEF Base, Shape
<1>6. CASE Crash(p)
  <2>1. End(p) /\ crashes' \in Nat /\ UNCHANGED <<log, indexes, marks, settled, newest>>
    BY <1>1, <1>6 DEF Crash
  <2>. QED  BY <2>1, EndsQuietly
<1>. QED  BY <1>2, <1>3, <1>4, <1>5, <1>6

(* A marker, whole or torn: all that is known of lifecycle.jsonl *)
LEMMA MarkBase ==
  ASSUME Base, NEW p \in Procs, Mark(p) \/ MarkTorn(p)
  PROVE  /\ Base' /\ Grows /\ UNCHANGED proc /\ Len(lifecycle') = Len(lifecycle) + 1
         /\ \A i \in 1 .. Len(lifecycle) : lifecycle'[i] = lifecycle[i]
         /\ LET e == lifecycle'[Len(lifecycle) + 1] IN
            \/ e.ended /\ e.ok = ~tornTail /\ crashes' = crashes
            \/ ~e.ended /\ ~e.ok /\ crashes' = crashes + 1
<1>1. /\ UNCHANGED <<log, indexes, settled, newest, proc>> /\ tornTail \in BOOLEAN
      /\ crashes \in Nat /\ MarksTyped
  BY DEF Mark, MarkTorn, Base, MarksTyped, Shape
<1>2. PICK e :
        /\ lifecycle' = Append(lifecycle, e)
        /\ e = [target |-> e.target, action |-> e.action, ok |-> e.ok, ended |-> e.ended]
        /\ e.ended \in BOOLEAN /\ e.ok \in BOOLEAN /\ tornTail' = ~e.ended
        /\ \/ e.ended /\ e.ok = ~tornTail /\ crashes' = crashes
           \/ ~e.ended /\ ~e.ok /\ crashes' = crashes + 1
  <2>1. CASE Mark(p)
    <3>1. PICK id \in Ids, a \in GivenMarks :
            lifecycle' = Append(lifecycle, [target |-> id, action |-> a, ok |-> ~tornTail, ended |-> TRUE])
      BY <2>1 DEF Mark
    <3>2. tornTail' = FALSE /\ crashes' = crashes
      BY <2>1 DEF Mark
    <3>3. PICK e : e = [target |-> id, action |-> a, ok |-> ~tornTail, ended |-> TRUE]
      OBVIOUS
    <3>4. /\ e = [target |-> e.target, action |-> e.action, ok |-> e.ok, ended |-> e.ended]
          /\ e.ended = TRUE /\ e.ok = ~tornTail
      BY <3>3
    <3>5. e.ended \in BOOLEAN /\ e.ok \in BOOLEAN
      BY <1>1, <3>4
    <3>6. lifecycle' = Append(lifecycle, e)
      BY <3>1, <3>3
    <3>. QED  BY <1>1, <3>2, <3>4, <3>5, <3>6
  <2>2. CASE MarkTorn(p)
    <3>1. PICK id \in Ids, a \in GivenMarks :
            lifecycle' = Append(lifecycle, [target |-> id, action |-> a, ok |-> FALSE, ended |-> FALSE])
      BY <2>2 DEF MarkTorn
    <3>2. tornTail' = TRUE /\ crashes' = crashes + 1
      BY <2>2 DEF MarkTorn
    <3>3. PICK e : e = [target |-> id, action |-> a, ok |-> FALSE, ended |-> FALSE]
      OBVIOUS
    <3>4. /\ e = [target |-> e.target, action |-> e.action, ok |-> e.ok, ended |-> e.ended]
          /\ e.ended = FALSE /\ e.ok = FALSE
      BY <3>3
    <3>5. e.ended \in BOOLEAN /\ e.ok \in BOOLEAN
      BY <1>1, <3>4
    <3>6. lifecycle' = Append(lifecycle, e)
      BY <3>1, <3>3
    <3>. QED  BY <1>1, <3>2, <3>4, <3>5, <3>6
  <2>. QED  BY <2>1, <2>2
<1>3. /\ \E T : lifecycle' \in Seq(T) /\ Len(lifecycle') = Len(lifecycle) + 1 /\ Len(lifecycle) \in Nat
      /\ lifecycle'[Len(lifecycle) + 1] = e
      /\ \A i \in 1 .. Len(lifecycle) : lifecycle'[i] = lifecycle[i]
  <2>1. PICK S : lifecycle \in Seq(S)
    BY <1>1 DEF MarksTyped
  <2>2. /\ \E T : Append(lifecycle, e) \in Seq(T)
        /\ Len(Append(lifecycle, e)) = Len(lifecycle) + 1 /\ Len(lifecycle) \in Nat
        /\ Append(lifecycle, e)[Len(lifecycle) + 1] = e
        /\ \A i \in 1 .. Len(lifecycle) : Append(lifecycle, e)[i] = lifecycle[i]
    BY ZenonT(60), <2>1, AppendGrows
  <2>. QED  BY <1>2, <2>2
<1>4. MarksTyped'
  <2>1. \A i \in 1 .. Len(lifecycle') : i = Len(lifecycle) + 1 \/ i \in 1 .. Len(lifecycle)
    BY <1>3
  <2>2. lifecycle' # <<>> /\ tornTail' \in BOOLEAN
        /\ tornTail' = ~lifecycle'[Len(lifecycle')].ended
    <3>1. lifecycle' # <<>>
      BY <1>3, EmptySeq
    <3>2. tornTail' \in BOOLEAN /\ tornTail' = ~lifecycle'[Len(lifecycle')].ended
      BY <1>2, <1>3
    <3>. QED  BY <3>1, <3>2
  <2>3. e.ended /\ ~e.ok => Len(lifecycle) + 1 > 1 /\ ~lifecycle'[Len(lifecycle)].ended
    <3> SUFFICES ASSUME e.ended, ~e.ok PROVE Len(lifecycle) + 1 > 1 /\ ~lifecycle'[Len(lifecycle)].ended
      OBVIOUS
    <3>1. tornTail
      BY <1>1, <1>2
    <3>2. lifecycle # <<>> /\ ~lifecycle[Len(lifecycle)].ended
      BY <1>1, <3>1 DEF MarksTyped
    <3>3. Len(lifecycle) \in 1 .. Len(lifecycle)
      BY <1>1, <1>3, <3>2, EmptySeq DEF MarksTyped
    <3>. QED  BY <1>3, <3>2, <3>3
  <2>4. ASSUME NEW i \in 1 .. Len(lifecycle')
        PROVE  /\ lifecycle'[i] = [target |-> lifecycle'[i].target, action |-> lifecycle'[i].action,
                                   ok |-> lifecycle'[i].ok, ended |-> lifecycle'[i].ended]
               /\ lifecycle'[i].ended \in BOOLEAN /\ lifecycle'[i].ok \in BOOLEAN
               /\ lifecycle'[i].ended /\ ~lifecycle'[i].ok => i > 1 /\ ~lifecycle'[i - 1].ended
    <3>1. CASE i = Len(lifecycle) + 1
      BY <1>2, <1>3, <2>3, <3>1
    <3>2. CASE i \in 1 .. Len(lifecycle)
      <4>1. i > 1 => i - 1 \in 1 .. Len(lifecycle)
        BY <1>3, <3>2
      <4>. QED  BY <1>1, <1>3, <3>2, <4>1 DEF MarksTyped
    <3>. QED  BY <2>1, <3>1, <3>2
  <2>. QED  BY <1>3, <2>2, <2>4 DEF MarksTyped
<1>5. LogTyped' /\ IndexesBehind' /\ Grows
  <2>1. Len(log) \in Nat /\ newest \in Nat
    BY LenProperties DEF Base, LogTyped, IndexesBehind
  <2>2. UNCHANGED <<log, newest, ctxIndex, ruleIndex, settled>>
    BY <1>1 DEF indexes
  <2>3. LogTyped'
    BY <2>2 DEF Base, LogTyped
  <2>4. IndexesBehind'
    BY <2>2 DEF Base, IndexesBehind
  <2>5. Len(lifecycle) <= Len(lifecycle')
    BY <1>3
  <2>6. Grows
    BY <1>3, <2>1, <2>2, <2>5 DEF Grows
  <2>. QED  BY <2>3, <2>4, <2>6
<1>6. Base'
  <2>1. \A q : q \in Jobs' => Fits(q)'
    BY <1>1, <1>4, <1>5, StaysFit DEF Base, Jobs
  <2>2. crashes' \in Nat
    BY <1>1, <1>2
  <2>. QED  BY <1>1, <1>4, <1>5, <2>1, <2>2 DEF Base, Shape
<1>. QED  BY <1>1, <1>2, <1>3, <1>5, <1>6

(* The base holds of an empty project. *)
LEMMA InitBase == Init => Base
<1> SUFFICES ASSUME Init PROVE Base
  OBVIOUS
<1>1. Shape /\ crashes = 0
  BY DEF Init, Shape, Idle, At
<1>2. LogTyped /\ IndexesBehind /\ MarksTyped
  <2>1. log = <<>> /\ lifecycle = <<>> /\ log \in Seq({}) /\ lifecycle \in Seq({})
    BY EmptySeq DEF Init
  <2>2. Len(log) = 0 /\ Len(lifecycle) = 0
    BY <2>1
  <2>3. LogTyped
    BY <2>1, <2>2 DEF LogTyped
  <2>4. IndexesBehind
    BY <2>1, <2>2 DEF Init, IndexesBehind
  <2>5. MarksTyped
    <3>1. tornTail = FALSE /\ ~(lifecycle # <<>>) /\ 1 .. Len(lifecycle) = {}
      BY <2>1, <2>2 DEF Init
    <3>2. tornTail = (lifecycle # <<>> /\ ~lifecycle[Len(lifecycle)].ended)
      BY <3>1
    <3>. QED  BY <2>1, <3>1, <3>2 DEF MarksTyped
  <2>. QED  BY <2>3, <2>4, <2>5
<1>3. \A j \in Jobs : j = IdleJob
  BY IdleFits DEF Init, Jobs
<1>. QED  BY <1>1, <1>2, <1>3, IdleFits DEF Base

(* Every step keeps the base, and the files it reads only grow. *)
LEMMA NextBase ==
  ASSUME Base, [Next]_vars
  PROVE  Base' /\ Grows
<1>1. CASE UNCHANGED vars
  <2>1. UNCHANGED <<log, indexes, marks, settled, newest>> /\ UNCHANGED <<proc, crashes>>
    BY <1>1 DEF vars
  <2>2. LogTyped' /\ IndexesBehind' /\ MarksTyped' /\ Grows
    BY <2>1, Quiet
  <2>. QED  BY <2>1, <2>2, StaysFit DEF Base, Jobs, Shape
<1>2. CASE Next
  <2>1. PICK p \in Procs : Begin(p) \/ Step(p) \/ Crash(p)
    BY <1>2 DEF Next
  <2>2. Base' /\ Grows
    BY <2>1, BeginBase, RebuildBase, EditBase, AppendBase, ReaderBase, FilesBase, MarkBase
    DEF Begin, Step
  <2>. QED  BY <2>1, <2>2
<1>. QED  BY <1>1, <1>2

(* The type invariant: log, indexes, markers and every command in its place. *)
THEOREM ContextBase == Spec => []Base
<1>1. Base /\ [Next]_vars => Base'
  BY NextBase
<1>. QED  BY InitBase, <1>1, PTL DEF Spec

----------------------------------------------------------------------------
(* The files of the packages *)

(* A step is one command's, which stays what it is or ends. *)
LEMMA StepKeepsOp ==
  ASSUME Base, NEW p \in Procs, Step(p) \/ Crash(p)
  PROVE  /\ \A q \in Procs \ {p} : proc'[q] = proc[q]
         /\ proc'[p] = Idle \/ proc'[p].op = proc[p].op
<1>0. PICK j : j = proc[p]
  OBVIOUS
<1>1. Shape
  BY DEF Base
<1>2. ASSUME NEW pc, NEW job, NEW got, proc' = [proc EXCEPT ![p] = At(pc, j.op, job, got)]
      PROVE  (\A q \in Procs \ {p} : proc'[q] = proc[q]) /\ proc'[p].op = proc[p].op
  BY <1>0, <1>1, <1>2 DEF Shape, At
<1>3. ASSUME End(p)
      PROVE  (\A q \in Procs \ {p} : proc'[q] = proc[q]) /\ proc'[p] = Idle
  BY <1>1, <1>3 DEF Shape, End
<1>4. ASSUME NEW pc, NEW got, Go(p, pc, got)
      PROVE  (\A q \in Procs \ {p} : proc'[q] = proc[q]) /\ proc'[p].op = proc[p].op
  BY <1>0, <1>1, <1>2, <1>4, GoesOn
<1>5. ASSUME NEW pc, NEW job, NEW got, Takes(p, pc, job, got)
      PROVE  (\A q \in Procs \ {p} : proc'[q] = proc[q]) /\ proc'[p].op = proc[p].op
  BY <1>0, <1>1, <1>2, <1>5, TakesOn
<1>6. CASE ReadLog(p) \/ SaveContexts(p) \/ LoadContexts(p) \/ BuildPackage(p) \/ WriteManifest(p) \/ WriteRecords(p)
  BY <1>4, <1>6 DEF ReadLog, SaveContexts, LoadContexts, BuildPackage, WriteManifest, WriteRecords
<1>7. CASE SaveRules(p) \/ AuditPackage(p) \/ MarksRaise(p) \/ Crash(p)
  BY <1>3, <1>4, <1>7 DEF SaveRules, AuditPackage, MarksRaise, Crash
<1>8. CASE LoadForEdit(p)
  <2>1. CASE KnownAt(j.job.id, ctxIndex)
    <3>1. PICK job :
            job = Line("context", j.op, Edited(p, ContextAt(j.job.id, ctxIndex)), j.job.began, Stale)
      OBVIOUS
    <3>2. proc' = [proc EXCEPT ![p] = At("append", j.op, job, j.got)]
      BY ZenonT(60), <1>0, <1>1, <1>8, <2>1, <3>1 DEF LoadForEdit, Shape, At
    <3>. QED  BY <1>2, <3>2
  <2>2. CASE ~KnownAt(j.job.id, ctxIndex)
    BY <1>0, <1>3, <1>8, <2>2 DEF LoadForEdit
  <2>. QED  BY <2>1, <2>2
<1>9. CASE AppendEvent(p)
  <2>1. CASE j.op \in Editors
    <3>1. Takes(p, "read", <<>>, [at |-> Len(log) + 1])
      BY <1>0, <1>9, <2>1 DEF AppendEvent, Takes
    <3>. QED  BY <1>5, <3>1
  <2>2. CASE j.op \notin Editors
    BY <1>0, <1>3, <1>9, <2>2 DEF AppendEvent
  <2>. QED  BY <2>1, <2>2
<1>10. CASE BuildPlan(p)
  <2>1. PICK job, got : Takes(p, "append", job, got)
    BY <1>10 DEF BuildPlan, Takes
  <2>. QED  BY <1>5, <2>1
<1>11. CASE BuildPreview(p)
  <2>1. PICK job : Takes(p, "append", job, <<>>)
    BY <1>11 DEF BuildPreview, Takes
  <2>. QED  BY <1>5, <2>1
<1>. QED  BY <1>6, <1>7, <1>8, <1>9, <1>10, <1>11 DEF Step

(* A step of p that leaves the files alone *)
LEMMA PackagesKept ==
  ASSUME Base, PackageInv, NEW p \in Procs, UNCHANGED outbox,
         \A q \in Procs \ {p} : proc'[q] = proc[q],
         NEW j, j = proc'[p], NEW i, i = proc[p],
         \/ j.op # "package"
         \/ j.op = "package" /\ i.op = "package" /\ j.job.pkg = i.job.pkg /\ Writes(j),
         crashes' \in Nat, crashes' >= crashes,
         \/ i.pc \notin {"manifest", "records", "audit"}
         \/ crashes' > 0
         \/ packages[i.job.pkg].records # Missing
  PROVE  PackageInv'
<1> USE DEF PackageInv
<1>0. crashes \in Nat
  BY DEF Base, Shape
<1>1. PackagesTyped' /\ FilesAgree' /\ Announced' /\ Reviewed'
  BY DEF outbox, PackagesTyped, FilesAgree, Announced, Reviewed
<1>2. OwnPackage'
  BY DEF OwnPackage
<1>3. \A q \in Procs : Writes(proc[q])'
  <2>1. ASSUME NEW q \in Procs, NEW h, h = proc'[q] PROVE Writes(h)'
    <3>1. Writes(h)
      <4>1. CASE q = p
        BY <2>1, <4>1 DEF Writes
      <4>2. CASE q # p
        BY <2>1, <4>2
      <4>. QED  BY <4>1, <4>2
    <3>. QED  BY <3>1 DEF Writes, outbox
  <2>. QED  BY <2>1 DEF Writes
<1>4. Unfinished'
  <2>1. SUFFICES ASSUME NEW k \in PackageIds, packages[k].manifest # Missing, packages[k].records = Missing,
                        ~(crashes' > 0)
                 PROVE  \E q \in Packaging' : proc'[q].job.pkg = k
    BY DEF Unfinished, outbox
  <2>2. ~(crashes > 0)
    BY <1>0, <2>1
  <2>3. PICK q \in Packaging : proc[q].job.pkg = k
    BY <2>1, <2>2 DEF Unfinished
  <2>4. q # p
    BY <2>1, <2>3 DEF Packaging
  <2>. QED  BY <2>3, <2>4 DEF Packaging
<1>. QED  BY <1>1, <1>2, <1>3, <1>4

(* A record of a sensitive layer that leaves the project says so *)
LEMMA RecordWarns ==
  ASSUME NEW c \in Ctx, NEW target, NEW marked, NEW r, r = PackageRecord(c, target, marked)
  PROVE  /\ r.layer \in Layers \cup {Unclassified}
         /\ target = "external" /\ r.layer >= SensitiveContext =>
              "external_sensitive_context_not_allowed" \in r.warnings
<1>1. PICK l \in Layers \cup {Unclassified} : c.cls = Classification(l)
  BY DEF Ctx
<1>2. c.cls.layer = l /\ c.cls.external_allowed = FALSE
  BY <1>1 DEF Classification
<1>3. r.layer = l /\ ClassWarnings(c, target) \subseteq r.warnings
  BY <1>2 DEF PackageRecord
<1>4. target = "external" /\ l >= SensitiveContext =>
        "external_sensitive_context_not_allowed" \in ClassWarnings(c, target)
  BY <1>2 DEF ClassWarnings
<1>. QED  BY <1>3, <1>4

(* A package that leaves the project warns of each sensitive record. *)
LEMMA PackageWarns ==
  ASSUME LogTyped, NEW n \in 0 .. Len(log), NEW target, NEW ids, NEW asked, NEW marked, NEW pkg,
         pkg = Package(ContextsAt(n), target, ids, asked, marked)
  PROVE  pkg.target = target /\ WarnsOfSensitive(pkg.target, pkg.records)
<1>1. /\ pkg.target = target
      /\ pkg.records = {PackageRecord(c, target, marked) : c \in Select(ContextsAt(n), ids, marked)}
  BY DEF Package
<1>2. Select(ContextsAt(n), ids, marked) \subseteq Ctx
  BY ContextsTyped DEF Select, Named
<1>. QED  BY <1>1, <1>2, RecordWarns DEF WarnsOfSensitive

(* Where a command begins. *)
LEMMA StartsAt ==
  ASSUME Base, NEW p \in Procs, NEW op, NEW pc, NEW job, Start(p, op, pc, job)
  PROVE  /\ proc'[p] = At(pc, op, job, <<>>) /\ \A q \in Procs \ {p} : proc'[q] = proc[q]
         /\ proc[p] = Idle /\ UNCHANGED outbox /\ crashes' = crashes
BY DEF Base, Shape, Start, At

(* Commands that make no package *)
LEMMA OthersPackage ==
  ASSUME Base, PackageInv, NEW p \in Procs, UNCHANGED <<outbox, crashes>>,
         \A q \in Procs \ {p} : proc'[q] = proc[q],
         proc[p].pc \notin {"manifest", "records", "audit"}, proc'[p].op # "package"
  PROVE  PackageInv'
<1>1. PICK i, j : i = proc[p] /\ j = proc'[p]
  OBVIOUS
<1>2. crashes' \in Nat /\ crashes' >= crashes
  BY DEF Base, Shape
<1>. QED  BY <1>1, <1>2, PackagesKept

(* Editors, previews and plans leave packages alone. *)
LEMMA EditorsPackage ==
  ASSUME Base, PackageInv, NEW p \in Procs,
         \/ ReadLog(p) \/ SaveContexts(p) \/ SaveRules(p) \/ LoadForEdit(p) \/ AppendEvent(p)
         \/ BuildPlan(p) \/ BuildPreview(p)
  PROVE  PackageInv'
<1>0. PICK j : j = proc[p]
  OBVIOUS
<1>1. Fits(j)
  BY <1>0 DEF Base, Jobs
<1>2. UNCHANGED <<outbox, crashes>> /\ j.pc \in {"read", "save_contexts", "save_rules", "edit", "append", "rules", "build"}
  BY <1>0 DEF ReadLog, SaveContexts, SaveRules, LoadForEdit, AppendEvent, BuildPlan, BuildPreview
<1>3. j.op # "package"
  <2>1. j.pc = "build" => j.op = "preview"
    BY <1>0 DEF ReadLog, SaveContexts, SaveRules, LoadForEdit, AppendEvent, BuildPlan, BuildPreview
  <2>2. j.op = "package" => j.pc \in PackageSteps
    BY <1>1 DEF Fits, PackageJob
  <2>. QED  BY <1>2, <2>1, <2>2 DEF PackageSteps
<1>4. (\A q \in Procs \ {p} : proc'[q] = proc[q]) /\ (proc'[p] = Idle \/ proc'[p].op = j.op)
  BY <1>0, StepKeepsOp DEF Step
<1>5. proc'[p].op # "package"
  BY <1>3, <1>4 DEF Idle
<1>. QED  BY <1>0, <1>2, <1>4, <1>5, OthersPackage

(* A package begins with a directory of its own. *)
LEMMA BeginPackages ==
  ASSUME Base, PackageInv, NEW p \in Procs,
         \/ BeginAdd(p) \/ BeginRule(p) \/ BeginClassify(p) \/ BeginUpdate(p)
         \/ BeginPackage(p) \/ BeginPreview(p) \/ BeginPlan(p)
  PROVE  PackageInv'
<1>1. CASE \/ BeginAdd(p) \/ BeginRule(p) \/ BeginClassify(p) \/ BeginUpdate(p)
           \/ BeginPreview(p) \/ BeginPlan(p)
  <2>1. PICK op, pc, job : Start(p, op, pc, job) /\ op # "package"
    <3>1. BeginAdd(p) => \E pc, job : Start(p, "add", pc, job)
      BY DEF BeginAdd
    <3>2. BeginRule(p) => \E pc, job : Start(p, "rule", pc, job)
      BY DEF BeginRule
    <3>3. BeginClassify(p) => \E pc, job : Start(p, "classify", pc, job)
      BY DEF BeginClassify
    <3>4. BeginUpdate(p) => \E pc, job : Start(p, "update", pc, job)
      BY DEF BeginUpdate
    <3>5. BeginPreview(p) => \E pc, job : Start(p, "preview", pc, job)
      BY DEF BeginPreview
    <3>6. BeginPlan(p) => \E pc, job : Start(p, "plan", pc, job)
      BY DEF BeginPlan
    <3>. QED  BY <1>1, <3>1, <3>2, <3>3, <3>4, <3>5, <3>6
  <2>2. proc'[p].op # "package" /\ proc[p].pc = "idle"
    <3>1. PICK j : j = At(pc, op, job, <<>>)
      OBVIOUS
    <3>2. j.op # "package"
      BY <2>1, <3>1 DEF At
    <3>3. proc'[p] = j /\ proc[p] = Idle
      BY <2>1, <3>1, StartsAt
    <3>. QED  BY <3>2, <3>3 DEF Idle
  <2>. QED  BY <2>1, <2>2, StartsAt, OthersPackage
<1>2. CASE BeginPackage(p)
  <2>1. PICK k, job :
          /\ k \in PackageIds /\ Start(p, "package", "load", job) /\ job.pkg = k
          /\ packages[k] = NoPackage /\ \A q \in Procs : proc[q].op = "package" => proc[q].job.pkg # k
    <3>1. PICK ids \in Selections, target \in Targets, k \in PackageIds :
            /\ packages[k] = NoPackage
            /\ \A q \in Procs : proc[q].op = "package" => proc[q].job.pkg # k
            /\ Start(p, "package", "load",
                     [ids |-> ids, target |-> target, pkg |-> k, marked |-> Len(lifecycle)])
      BY <1>2 DEF BeginPackage
    <3>2. PICK job : job = [ids |-> ids, target |-> target, pkg |-> k, marked |-> Len(lifecycle)]
      OBVIOUS
    <3>. QED  BY <3>1, <3>2
  <2>2. PICK j : j = At("load", "package", job, <<>>)
    OBVIOUS
  <2>3. /\ proc'[p] = j /\ \A q \in Procs \ {p} : proc'[q] = proc[q]
        /\ proc[p] = Idle /\ UNCHANGED outbox /\ crashes' = crashes
    BY <2>1, <2>2, StartsAt
  <2>4. j.op = "package" /\ j.pc = "load" /\ j.job.pkg = k
    BY <2>1, <2>2 DEF At
  <2>5. Writes(j)'
    BY <2>1, <2>3, <2>4 DEF Writes, outbox
  <2>6. \A q \in Procs \ {p} : Writes(proc[q])'
    <3>1. ASSUME NEW q \in Procs \ {p}, NEW h, h = proc'[q] PROVE Writes(h)'
      BY <2>3, <3>1 DEF PackageInv, Writes, outbox
    <3>. QED  BY <3>1 DEF Writes
  <2>7. \A q \in Procs : Writes(proc[q])'
    BY <2>3, <2>5, <2>6 DEF Writes
  <2>8. OwnPackage'
    BY <2>1, <2>3, <2>4 DEF OwnPackage, PackageInv
  <2>9. PackagesTyped' /\ FilesAgree' /\ Announced' /\ Reviewed'
    BY <2>3 DEF PackageInv, outbox, PackagesTyped, FilesAgree, Announced, Reviewed
  <2>10. Unfinished'
    <3>1. p \notin Packaging
      BY <2>3 DEF Packaging, Idle
    <3>. QED  BY <2>3, <3>1 DEF PackageInv, outbox, Unfinished, Packaging
  <2>. QED  BY <2>7, <2>8, <2>9, <2>10 DEF PackageInv
<1>. QED  BY <1>1, <1>2

(* What a package command reads and builds. *)
LEMMA GatherPackage ==
  ASSUME Base, PackageInv, NEW p \in Procs, LoadContexts(p) \/ BuildPackage(p)
  PROVE  PackageInv'
<1>0. PICK i : i = proc[p]
  OBVIOUS
<1>1. Shape /\ Fits(i) /\ Writes(i) /\ LogTyped /\ crashes \in Nat /\ UNCHANGED <<outbox, crashes>>
  BY <1>0 DEF Base, Shape, Jobs, PackageInv, LoadContexts, BuildPackage
<1>2. \A q \in Procs \ {p} : proc'[q] = proc[q]
  BY StepKeepsOp DEF Step
<1>3. CASE LoadContexts(p)
  <2>1. PICK pc, got : Go(p, pc, got) /\ i.pc = "load" /\ (i.op = "package" => pc = "build")
    BY <1>0, <1>3 DEF LoadContexts
  <2>2. PICK j : j = At(pc, i.op, i.job, got)
    OBVIOUS
  <2>3. proc'[p] = j
    <3>1. proc' = [proc EXCEPT ![p] = At(pc, i.op, i.job, got)]
      BY <1>0, <1>1, <2>1, GoesOn
    <3>. QED  BY <1>1, <2>2, <3>1 DEF Shape
  <2>4. j.pc = pc /\ j.op = i.op /\ j.job = i.job
    BY <2>2 DEF At
  <2>5. i.op = "package" => Writes(j)
    BY <1>1, <2>1, <2>4 DEF Writes
  <2>. QED  BY <1>0, <1>1, <1>2, <2>1, <2>3, <2>4, <2>5, PackagesKept
<1>4. CASE BuildPackage(p)
  <2>1. PICK asked, got :
          /\ Go(p, "manifest", got) /\ i.pc = "build" /\ i.op = "package"
          /\ got.built = Package(ContextsAt(i.got.view), i.job.target, i.job.ids, asked, Readable)
    <3>1. PICK asked : Go(p, "manifest", [stale |-> i.got.stale, known |-> i.got.known,
             built |-> Package(ContextsAt(i.got.view), i.job.target, i.job.ids, asked, Readable)])
      BY <1>0, <1>4 DEF BuildPackage
    <3>2. PICK got : got = [stale |-> i.got.stale, known |-> i.got.known,
             built |-> Package(ContextsAt(i.got.view), i.job.target, i.job.ids, asked, Readable)]
      OBVIOUS
    <3>3. Go(p, "manifest", got) /\ i.pc = "build" /\ i.op = "package"
      BY <1>0, <1>4, <3>1, <3>2 DEF BuildPackage
    <3>. QED  BY <3>2, <3>3
  <2>2. PICK j : j = At("manifest", i.op, i.job, got)
    OBVIOUS
  <2>3. proc'[p] = j
    <3>1. proc' = [proc EXCEPT ![p] = At("manifest", i.op, i.job, got)]
      BY <1>0, <1>1, <2>1, GoesOn
    <3>. QED  BY <1>1, <2>2, <3>1 DEF Shape
  <2>4. j.pc = "manifest" /\ j.op = i.op /\ j.job = i.job /\ j.got = got
    BY <2>2 DEF At
  <2>5. i.got.view \in 0 .. Len(log)
    BY <1>1, <2>1 DEF Fits, Sees
  <2>6. got.built.target = i.job.target /\ WarnsOfSensitive(got.built.target, got.built.records)
    BY <1>1, <2>1, <2>5, PackageWarns
  <2>7. Writes(j)
    BY <1>1, <2>1, <2>4, <2>6 DEF Writes
  <2>. QED  BY <1>0, <1>1, <1>2, <2>1, <2>3, <2>4, <2>7, PackagesKept
<1>. QED  BY <1>3, <1>4

(* The command p writes a file of the package k, its own *)
LEMMA FileWritten ==
  ASSUME Base, PackageInv, NEW p \in Procs, NEW k \in PackageIds, NEW new,
         proc[p].op = "package", proc[p].job.pkg = k,
         \A q \in Procs \ {p} : proc'[q] = proc[q],
         NEW j, proc'[p] = j, j.op = "package", j.job.pkg = k, Writes(j)',
         packages' = [packages EXCEPT ![k] = new], UNCHANGED <<audit, verdict, crashes>>,
         new = [manifest |-> new.manifest, records |-> new.records],
         new.records # Missing =>
           /\ new.manifest # Missing /\ new.manifest[1].refs = {r.id : r \in new.records[1]}
           /\ WarnsOfSensitive(new.manifest[1].target, new.records[1]),
         packages[k].records = Missing, new.manifest # Missing,
         j.pc \in {"manifest", "records", "audit"}
  PROVE  PackageInv'
<1> USE DEF PackageInv
<1>1. packages'[k] = new /\ \A h \in PackageIds \ {k} : packages'[h] = packages[h]
  BY DEF PackagesTyped
<1>2. PackagesTyped'
  BY DEF PackagesTyped
<1>3. OwnPackage'
  BY DEF OwnPackage
<1>4. FilesAgree'
  BY <1>1 DEF FilesAgree
<1>5. Announced'
  BY <1>1 DEF Announced, PackagesTyped
<1>6. Reviewed'
  BY <1>1 DEF Reviewed
<1>7. \A q \in Procs : Writes(proc[q])'
  <2>1. ASSUME NEW q \in Procs \ {p}, NEW h, h = proc'[q] PROVE Writes(h)'
    <3>1. Writes(h) /\ PackageJob(h) /\ (h.op = "package" => h.job.pkg # k)
      BY <2>1 DEF OwnPackage, Base, Jobs, Fits
    <3>2. SUFFICES ASSUME h.op = "package" PROVE Writes(h)'
      BY DEF Writes
    <3>3. packages'[h.job.pkg] = packages[h.job.pkg]
      BY <1>1, <3>1, <3>2 DEF PackageJob
    <3>. QED  BY <3>1, <3>3 DEF Writes
  <2>. QED  BY <2>1 DEF Writes
<1>8. Unfinished'
  <2>1. p \in Packaging' /\ proc'[p].job.pkg = k
    BY DEF Packaging
  <2>2. ASSUME NEW h \in PackageIds \ {k}, packages[h].manifest # Missing, packages[h].records = Missing,
               ~(crashes > 0)
        PROVE  \E q \in Packaging' : proc'[q].job.pkg = h
    <3>1. PICK q \in Packaging : proc[q].job.pkg = h
      BY <2>2 DEF Unfinished
    <3>. QED  BY <2>2, <3>1 DEF Packaging
  <2>. QED  BY <1>1, <2>1, <2>2 DEF Unfinished
<1>. QED  BY <1>2, <1>3, <1>4, <1>5, <1>6, <1>7, <1>8

(* manifest.json, then records.json. *)
LEMMA WritePackage ==
  ASSUME Base, PackageInv, NEW p \in Procs, WriteManifest(p) \/ WriteRecords(p)
  PROVE  PackageInv'
<1>0. PICK i : i = proc[p]
  OBVIOUS
<1>1. /\ Shape /\ Fits(i) /\ Writes(i) /\ UNCHANGED <<audit, verdict, crashes>>
      /\ i.pc \in {"manifest", "records"}
  BY <1>0 DEF Base, Jobs, PackageInv, WriteManifest, WriteRecords
<1>2. PICK k, built : k = i.job.pkg /\ built = i.got.built
  OBVIOUS
<1>3. /\ i.op = "package" /\ k \in PackageIds /\ WarnsOfSensitive(built.target, built.records)
  BY <1>1, <1>2 DEF Fits, PackageJob, Writes
<1>4. \A q \in Procs \ {p} : proc'[q] = proc[q]
  BY StepKeepsOp DEF Step
<1>5. PICK m : m = Manifest(built)
  OBVIOUS
<1>6. m.refs = {r.id : r \in built.records} /\ m.target = built.target
  BY <1>5 DEF Manifest
<1>7. DOMAIN packages = PackageIds
  BY DEF PackageInv, PackagesTyped
<1>8. ASSUME NEW pc, Go(p, pc, i.got)
      PROVE  proc'[p] = At(pc, i.op, i.job, i.got)
  <2>1. proc' = [proc EXCEPT ![p] = At(pc, i.op, i.job, i.got)]
    BY <1>0, <1>1, <1>8, GoesOn
  <2>. QED  BY <1>1, <2>1 DEF Shape
<1>9. CASE WriteManifest(p)
  <2>1. PICK j : j = At("records", i.op, i.job, i.got)
    OBVIOUS
  <2>2. PICK new : new = [manifest |-> <<m>>, records |-> Missing]
    OBVIOUS
  <2>3. /\ proc'[p] = j /\ i.pc = "manifest"
        /\ packages' = [packages EXCEPT ![k].manifest = <<m>>]
    BY <1>0, <1>2, <1>5, <1>8, <1>9, <2>1 DEF WriteManifest
  <2>4. packages[k] = NoPackage
    BY <1>1, <1>2, <1>3, <2>3 DEF Writes
  <2>5. packages' = [packages EXCEPT ![k] = new]
    <3>1. packages' = [h \in PackageIds |-> IF h = k THEN [packages[k] EXCEPT !.manifest = <<m>>] ELSE packages[h]]
      BY <1>3, <1>7, <2>3
    <3>2. [packages[k] EXCEPT !.manifest = <<m>>] = new
      BY <2>2, <2>4 DEF NoPackage
    <3>. QED  BY <1>3, <1>7, <3>1, <3>2
  <2>6. new.manifest # Missing /\ new.records = Missing /\ new = [manifest |-> new.manifest, records |-> new.records]
    BY <2>2 DEF Missing
  <2>7. j.op = "package" /\ j.job.pkg = k /\ j.got.built = built /\ j.pc = "records" /\ j.job = i.job
    BY <1>2, <1>3, <2>1 DEF At
  <2>8. packages'[k] = new
    BY <1>3, <1>7, <2>5
  <2>9. Writes(j)'
    BY <1>1, <1>2, <1>3, <1>5, <2>2, <2>3, <2>7, <2>8 DEF Writes
  <2>10. packages[k].records = Missing
    BY <2>4 DEF NoPackage
  <2>. QED  BY ZenonT(60), <1>0, <1>1, <1>2, <1>3, <1>4, <2>3, <2>5, <2>6, <2>7, <2>9, <2>10, FileWritten
<1>10. CASE WriteRecords(p)
  <2>1. PICK j : j = At("audit", i.op, i.job, i.got)
    OBVIOUS
  <2>2. PICK new : new = [manifest |-> <<m>>, records |-> <<built.records>>]
    OBVIOUS
  <2>3. /\ proc'[p] = j /\ i.pc = "records"
        /\ packages' = [packages EXCEPT ![k].records = <<built.records>>]
    BY <1>0, <1>2, <1>8, <1>10, <2>1 DEF WriteRecords
  <2>4. packages[k] = [manifest |-> <<m>>, records |-> Missing]
    BY <1>1, <1>2, <1>3, <1>5, <2>3 DEF Writes
  <2>5. packages' = [packages EXCEPT ![k] = new]
    <3>1. packages' = [h \in PackageIds |-> IF h = k THEN [packages[k] EXCEPT !.records = <<built.records>>] ELSE packages[h]]
      BY <1>3, <1>7, <2>3
    <3>2. [packages[k] EXCEPT !.records = <<built.records>>] = new
      BY <2>2, <2>4
    <3>. QED  BY <1>3, <1>7, <3>1, <3>2
  <2>6. /\ new.manifest = <<m>> /\ new.records = <<built.records>>
        /\ new = [manifest |-> new.manifest, records |-> new.records]
    BY <2>2
  <2>7. j.op = "package" /\ j.job.pkg = k /\ j.got.built = built /\ j.pc = "audit" /\ j.job = i.job
    BY <1>2, <1>3, <2>1 DEF At
  <2>8. packages'[k] = new
    BY <1>3, <1>7, <2>5
  <2>9. Writes(j)'
    BY <1>1, <1>2, <1>3, <1>5, <2>2, <2>3, <2>7, <2>8 DEF Writes
  <2>10. /\ new.manifest # Missing /\ new.manifest[1].refs = {r.id : r \in new.records[1]}
         /\ WarnsOfSensitive(new.manifest[1].target, new.records[1])
    <3>1. new.manifest[1] = m /\ new.records[1] = built.records /\ new.manifest # Missing
      BY <2>6 DEF Missing
    <3>. QED  BY <1>3, <1>6, <3>1
  <2>11. packages[k].records = Missing
    BY <2>4
  <2>. QED  BY <1>0, <1>1, <1>2, <1>3, <1>4, <2>3, <2>5, <2>6, <2>7, <2>9, <2>10, <2>11, FileWritten
<1>. QED  BY <1>1, <1>9, <1>10

(* The audit record, or the end of a command that dies or cannot go on. *)
LEMMA FinishPackage ==
  ASSUME Base, PackageInv, NEW p \in Procs, AuditPackage(p) \/ MarksRaise(p) \/ Crash(p)
  PROVE  PackageInv'
<1>0. PICK i : i = proc[p]
  OBVIOUS
<1>1. Shape /\ Fits(i) /\ Writes(i) /\ crashes \in Nat
  BY <1>0 DEF Base, Shape, Jobs, PackageInv
<1>2. (\A q \in Procs \ {p} : proc'[q] = proc[q]) /\ proc'[p] = Idle
  BY <1>1 DEF Shape, AuditPackage, MarksRaise, Crash, End
<1>3. CASE AuditPackage(p)
  <2>1. /\ i.pc = "audit" /\ audit' = audit \cup {i.job.pkg}
        /\ UNCHANGED <<packages, verdict, crashes>>
    BY <1>0, <1>3 DEF AuditPackage
  <2>2. i.op = "package" /\ i.job.pkg \in PackageIds /\ packages[i.job.pkg].records # Missing
    <3>1. i.op = "package" /\ i.job.pkg \in PackageIds
      BY <1>1, <2>1 DEF Fits, PackageJob
    <3>2. packages[i.job.pkg].records = <<i.got.built.records>>
      BY <1>1, <2>1, <3>1 DEF Writes
    <3>3. <<i.got.built.records>> # Missing
      BY DEF Missing
    <3>. QED  BY <3>1, <3>2, <3>3
  <2>3. PackagesTyped' /\ FilesAgree' /\ Announced' /\ Reviewed'
    BY <2>1, <2>2 DEF PackageInv, PackagesTyped, FilesAgree, Announced, Reviewed
  <2>4. OwnPackage'
    BY <1>2 DEF PackageInv, OwnPackage, Idle
  <2>5. \A q \in Procs : Writes(proc[q])'
    <3>1. ASSUME NEW q \in Procs, NEW h, h = proc'[q] PROVE Writes(h)'
      BY <1>2, <2>1, <3>1 DEF PackageInv, Writes, Idle
    <3>. QED  BY <3>1 DEF Writes
  <2>6. Unfinished'
    <3>1. ASSUME NEW k \in PackageIds, packages[k].manifest # Missing, packages[k].records = Missing,
                 ~(crashes > 0)
          PROVE  \E q \in Packaging' : proc'[q].job.pkg = k
      <4>1. PICK q \in Packaging : proc[q].job.pkg = k
        BY <3>1 DEF PackageInv, Unfinished
      <4>2. q # p
        BY <1>0, <2>2, <3>1, <4>1
      <4>. QED  BY <1>2, <4>1, <4>2 DEF Packaging
    <3>. QED  BY <2>1, <3>1 DEF Unfinished
  <2>. QED  BY <2>3, <2>4, <2>5, <2>6 DEF PackageInv
<1>4. CASE MarksRaise(p) \/ Crash(p)
  <2>1. /\ UNCHANGED outbox
        /\ crashes' = crashes + 1 \/ (crashes' = crashes /\ i.pc = "build")
    BY <1>0, <1>4 DEF MarksRaise, Crash
  <2>2. PICK j : j = proc'[p]
    OBVIOUS
  <2>3. j.op # "package"
    BY <1>2, <2>2 DEF Idle
  <2>4. crashes' \in Nat /\ crashes' >= crashes
        /\ (i.pc \notin {"manifest", "records", "audit"} \/ crashes' > 0)
    BY <1>1, <2>1
  <2>. QED  BY <1>0, <1>2, <2>1, <2>2, <2>3, <2>4, PackagesKept
<1>. QED  BY <1>3, <1>4

(* A review stops what a record warns of *)
LEMMA ReviewSees ==
  ASSUME NEW pkg, ReviewStatus(pkg) # "blocked", NEW r \in pkg.records
  PROVE  "external_sensitive_context_not_allowed" \notin r.warnings
BY DEF ReviewStatus, BlockingCodes

(* A review answers for the records that are there. *)
LEMMA ReviewPackages ==
  ASSUME Base, PackageInv, NEW p \in Procs, ReviewPackage(p)
  PROVE  PackageInv'
<1> USE DEF PackageInv
<1>1. /\ UNCHANGED <<packages, audit, crashes>> /\ UNCHANGED proc
  BY DEF ReviewPackage
<1>2. PICK k \in PackageIds :
        /\ packages[k].manifest # Missing
        /\ verdict' = [verdict EXCEPT ![k] =
             IF packages[k].records = Missing THEN "unreadable"
             ELSE ReviewStatus([warnings |-> packages[k].manifest[1].warnings,
                                records |-> packages[k].records[1]])]
  BY DEF ReviewPackage
<1>3. \A q \in Procs : Writes(proc[q])'
  <2>1. ASSUME NEW h, Writes(h) PROVE Writes(h)'
    BY <1>1, <2>1 DEF Writes
  <2>. QED  BY <1>1, <2>1 DEF Writes
<1>4. PackagesTyped' /\ OwnPackage' /\ FilesAgree' /\ Announced' /\ Unfinished'
  BY <1>1, <1>2 DEF PackagesTyped, OwnPackage, FilesAgree, Announced, Unfinished, Packaging
<1>5. Reviewed'
  <2>1. \A h \in PackageIds \ {k} : verdict'[h] = verdict[h]
    BY <1>2 DEF PackagesTyped
  <2>2. ASSUME verdict'[k] \in {"pass", "warning"}
        PROVE  /\ packages[k].records # Missing
               /\ packages[k].manifest[1].target = "external" =>
                    \A r \in packages[k].records[1] : r.layer < SensitiveContext
    <3>1. PICK v : v = ReviewStatus([warnings |-> packages[k].manifest[1].warnings,
                                     records |-> packages[k].records[1]])
      OBVIOUS
    <3>2. verdict'[k] = IF packages[k].records = Missing THEN "unreadable" ELSE v
      BY <1>2, <3>1 DEF PackagesTyped
    <3>3. packages[k].records # Missing /\ v # "blocked"
      BY <2>2, <3>2
    <3>4. PICK pkg : pkg = [warnings |-> packages[k].manifest[1].warnings,
                            records |-> packages[k].records[1]]
      OBVIOUS
    <3>5. pkg.records = packages[k].records[1] /\ v = ReviewStatus(pkg)
      BY <3>1, <3>4
    <3>6. \A r \in packages[k].records[1] : "external_sensitive_context_not_allowed" \notin r.warnings
      BY <3>3, <3>5, ReviewSees
    <3>7. ASSUME packages[k].manifest[1].target = "external", NEW r \in packages[k].records[1]
          PROVE  r.layer < SensitiveContext
      <4>1. WarnsOfSensitive(packages[k].manifest[1].target, packages[k].records[1])
        BY <3>3 DEF FilesAgree
      <4>2. r.layer \in Layers \cup {Unclassified} /\ ~(r.layer >= SensitiveContext)
        BY <3>6, <3>7, <4>1 DEF WarnsOfSensitive
      <4>3. r.layer \in Int
        BY <4>2 DEF Layers, Unclassified, RestrictedSecret
      <4>. QED  BY <4>2, <4>3 DEF SensitiveContext
    <3>. QED  BY <3>3, <3>7
  <2>. QED  BY <1>1, <1>2, <2>1, <2>2 DEF Reviewed
<1>. QED  BY <1>3, <1>4, <1>5

(* There is no package in an empty project. *)
LEMMA InitPackages == Init => PackageInv
<1> SUFFICES ASSUME Init PROVE PackageInv
  OBVIOUS
<1>1. /\ \A k \in PackageIds : packages[k] = NoPackage /\ verdict[k] = "none"
      /\ DOMAIN packages = PackageIds /\ DOMAIN verdict = PackageIds /\ audit = {}
      /\ \A p \in Procs : proc[p] = Idle
  BY DEF Init
<1>2. PackagesTyped /\ FilesAgree /\ Announced /\ Reviewed /\ Unfinished
  BY <1>1 DEF PackagesTyped, FilesAgree, Announced, Reviewed, Unfinished, NoPackage, Missing
<1>3. OwnPackage /\ \A p \in Procs : Writes(proc[p])
  BY <1>1 DEF OwnPackage, Writes, Idle
<1>. QED  BY <1>2, <1>3 DEF PackageInv

(* Every step keeps what is known of the packages. *)
LEMMA NextPackages ==
  ASSUME Base, PackageInv, [Next]_vars
  PROVE  PackageInv'
<1>1. ASSUME UNCHANGED <<outbox, proc>>, crashes' \in Nat, crashes' >= crashes
      PROVE  PackageInv'
  <2>1. UNCHANGED <<packages, audit, verdict>> /\ UNCHANGED proc
    BY <1>1 DEF outbox
  <2>2. ASSUME NEW h, Writes(h) PROVE Writes(h)'
    BY <2>1, <2>2 DEF Writes
  <2>3. \A q \in Procs : Writes(proc[q])'
    BY <2>1, <2>2 DEF PackageInv, Writes
  <2>4. Unfinished'
    <3>1. crashes > 0 => crashes' > 0
      BY <1>1 DEF Base, Shape
    <3>. QED  BY <2>1, <3>1 DEF PackageInv, Unfinished, Packaging
  <2>. QED  BY <2>1, <2>3, <2>4
       DEF PackageInv, PackagesTyped, OwnPackage, FilesAgree, Announced, Reviewed
<1>2. crashes \in Nat
  BY DEF Base, Shape
<1>3. CASE UNCHANGED vars
  BY <1>1, <1>2, <1>3 DEF vars
<1>4. ASSUME NEW p \in Procs, Mark(p) \/ MarkTorn(p) PROVE PackageInv'
  <2>1. UNCHANGED <<outbox, proc>> /\ (crashes' = crashes \/ crashes' = crashes + 1)
    BY <1>4 DEF Mark, MarkTorn
  <2>. QED  BY <1>1, <1>2, <2>1
<1>5. CASE Next
  <2>1. PICK p \in Procs : Begin(p) \/ Step(p) \/ Crash(p)
    BY <1>5 DEF Next
  <2>2. CASE Begin(p)
    BY <1>4, <2>2, BeginPackages, ReviewPackages DEF Begin
  <2>3. CASE Step(p)
    BY <2>3, EditorsPackage, GatherPackage, WritePackage, FinishPackage DEF Step
  <2>4. CASE Crash(p)
    BY <2>4, FinishPackage
  <2>. QED  BY <2>1, <2>2, <2>3, <2>4
<1>. QED  BY <1>3, <1>5

(* A package that the audit log announces has both its files and they agree *)
(* (IntegrationPackageStore.save, then _record_package_audit); one that is *)
(* listed and cannot be read is being written, or its command died. *)
THEOREM PackageFiles == Spec => []PackageFilesComplete
<1>1. Init => Base /\ PackageInv
  BY InitBase, InitPackages
<1>2. Base /\ PackageInv /\ [Next]_vars => (Base /\ PackageInv)'
  BY NextBase, NextPackages
<1>3. PackageInv => PackageFilesComplete
  BY DEF PackageInv, PackageFilesComplete, FilesAgree, Announced, Unfinished, PackagesTyped
<1>. QED  BY <1>1, <1>2, <1>3, PTL DEF Spec

(* A package for an external target that a review lets pass holds no record of *)
(* a sensitive layer (PackageReviewService.review_package). *)
THEOREM ReviewsStop == Spec => []ReviewStopsSensitive
<1>1. Init => Base /\ PackageInv
  BY InitBase, InitPackages
<1>2. Base /\ PackageInv /\ [Next]_vars => (Base /\ PackageInv)'
  BY NextBase, NextPackages
<1>3. PackageInv => ReviewStopsSensitive
  BY DEF PackageInv, ReviewStopsSensitive, Reviewed
<1>. QED  BY <1>1, <1>2, <1>3, PTL DEF Spec

----------------------------------------------------------------------------
(* What an edit keeps *)

(* The log's new line, if there is one, is the command's job *)
LEMMA LogGrowsBy ==
  ASSUME Base, [Next]_vars
  PROVE  \/ UNCHANGED log
         \/ \E p \in Procs :
              /\ proc[p].pc = "append" /\ log' = Append(log, proc[p].job)
              /\ Len(log') = Len(log) + 1 /\ log'[Len(log) + 1] = proc[p].job
<1>1. CASE UNCHANGED vars
  BY <1>1 DEF vars
<1>2. ASSUME NEW p \in Procs, Begin(p) \/ Crash(p) PROVE UNCHANGED log
  BY <1>2 DEF Begin, Crash, Start, BeginAdd, BeginRule, BeginClassify, BeginUpdate, BeginPackage,
     BeginPreview, BeginPlan, Mark, MarkTorn, ReviewPackage
<1>3. ASSUME NEW p \in Procs, Step(p) PROVE UNCHANGED log \/ AppendEvent(p)
  BY <1>3 DEF Step, ReadLog, SaveContexts, SaveRules, LoadForEdit, LoadContexts, BuildPlan,
     BuildPreview, BuildPackage, MarksRaise, WriteManifest, WriteRecords, AuditPackage
<1>4. ASSUME NEW p \in Procs, AppendEvent(p)
      PROVE  /\ proc[p].pc = "append" /\ log' = Append(log, proc[p].job)
             /\ Len(log') = Len(log) + 1 /\ log'[Len(log) + 1] = proc[p].job
  <2>1. PICK S : log \in Seq(S)
    BY DEF Base, LogTyped
  <2>2. PICK e : e = proc[p].job
    OBVIOUS
  <2>3. Len(Append(log, e)) = Len(log) + 1 /\ Append(log, e)[Len(log) + 1] = e
    BY <2>1, AppendGrows
  <2>. QED  BY <1>4, <2>2, <2>3 DEF AppendEvent
<1>. QED  BY <1>1, <1>2, <1>3, <1>4 DEF Next

(* Every edit in the log was made from the last snapshot of some prefix. *)
LEMMA NextEdits ==
  ASSUME Base, EditsFit, [Next]_vars
  PROVE  EditsFit'
<1>1. Base' /\ Grows /\ LogTyped /\ Len(log) \in Nat
  BY NextBase, LenProperties DEF Base, LogTyped
<1>2. ASSUME NEW i \in 1 .. Len(log), log'[i].op \in EditOps, ~log'[i].stale
      PROVE  \E n \in log'[i].began .. i - 1 : MadeFrom(log[i], n)'
  <2>1. log'[i] = log[i] /\ log[i].began \in Nat
    BY <1>1 DEF Grows, LogTyped, IsLine
  <2>2. PICK e : e = log[i]
    OBVIOUS
  <2>3. PICK n \in e.began .. i - 1 : MadeFrom(e, n)
    BY <1>2, <2>1, <2>2 DEF EditsFit
  <2>4. n \in 0 .. Len(log)
    BY <1>1, <2>1, <2>2
  <2>5. MadeFrom(e, n)'
    BY <1>1, <2>3, <2>4, MadeFromStays
  <2>. QED  BY <2>1, <2>2, <2>3, <2>5 DEF MadeFrom
<1>3. CASE UNCHANGED log
  BY <1>2, <1>3 DEF EditsFit
<1>4. ASSUME NEW p \in Procs, proc[p].pc = "append", Len(log') = Len(log) + 1,
             log'[Len(log) + 1] = proc[p].job
      PROVE  EditsFit'
  <2>1. PICK e : e = proc[p].job
    OBVIOUS
  <2>2. IsLine(e) /\ EditFits(e)
    BY <1>4, <2>1 DEF Base, Jobs, Fits, Appends
  <2>3. ASSUME e.op \in EditOps, ~e.stale
        PROVE  \E n \in e.began .. Len(log) : MadeFrom(e, n)'
    <3>1. PICK n \in e.began .. Len(log) : MadeFrom(e, n)
      BY <2>2, <2>3 DEF EditFits
    <3>2. n \in 0 .. Len(log)
      BY <1>1, <2>2 DEF IsLine
    <3>. QED  BY <1>1, <3>1, <3>2, MadeFromStays
  <2>4. \A i \in 1 .. Len(log') : i \in 1 .. Len(log) \/ i = Len(log) + 1
    BY <1>1, <1>4
  <2>5. log'[Len(log) + 1] = e /\ (Len(log) + 1) - 1 = Len(log)
    BY <1>1, <1>4, <2>1
  <2>6. \A i \in 1 .. Len(log') : log'[i].op \in EditOps /\ ~log'[i].stale =>
          \E n \in log'[i].began .. i - 1 : MadeFrom(log[i], n)'
    <3> TAKE i \in 1 .. Len(log')
    <3>1. CASE i \in 1 .. Len(log)
      BY <1>2, <3>1
    <3>2. CASE i = Len(log) + 1
      <4>1. log'[i] = e /\ i - 1 = Len(log)
        BY <2>5, <3>2
      <4>. QED  BY <2>3, <4>1 DEF MadeFrom
    <3>. QED  BY <2>4, <3>1, <3>2
  <2>. QED  BY <2>6 DEF EditsFit
<1>. QED  BY <1>3, <1>4, LogGrowsBy

(* Which is the last snapshot of all when that is no newer than the edit. *)
LEMMA EditsFitKeep ==
  ASSUME Base, EditsFit
  PROVE  EditKeepsTheRest
<1>1. LogTyped /\ Len(log) \in Nat
  BY LenProperties DEF Base, LogTyped
<1> SUFFICES ASSUME NEW i \in Snapshots, log[i].op \in EditOps, ~log[i].stale,
                    LastOf(Previous(i)) <= log[i].began
             PROVE  LET last == LastOf(Previous(i)) IN
                    IF log[i].op = "update" THEN log[i].data.cls = log[last].data.cls
                                            ELSE log[i].data.text = log[last].data.text
  BY DEF EditKeepsTheRest, EditOps
<1>2. i \in 1 .. Len(log) /\ log[i].began \in Nat
  BY <1>1 DEF Snapshots, Positions, LogTyped, IsLine
<1>3. PICK n \in log[i].began .. i - 1 : MadeFrom(log[i], n)
  BY <1>2 DEF EditsFit
<1> DEFINE id == log[i].data.id
           last == LastOf(Previous(i))
<1>4. n \in 0 .. Len(log) /\ i - 1 \in 0 .. Len(log) /\ n <= i - 1 /\ log[i].began <= n
  BY <1>1, <1>2, <1>3
<1>5. SnapshotsOf(id, n) # {} /\ SnapshotsOf(id, n) \subseteq SnapshotsOf(id, i - 1)
  BY <1>3, <1>4 DEF MadeFrom, SnapshotsOf, Positions
<1>6. /\ LastOf(SnapshotsOf(id, n)) \in SnapshotsOf(id, n)
      /\ \A j \in SnapshotsOf(id, n) : j <= LastOf(SnapshotsOf(id, n))
      /\ SnapshotsOf(id, n) \subseteq 1 .. n
  BY <1>1, <1>4, <1>5, SnapshotsTyped
<1>7. /\ last \in SnapshotsOf(id, i - 1)
      /\ \A j \in SnapshotsOf(id, i - 1) : j <= last
      /\ SnapshotsOf(id, i - 1) \subseteq 1 .. i - 1
  BY <1>1, <1>4, <1>5, SnapshotsTyped DEF Previous
<1>8. last \in 1 .. n
  <2>1. last \in 1 .. i - 1 /\ last <= log[i].began
    BY <1>7
  <2>. QED  BY <1>2, <1>4, <2>1
<1>9. last \in SnapshotsOf(id, n)
  BY <1>7, <1>8 DEF SnapshotsOf, Positions
<1>10. last = LastOf(SnapshotsOf(id, n))
  <2>1. LastOf(SnapshotsOf(id, n)) <= last /\ last <= LastOf(SnapshotsOf(id, n))
    BY <1>5, <1>6, <1>7, <1>9
  <2>2. LastOf(SnapshotsOf(id, n)) \in Nat /\ last \in Nat
    BY <1>4, <1>6, <1>8
  <2> HIDE DEF last
  <2>. QED  BY <2>1, <2>2
<1>. QED  BY <1>3, <1>10 DEF MadeFrom

(* An edit writes the whole context and changes only its own part of it. *)
THEOREM EditsKeep == Spec => []EditKeepsTheRest
<1>1. Init => Base /\ EditsFit
  <2>1. Init => EditsFit
    BY DEF Init, EditsFit
  <2>. QED  BY <2>1, InitBase
<1>2. Base /\ EditsFit /\ [Next]_vars => (Base /\ EditsFit)'
  BY NextBase, NextEdits
<1>3. Base /\ EditsFit => EditKeepsTheRest
  BY EditsFitKeep
<1>. QED  BY <1>1, <1>2, <1>3, PTL DEF Spec

----------------------------------------------------------------------------
(* What a plan and a package were made of *)

Made(j) == PlanMade(j) /\ PackageMade(j)

(* The rules in a prefix stay what they were. *)
LEMMA RulesStay ==
  ASSUME LogTyped, Grows, NEW m \in 0 .. Len(log)
  PROVE  RulesAt(m)' = RulesAt(m)
<1>1. Positions("rule", m)' = Positions("rule", m)
  BY PrefixStays
<1>2. \A i \in Positions("rule", m) : log'[i] = log[i]
  BY LenProperties DEF Positions, LogTyped, Grows
<1>. QED  BY <1>1, <1>2 DEF RulesAt

(* What a plan or a package was made of does not change behind it. *)
LEMMA MadeStays ==
  ASSUME Base, LogTyped', MarksTyped', Grows, NEW j, Made(j)
  PROVE  Made(j)'
<1>1. /\ Len(log) \in Nat /\ Len(log') \in Nat /\ Len(lifecycle) \in Nat /\ LogTyped
      /\ Len(log) <= Len(log') /\ \A i \in 1 .. Len(log) : log'[i] = log[i]
      /\ \A i \in 1 .. Len(lifecycle) : lifecycle'[i] = lifecycle[i]
      /\ Len(lifecycle') \in Nat /\ Len(lifecycle) <= Len(lifecycle')
  BY LenProperties DEF Base, LogTyped, MarksTyped, Grows
<1>2. PlanMade(j)'
  <2>1. SUFFICES ASSUME j.pc = "append", j.op = "plan" PROVE PlanMade(j)'
    BY DEF PlanMade
  <2>2. j.got.view \in 0 .. Len(log) /\ j.got.known \subseteq 1 .. Len(log)
    BY <2>1 DEF Made, PlanMade
  <2>3. ASSUME ~j.got.stale
        PROVE  \E m \in 0 .. Len(log') :
                 /\ j.job.data = InjectionPlan(ContextsAt(j.got.view)', RulesAt(m)')
                 /\ \A i \in j.got.known : log'[i].kind = "rule" => i <= m
    <3>1. PICK m \in 0 .. Len(log) :
            /\ j.job.data = InjectionPlan(ContextsAt(j.got.view), RulesAt(m))
            /\ \A i \in j.got.known : log[i].kind = "rule" => i <= m
      BY <2>1, <2>3 DEF Made, PlanMade
    <3>2. ContextsAt(j.got.view)' = ContextsAt(j.got.view) /\ RulesAt(m)' = RulesAt(m)
      BY <1>1, <2>2, PrefixStays, RulesStay
    <3>3. m \in 0 .. Len(log') /\ \A i \in j.got.known : log'[i] = log[i]
      BY <1>1, <2>2
    <3>. QED  BY <3>1, <3>2, <3>3
  <2>4. j.got.view \in 0 .. Len(log') /\ j.got.known \subseteq 1 .. Len(log')
    BY <1>1, <2>2
  <2>5. ~j.got.stale => \E m \in 0 .. Len(log') :
          /\ j.job.data = InjectionPlan(ContextsAt(j.got.view), RulesAt(m))'
          /\ \A i \in j.got.known : log'[i].kind = "rule" => i <= m
    BY <2>3 DEF InjectionPlan, Matching, RuleMatches
  <2>. QED  BY <2>4, <2>5 DEF PlanMade
<1>3. PackageMade(j)'
  <2>1. SUFFICES ASSUME j.pc \in {"manifest", "records", "audit"} PROVE PackageMade(j)'
    BY DEF PackageMade
  <2>2. PICK marked, v : v \in 0 .. Len(log) /\ BuiltFrom(j, v, marked)
    BY <2>1 DEF Made, PackageMade
  <2>3. j.got.known \subseteq 1 .. Len(log) /\ j.job.marked \in 0 .. Len(lifecycle)
    BY <2>1 DEF Made, PackageMade
  <2>4. BuiltFrom(j, v, marked)'
    <3>1. PICK target, ids, asked : j.got.built = Package(ContextsAt(v), target, ids, asked, marked)
      BY <2>2 DEF BuiltFrom
    <3>2. ContextsAt(v)' = ContextsAt(v)
      BY <1>1, <2>2, PrefixStays
    <3>3. j.got.built = Package(ContextsAt(v)', target, ids, asked, marked)
      BY <3>1, <3>2
    <3>4. ~j.got.stale => \A i \in j.got.known : log'[i].kind = "context" => i <= v
      BY <1>1, <2>2, <2>3 DEF BuiltFrom
    <3>5. \A i \in 1 .. j.job.marked : lifecycle'[i].ok =>
            [target |-> lifecycle'[i].target, action |-> lifecycle'[i].action] \in marked
      <4>1. \A i \in 1 .. j.job.marked : i \in 1 .. Len(lifecycle) /\ lifecycle'[i] = lifecycle[i]
        BY <1>1, <2>3
      <4>. QED  BY <2>2, <4>1 DEF BuiltFrom
    <3>6. \E t, is, as : j.got.built = Package(ContextsAt(v)', t, is, as, marked)
      BY <3>3
    <3>. QED  BY <3>4, <3>5, <3>6 DEF BuiltFrom, Package, PackageRecord, Select, Named, Tombstoned,
              Sealed, ClassWarnings, HasBody, Markers, OutputLayer, HiddenWarning
  <2>5. /\ j.got.known \subseteq 1 .. Len(log') /\ v \in 0 .. Len(log')
        /\ j.job.marked \in 0 .. Len(lifecycle')
    BY <1>1, <2>2, <2>3
  <2>. QED  BY <2>4, <2>5 DEF PackageMade
<1>. QED  BY <1>2, <1>3 DEF Made

(* What other steps leave a command with *)
LEMMA Elsewhere ==
  ASSUME NEW j, j.pc \notin {"manifest", "records", "audit"}, j.pc = "append" => j.op # "plan"
  PROVE  Made(j)
BY DEF Made, PlanMade, PackageMade

(* No command begins with a plan or a package made. *)
LEMMA BeginsMade ==
  ASSUME Base, NEW p \in Procs, Begin(p), \A j \in Jobs : Made(j)
  PROVE  \A q \in Procs : proc'[q] = proc[q] \/ Made(proc'[q])
<1>1. CASE Mark(p) \/ MarkTorn(p) \/ ReviewPackage(p)
  BY <1>1 DEF Mark, MarkTorn, ReviewPackage
<1>2. ASSUME NEW op, NEW pc, NEW job, Start(p, op, pc, job),
             pc \notin {"manifest", "records", "audit"}, pc = "append" => op # "plan"
      PROVE  \A q \in Procs : proc'[q] = proc[q] \/ Made(proc'[q])
  <2>1. PICK j : j = At(pc, op, job, <<>>)
    OBVIOUS
  <2>2. j.pc = pc /\ j.op = op
    BY <2>1 DEF At
  <2>3. Made(j)
    BY <1>2, <2>2, Elsewhere
  <2>. QED  BY <1>2, <2>1, <2>3, StartsAt
<1>3. CASE BeginAdd(p)
  <2>1. \E pc, job : Start(p, "add", pc, job) /\ pc = "append"
    BY <1>3 DEF BeginAdd
  <2>. QED  BY <1>2, <2>1
<1>4. CASE BeginRule(p)
  <2>1. \E pc, job : Start(p, "rule", pc, job) /\ pc = "append"
    BY <1>4 DEF BeginRule
  <2>. QED  BY <1>2, <2>1
<1>5. CASE BeginClassify(p)
  <2>1. \E pc, job : Start(p, "classify", pc, job) /\ pc = "read"
    BY <1>5 DEF BeginClassify
  <2>. QED  BY <1>2, <2>1
<1>6. CASE BeginUpdate(p)
  <2>1. \E pc, job : Start(p, "update", pc, job) /\ pc = "read"
    BY <1>6 DEF BeginUpdate
  <2>. QED  BY <1>2, <2>1
<1>7. CASE BeginPackage(p) \/ BeginPreview(p) \/ BeginPlan(p)
  <2>1. \E op, pc, job : Start(p, op, pc, job) /\ pc = "load"
    <3>1. BeginPackage(p) => \E job : Start(p, "package", "load", job)
      BY DEF BeginPackage
    <3>2. BeginPreview(p) => \E job : Start(p, "preview", "load", job)
      BY DEF BeginPreview
    <3>3. BeginPlan(p) => \E job : Start(p, "plan", "load", job)
      BY DEF BeginPlan
    <3>. QED  BY <1>7, <3>1, <3>2, <3>3
  <2>. QED  BY <1>2, <2>1
<1>. QED  BY <1>1, <1>3, <1>4, <1>5, <1>6, <1>7 DEF Begin

(* The rules are read after the contexts, so a plan misses none that it knew. *)
LEMMA PlanIsMade ==
  ASSUME Base, NEW p \in Procs, BuildPlan(p)
  PROVE  Made(proc'[p])
<1>0. PICK i : i = proc[p]
  OBVIOUS
<1>1. /\ Shape /\ Fits(i) /\ LogTyped /\ newest \in 0 .. Len(log) /\ ruleIndex \in 0 .. newest
      /\ Len(log) \in Nat /\ i.pc = "rules"
  BY <1>0, LenProperties DEF Base, Jobs, LogTyped, IndexesBehind, BuildPlan
<1>2. /\ i.op = "plan" /\ i.got.view \in 0 .. Len(log) /\ i.got.known \subseteq 1 .. Len(log)
      /\ i.got = [view |-> i.got.view, stale |-> i.got.stale, known |-> i.got.known]
      /\ i.got.stale \in BOOLEAN
      /\ ~i.got.stale => \A k \in i.got.known : log[k].kind = "rule" => k <= newest
  BY <1>1 DEF Fits, Sees
<1>3. PICK data : data = InjectionPlan(ContextsAt(i.got.view), RulesAt(ruleIndex))
  OBVIOUS
<1>4. PICK job : job = Line("plan", "plan", data, 0, FALSE)
  OBVIOUS
<1>5. PICK got : got = [i.got EXCEPT !.stale = i.got.stale \/ Stale]
  OBVIOUS
<1>6. PICK j : j = At("append", i.op, job, got)
  OBVIOUS
<1>7. proc'[p] = j
  <2>1. Takes(p, "append", job, got)
    BY <1>0, <1>3, <1>4, <1>5 DEF BuildPlan, Takes
  <2>2. proc' = [proc EXCEPT ![p] = At("append", i.op, job, got)]
    BY <1>0, <1>1, <2>1, TakesOn
  <2>. QED  BY <1>1, <1>6, <2>2 DEF Shape
<1>8. /\ got.view = i.got.view /\ got.known = i.got.known /\ got.stale = (i.got.stale \/ Stale)
  BY <1>2, <1>5
<1>9. j.pc = "append" /\ j.op = "plan" /\ j.job.data = data /\ j.got = got
  BY <1>2, <1>4, <1>6 DEF At, Line
<1>10. ~got.stale => ~i.got.stale /\ ruleIndex = newest
  <2>1. ~got.stale => ~i.got.stale /\ ~Stale
    BY <1>8
  <2>2. ~Stale => ~(ruleIndex < newest)
    BY DEF Stale
  <2>3. ~(ruleIndex < newest) => ruleIndex = newest
    BY <1>1
  <2>. QED  BY <2>1, <2>2, <2>3
<1>11. ruleIndex \in 0 .. Len(log)
  BY <1>1
<1>12. PlanMade(j)
  <2>1. ~j.got.stale => \A k \in j.got.known : log[k].kind = "rule" => k <= ruleIndex
    BY <1>2, <1>8, <1>9, <1>10
  <2>2. j.job.data = InjectionPlan(ContextsAt(j.got.view), RulesAt(ruleIndex))
    BY <1>3, <1>8, <1>9
  <2>3. j.got.view \in 0 .. Len(log) /\ j.got.known \subseteq 1 .. Len(log)
    BY <1>2, <1>8, <1>9
  <2>. QED  BY <1>11, <2>1, <2>2, <2>3 DEF PlanMade
<1>. QED  BY <1>7, <1>9, <1>12 DEF Made, PackageMade

(* A package is built from the contexts it loaded and the markers it finds. *)
LEMMA PackageIsMade ==
  ASSUME Base, NEW p \in Procs, BuildPackage(p)
  PROVE  Made(proc'[p])
<1>0. PICK i : i = proc[p]
  OBVIOUS
<1>1. /\ Shape /\ Fits(i) /\ i.pc = "build" /\ i.op = "package" /\ MarksTyped
  BY <1>0 DEF Base, Jobs, BuildPackage
<1>2. /\ i.got.view \in 0 .. Len(log) /\ i.got.known \subseteq 1 .. Len(log)
      /\ ~i.got.stale => \A k \in i.got.known : log[k].kind = "context" => k <= i.got.view
      /\ i.job.marked \in 0 .. Len(lifecycle)
  BY <1>1 DEF Fits, Sees, PackageJob
<1>3. PICK asked, built : built = Package(ContextsAt(i.got.view), i.job.target, i.job.ids, asked, Readable)
                          /\ Go(p, "manifest", [stale |-> i.got.stale, known |-> i.got.known, built |-> built])
  BY <1>0 DEF BuildPackage
<1>4. PICK got : got = [stale |-> i.got.stale, known |-> i.got.known, built |-> built]
  OBVIOUS
<1>5. PICK j : j = At("manifest", i.op, i.job, got)
  OBVIOUS
<1>6. proc'[p] = j
  <2>1. Go(p, "manifest", got)
    BY <1>3, <1>4
  <2>2. proc' = [proc EXCEPT ![p] = At("manifest", i.op, i.job, got)]
    BY <1>0, <1>1, <2>1, GoesOn
  <2>. QED  BY <1>1, <1>5, <2>2 DEF Shape
<1>7. /\ j.pc = "manifest" /\ j.job = i.job /\ j.got.stale = i.got.stale
      /\ j.got.known = i.got.known /\ j.got.built = built
  BY <1>4, <1>5 DEF At
<1>8. \A k \in 1 .. Len(lifecycle) : lifecycle[k].ok =>
        [target |-> lifecycle[k].target, action |-> lifecycle[k].action] \in Readable
  <2>1. PICK S : lifecycle \in Seq(S)
    BY <1>1 DEF MarksTyped
  <2>2. \A k \in 1 .. Len(lifecycle) : lifecycle[k] \in Range(lifecycle)
    BY <2>1 DEF Range
  <2>. QED  BY <2>2 DEF Readable
<1>9. \A k \in 1 .. i.job.marked : k \in 1 .. Len(lifecycle)
  <2>1. Len(lifecycle) \in Nat
    BY <1>1, LenProperties DEF MarksTyped
  <2>. QED  BY <1>2, <2>1
<1>10. BuiltFrom(j, i.got.view, Readable)
  BY <1>2, <1>3, <1>7, <1>8, <1>9 DEF BuiltFrom
<1>11. PackageMade(j)
  BY <1>2, <1>7, <1>10 DEF PackageMade
<1>. QED  BY <1>6, <1>7, <1>11 DEF Made, PlanMade

(* Writing the files changes nothing of the package. *)
LEMMA FilesMade ==
  ASSUME Base, NEW p \in Procs, Made(proc[p]), WriteManifest(p) \/ WriteRecords(p)
  PROVE  Made(proc'[p])
<1>0. PICK i : i = proc[p]
  OBVIOUS
<1>1. PICK pc : pc \in {"records", "audit"} /\ Go(p, pc, i.got) /\ i.pc \in {"manifest", "records"}
  BY <1>0 DEF WriteManifest, WriteRecords
<1>2. PICK j : j = At(pc, i.op, i.job, i.got)
  OBVIOUS
<1>3. proc'[p] = j
  <2>1. proc' = [proc EXCEPT ![p] = At(pc, i.op, i.job, i.got)]
    BY <1>0, <1>1, GoesOn DEF Base
  <2>. QED  BY <1>2, <2>1 DEF Base, Shape
<1>4. j.pc = pc /\ j.job = i.job /\ j.got = i.got
  BY <1>2 DEF At
<1>5. PICK marked, v : /\ i.got.known \subseteq 1 .. Len(log) /\ i.job.marked \in 0 .. Len(lifecycle)
                       /\ v \in 0 .. Len(log) /\ BuiltFrom(i, v, marked)
  BY <1>0, <1>1 DEF Made, PackageMade
<1>6. BuiltFrom(j, v, marked)
  BY <1>4, <1>5 DEF BuiltFrom
<1>. QED  BY <1>1, <1>3, <1>4, <1>5, <1>6 DEF Made, PlanMade, PackageMade

(* The other steps make neither. *)
LEMMA StepsMade ==
  ASSUME Base, NEW p \in Procs, Made(proc[p]), Step(p) \/ Crash(p)
  PROVE  Made(proc'[p])
<1>0. PICK i, j : i = proc[p] /\ j = proc'[p]
  OBVIOUS
<1>1. Shape /\ Fits(i) /\ (j = Idle \/ j.op = i.op)
  BY <1>0, StepKeepsOp DEF Base, Jobs
<1>2. CASE j = Idle
  BY <1>0, <1>2, Elsewhere DEF Idle
<1>3. ASSUME NEW pc, NEW got, Go(p, pc, got) PROVE j.pc = pc
  <2>1. PICK h : h = At(pc, i.op, i.job, got)
    OBVIOUS
  <2>2. proc'[p] = h
    <3>1. proc' = [proc EXCEPT ![p] = At(pc, i.op, i.job, got)]
      BY <1>0, <1>1, <1>3, GoesOn
    <3>. QED  BY <1>1, <2>1, <3>1 DEF Shape
  <2>. QED  BY <1>0, <2>1, <2>2 DEF At
<1>4. CASE ReadLog(p) \/ SaveContexts(p) \/ LoadContexts(p)
  <2>1. j.pc \in {"save_contexts", "save_rules", "rules", "build"}
    BY <1>3, <1>4 DEF ReadLog, SaveContexts, LoadContexts
  <2>. QED  BY <1>0, <2>1, Elsewhere
<1>5. CASE SaveRules(p)
  <2>1. j = Idle \/ j.pc = "edit"
    BY <1>0, <1>1, <1>3, <1>5 DEF SaveRules, End, Shape
  <2>. QED  BY <1>0, <1>2, <2>1, Elsewhere
<1>6. CASE LoadForEdit(p) \/ AppendEvent(p) \/ BuildPreview(p)
  <2>1. CASE i.op # "plan"
    <3>1. j.pc \in {"idle", "append", "read"}
      BY SMTT(60), <1>0, <1>1, <1>6 DEF LoadForEdit, AppendEvent, BuildPreview, End, Shape, At, Idle
    <3>. QED  BY <1>0, <1>1, <1>2, <2>1, <3>1, Elsewhere
  <2>2. CASE i.op = "plan"
    <3>1. ~LoadForEdit(p) /\ ~BuildPreview(p)
      BY <1>0, <1>1, <2>2 DEF LoadForEdit, BuildPreview, Fits, Edits, IsTask, EditOps
    <3>2. j = Idle
      BY <1>0, <1>1, <1>6, <2>2, <3>1 DEF AppendEvent, Editors, End, Shape
    <3>. QED  BY <1>2, <3>2
  <2>. QED  BY <2>1, <2>2
<1>7. CASE AuditPackage(p) \/ MarksRaise(p) \/ Crash(p)
  BY <1>0, <1>1, <1>2, <1>7 DEF AuditPackage, MarksRaise, Crash, End, Shape
<1>. QED  BY <1>4, <1>5, <1>6, <1>7, PlanIsMade, PackageIsMade, FilesMade DEF Step

(* Every step keeps what plans and packages were made of. *)
LEMMA NextMade ==
  ASSUME Base, [Next]_vars, \A j \in Jobs : Made(j)
  PROVE  \A j \in Jobs' : Made(j)'
<1>1. Base' /\ Grows /\ LogTyped' /\ MarksTyped'
  BY NextBase DEF Base
<1>2. \A q \in Procs : Made(proc[q])
  BY DEF Jobs
<1>3. \A q \in Procs : proc'[q] = proc[q] \/ Made(proc'[q])
  <2>1. CASE UNCHANGED vars
    BY <2>1 DEF vars
  <2>2. CASE Next
    <3>1. PICK p \in Procs : Begin(p) \/ Step(p) \/ Crash(p)
      BY <2>2 DEF Next
    <3>2. CASE Begin(p)
      BY <3>2, BeginsMade
    <3>3. CASE Step(p) \/ Crash(p)
      BY <1>2, <3>3, StepKeepsOp, StepsMade
    <3>. QED  BY <3>1, <3>2, <3>3
  <2>. QED  BY <2>1, <2>2
<1>4. ASSUME NEW h, h \in Jobs' PROVE Made(h)'
  <2>1. PICK q \in Procs : h = proc'[q]
    BY <1>4 DEF Jobs
  <2>2. Made(h)
    BY <1>2, <1>3, <2>1
  <2>. QED  BY <1>1, <2>2, MadeStays
<1>. QED  BY <1>4

(* Nothing has been made in an empty project. *)
LEMMA InitMade == Init => \A j \in Jobs : Made(j)
<1>1. Init => \A j \in Jobs : j = Idle
  BY DEF Init, Jobs
<1>. QED  BY <1>1, Elsewhere DEF Idle

(* A plan that was made of all rules that had ended obeys them *)
LEMMA MadePlansObey ==
  ASSUME Base, \A j \in Jobs : Made(j)
  PROVE  PlanObeysRules
<1> SUFFICES ASSUME NEW p \in Procs, proc[p].op = "plan", proc[p].pc = "append", ~proc[p].got.stale,
                    NEW i \in proc[p].got.known \cap Positions("rule", Len(log)),
                    log[i].data.type = "exclude",
                    NEW c \in ContextsAt(proc[p].got.view), RuleMatches(log[i].data, c)
             PROVE  c.id \notin proc[p].job.data.selected
  BY DEF PlanObeysRules
<1>1. LogTyped /\ PlanMade(proc[p])
  BY DEF Base, Jobs, Made
<1>2. PICK v, ctxs : v = proc[p].got.view /\ ctxs = ContextsAt(v)
  OBVIOUS
<1>3. v \in 0 .. Len(log) /\ c \in ctxs
  BY <1>1, <1>2 DEF PlanMade
<1>4. PICK m \in 0 .. Len(log) :
        /\ proc[p].job.data = InjectionPlan(ctxs, RulesAt(m))
        /\ \A k \in proc[p].got.known : log[k].kind = "rule" => k <= m
  BY <1>1, <1>2 DEF PlanMade
<1>5. log[i].data \in RulesAt(m)
  <2>1. i \in 1 .. Len(log) /\ log[i].kind = "rule" /\ i <= m
    BY <1>4 DEF Positions
  <2>2. Len(log) \in Nat
    BY <1>1, LenProperties DEF LogTyped
  <2>3. i \in 1 .. m
    BY <1>4, <2>1, <2>2
  <2>. QED  BY <2>1, <2>3 DEF RulesAt, Positions
<1>6. Matching(RulesAt(m), c, "exclude") # {}
  BY <1>5 DEF Matching
<1>7. \A d \in ctxs : d.id = c.id => d = c
  BY <1>1, <1>2, <1>3, ContextsTyped
<1>8. PICK data : data = InjectionPlan(ctxs, RulesAt(m))
  OBVIOUS
<1>9. data.selected = {d.id : d \in ctxs \ {e \in ctxs : Matching(RulesAt(m), e, "exclude") # {}}}
  BY <1>8 DEF InjectionPlan
<1>10. c.id \notin data.selected
  <2>1. SUFFICES ASSUME NEW d \in ctxs, Matching(RulesAt(m), d, "exclude") = {}, d.id = c.id PROVE FALSE
    BY <1>9
  <2>. QED  BY <1>6, <1>7, <2>1
<1>. QED  BY <1>4, <1>8, <1>10

(* The plan that is about to be recorded selects nothing that an exclude rule *)
(* matches whose command had ended.                                           *)
THEOREM PlansObey == Spec => []PlanObeysRules
<1> DEFINE Inv == Base /\ \A j \in Jobs : Made(j)
<1>1. Init => Inv
  BY InitBase, InitMade
<1>2. Inv /\ [Next]_vars => Inv'
  BY NextBase, NextMade
<1>3. Inv => PlanObeysRules
  BY MadePlansObey
<1>. QED  BY <1>1, <1>2, <1>3, PTL DEF Spec

----------------------------------------------------------------------------
(* What is kept out of a package *)

(* A record of a package comes of one of the contexts it was built from. *)
LEMMA RecordOf ==
  ASSUME NEW ctxs, NEW target, NEW ids, NEW asked, NEW marked, NEW pkg,
         pkg = Package(ctxs, target, ids, asked, marked), NEW r \in pkg.records
  PROVE  \E c \in ctxs :
           /\ c \in Named(ctxs, ids) /\ ~Tombstoned(marked, c.id)
           /\ r.id = c.id /\ r.body = (c.cls.layer # RestrictedSecret)
<1>1. pkg.records = {PackageRecord(c, target, marked) : c \in Select(ctxs, ids, marked)}
  BY DEF Package
<1>2. PICK c \in Select(ctxs, ids, marked) : r = PackageRecord(c, target, marked)
  BY <1>1
<1>3. r.id = c.id /\ r.body = (c.cls.layer # RestrictedSecret)
  BY <1>2 DEF PackageRecord, HasBody
<1>. QED  BY <1>2, <1>3 DEF Select, Named

(* One restricted secret among the contexts blocks their use. *)
LEMMA SecretsBlock ==
  ASSUME NEW ctxs, NEW ids, NEW target, NEW c \in Named(ctxs, ids), c.cls.layer = RestrictedSecret
  PROVE  UseCheck(ctxs, ids, target) = "blocked"
<1>1. "blocked" \in UseFindings(c, target)
  BY DEF UseFindings, RestrictedSecret, Unclassified
<1>2. "blocked" \in UNION {UseFindings(d, target) : d \in Named(ctxs, ids)}
  BY <1>1
<1>. QED  BY <1>2 DEF UseCheck, UseStatus

(* A body in a package is that of a context whose last known snapshot is no secret. *)
LEMMA MadeKeepsRestricted ==
  ASSUME Base, \A j \in Jobs : Made(j)
  PROVE  RestrictedStaysOut
<1>1. LogTyped /\ Len(log) \in Nat
  BY LenProperties DEF Base, LogTyped
<1>2. ASSUME NEW p \in Packaging, ~proc[p].got.stale,
             NEW r \in proc[p].got.built.records, r.body,
             NEW i \in proc[p].got.known \cap Snapshots,
             log[i].data.id = r.id, IsSecret(log[i].data)
      PROVE  \E j \in Snapshots : j > i /\ log[j].data.id = r.id /\ ~IsSecret(log[j].data)
  <2>1. PICK j : j = proc[p] /\ j.pc \in {"manifest", "records", "audit"} /\ Made(j)
    BY <1>2 DEF Packaging, Jobs
  <2>2. PICK marked, v : v \in 0 .. Len(log) /\ BuiltFrom(j, v, marked)
    BY <2>1 DEF Made, PackageMade
  <2>3. PICK ctxs : ctxs = ContextsAt(v)
    OBVIOUS
  <2>4. PICK target, ids, asked : j.got.built = Package(ctxs, target, ids, asked, marked)
    BY <2>2, <2>3 DEF BuiltFrom
  <2>5. PICK c \in ctxs : r.id = c.id /\ r.body = (c.cls.layer # RestrictedSecret)
    <3>1. PICK pkg : pkg = j.got.built
      OBVIOUS
    <3>2. pkg = Package(ctxs, target, ids, asked, marked) /\ r \in pkg.records
      BY <1>2, <2>1, <2>4, <3>1
    <3>. QED  BY <3>2, RecordOf
  <2>6. c \in Ctx /\ KnownAt(c.id, v) /\ c = log[LastOf(SnapshotsOf(c.id, v))].data
    BY <1>1, <2>2, <2>3, <2>5, ContextsTyped
  <2>7. PICK last : last = LastOf(SnapshotsOf(c.id, v))
    OBVIOUS
  <2>8. /\ last \in SnapshotsOf(c.id, v) /\ SnapshotsOf(c.id, v) \subseteq 1 .. v
        /\ \A k \in SnapshotsOf(c.id, v) : k <= last
    BY <1>1, <2>2, <2>6, <2>7, SnapshotsTyped DEF KnownAt
  <2>9. i \in 1 .. Len(log) /\ log[i].kind = "context" /\ i \in j.got.known /\ ~j.got.stale
    BY <1>2, <2>1 DEF Snapshots, Positions
  <2>10. i <= v
    BY <2>2, <2>9 DEF BuiltFrom
  <2>11. i \in SnapshotsOf(c.id, v)
    BY <1>1, <1>2, <2>2, <2>5, <2>9, <2>10 DEF SnapshotsOf, Positions
  <2>12. last \in Snapshots /\ log[last].data = c
    <3>1. log[last].data = c
      BY <2>6, <2>7
    <3>2. last \in 1 .. v /\ log[last].kind = "context"
      BY <2>8 DEF SnapshotsOf, Positions
    <3>3. last \in 1 .. Len(log)
      BY <1>1, <2>2, <3>2
    <3>. QED  BY <3>1, <3>2, <3>3 DEF Snapshots, Positions
  <2>13. ~IsSecret(c)
    BY <1>2, <2>5 DEF IsSecret
  <2>14. last # i /\ i <= last /\ i \in Nat /\ last \in Nat
    BY <1>1, <1>2, <2>2, <2>8, <2>9, <2>11, <2>12, <2>13
  <2>. QED  BY <2>5, <2>12, <2>13, <2>14
<1>3. ASSUME NEW p \in Procs, proc[p].pc = "build", proc[p].op = "package"
      PROVE  LET job == proc[p].job  ctxs == ContextsAt(proc[p].got.view) IN
             (\E r \in Package(ctxs, job.target, job.ids, Ids, Readable).records : ~r.body) =>
               UseCheck(ctxs, job.ids, job.target) = "blocked"
  <2> DEFINE job == proc[p].job
             ctxs == ContextsAt(proc[p].got.view)
  <2>1. ASSUME NEW r \in Package(ctxs, job.target, job.ids, Ids, Readable).records, ~r.body
        PROVE  UseCheck(ctxs, job.ids, job.target) = "blocked"
    <3>1. PICK pkg : pkg = Package(ctxs, job.target, job.ids, Ids, Readable)
      OBVIOUS
    <3> HIDE DEF ctxs, job
    <3>2. r \in pkg.records
      BY <2>1, <3>1
    <3>3. PICK c \in ctxs : c \in Named(ctxs, job.ids) /\ r.body = (c.cls.layer # RestrictedSecret)
      BY <3>1, <3>2, RecordOf
    <3>4. c.cls.layer = RestrictedSecret
      BY <2>1, <3>3
    <3>. QED  BY <3>3, <3>4, SecretsBlock
  <2>. QED  BY <2>1
<1>. QED  BY <1>2, <1>3 DEF RestrictedStaysOut

(* A hidden context in a package: the marker cannot be read, so the line before is torn. *)
LEMMA MadeKeepsHidden ==
  ASSUME Base, \A j \in Jobs : Made(j),
         NEW p \in Packaging, NEW i \in DOMAIN lifecycle, i <= proc[p].job.marked,
         lifecycle[i].ended, lifecycle[i].action \in {"tombstone", "hard_delete"},
         \E r \in proc[p].got.built.records : r.id = lifecycle[i].target
  PROVE  i > 1 /\ ~lifecycle[i - 1].ended
<1>1. MarksTyped /\ Len(lifecycle) \in Nat
  BY LenProperties DEF Base, MarksTyped
<1>2. i \in 1 .. Len(lifecycle) /\ lifecycle[i].ok \in BOOLEAN
  BY <1>1, LenProperties DEF MarksTyped
<1>3. PICK j : j = proc[p] /\ j.pc \in {"manifest", "records", "audit"} /\ Made(j)
  BY DEF Packaging, Jobs
<1>4. PICK marked, v : BuiltFrom(j, v, marked) /\ j.job.marked \in 0 .. Len(lifecycle)
  BY <1>3 DEF Made, PackageMade
<1>5. PICK target, ids, asked : j.got.built = Package(ContextsAt(v), target, ids, asked, marked)
  BY <1>4 DEF BuiltFrom
<1>6. PICK r \in j.got.built.records : r.id = lifecycle[i].target
  BY <1>3
<1>7. ~Tombstoned(marked, r.id)
  <2>1. PICK ctxs, pkg : ctxs = ContextsAt(v) /\ pkg = j.got.built
    OBVIOUS
  <2>2. pkg = Package(ctxs, target, ids, asked, marked) /\ r \in pkg.records
    BY <1>5, <1>6, <2>1
  <2>3. \E c \in ctxs : ~Tombstoned(marked, c.id) /\ r.id = c.id
    BY <2>2, RecordOf
  <2>. QED  BY <2>3
<1>8. ~lifecycle[i].ok
  <2>1. SUFFICES ASSUME lifecycle[i].ok PROVE FALSE
    OBVIOUS
  <2>2. i \in 1 .. j.job.marked
    BY <1>1, <1>2, <1>3, <1>4
  <2>3. [target |-> lifecycle[i].target, action |-> lifecycle[i].action] \in marked
    BY <1>4, <2>1, <2>2 DEF BuiltFrom
  <2>4. Tombstoned(marked, r.id)
    BY <1>6, <2>3 DEF Tombstoned
  <2>. QED  BY <1>7, <2>4
<1>. QED  BY <1>1, <1>2, <1>8 DEF MarksTyped

(* One crash inside a write of a marker costs one marker *)
LEMMA NextTorn ==
  ASSUME Base, TornCounted, [Next]_vars
  PROVE  TornCounted'
<1>1. /\ MarksTyped /\ Len(lifecycle) \in Nat /\ DOMAIN lifecycle = 1 .. Len(lifecycle) /\ crashes \in Nat
  BY LenProperties DEF Base, MarksTyped, Shape
<1>2. IsFiniteSet(Lost) /\ Cardinality(Lost) \in Nat
  <2>1. IsFiniteSet(1 .. Len(lifecycle)) /\ Lost \subseteq 1 .. Len(lifecycle)
    BY <1>1, FS_Interval DEF Lost
  <2>. QED  BY <2>1, FS_Subset, FS_CardinalityType
<1>3. ASSUME UNCHANGED marks, crashes' = crashes \/ crashes' = crashes + 1 PROVE TornCounted'
  BY <1>1, <1>2, <1>3 DEF TornCounted, Lost, marks
<1>4. ASSUME NEW p \in Procs, Mark(p) \/ MarkTorn(p) PROVE TornCounted'
  <2>1. /\ Len(lifecycle') = Len(lifecycle) + 1 /\ MarksTyped'
        /\ \A i \in 1 .. Len(lifecycle) : lifecycle'[i] = lifecycle[i]
    BY <1>4, MarkBase DEF Base
  <2>2. PICK e : e = lifecycle'[Len(lifecycle) + 1]
    OBVIOUS
  <2>3. \/ e.ended /\ e.ok = ~tornTail /\ crashes' = crashes
        \/ ~e.ended /\ ~e.ok /\ crashes' = crashes + 1
    BY <1>4, <2>2, MarkBase
  <2>4. DOMAIN lifecycle' = 1 .. Len(lifecycle) + 1
    BY <1>1, <2>1, LenProperties DEF MarksTyped
  <2>5. Lost' = Lost \cup (IF e.ended /\ ~e.ok THEN {Len(lifecycle) + 1} ELSE {})
    <3>1. Lost' = {i \in 1 .. Len(lifecycle) + 1 : lifecycle'[i].ended /\ ~lifecycle'[i].ok}
      BY <2>4 DEF Lost
    <3>2. \A i \in 1 .. Len(lifecycle) + 1 : i \in 1 .. Len(lifecycle) \/ i = Len(lifecycle) + 1
      BY <1>1
    <3>3. Lost = {i \in 1 .. Len(lifecycle) : lifecycle[i].ended /\ ~lifecycle[i].ok}
      BY <1>1 DEF Lost
    <3>4. Len(lifecycle) + 1 \in 1 .. Len(lifecycle) + 1 /\ 1 .. Len(lifecycle) \subseteq 1 .. Len(lifecycle) + 1
      BY <1>1
    <3>. QED  BY <2>1, <2>2, <3>1, <3>2, <3>3, <3>4
  <2>6. Len(lifecycle) + 1 \notin Lost
    BY <1>1 DEF Lost
  <2>7. Cardinality(Lost \cup {Len(lifecycle) + 1}) = Cardinality(Lost) + 1
    BY <1>2, <2>6, FS_AddElement
  <2>8. tornTail \in BOOLEAN /\ tornTail' = ~e.ended /\ e.ended \in BOOLEAN /\ e.ok \in BOOLEAN
    <3>1. lifecycle' # <<>>
      BY <1>1, <2>1, EmptySeq
    <3>2. Len(lifecycle') \in 1 .. Len(lifecycle')
      BY <1>1, <2>1
    <3>3. tornTail \in BOOLEAN
      BY <1>1 DEF MarksTyped
    <3>. QED  BY <2>1, <2>2, <3>1, <3>2, <3>3 DEF MarksTyped
  <2>9. CASE ~e.ended
    <3>1. Lost' = Lost /\ crashes' = crashes + 1 /\ tornTail'
      BY <2>3, <2>5, <2>8, <2>9
    <3>. QED  BY <1>1, <1>2, <2>8, <3>1 DEF TornCounted
  <2>10. CASE e.ended
    <3>1. crashes' = crashes /\ ~tornTail' /\ e.ok = ~tornTail
      BY <2>3, <2>8, <2>10
    <3>2. CASE tornTail
      <4>1. Cardinality(Lost') = Cardinality(Lost) + 1
        BY <2>5, <2>7, <2>10, <3>1, <3>2
      <4>. QED  BY <1>1, <1>2, <3>1, <3>2, <4>1 DEF TornCounted
    <3>3. CASE ~tornTail
      <4>1. Lost' = Lost
        BY <2>5, <2>8, <2>10, <3>1, <3>3
      <4>. QED  BY <1>1, <1>2, <3>1, <3>3, <4>1 DEF TornCounted
    <3>. QED  BY <2>8, <3>2, <3>3
  <2>. QED  BY <2>8, <2>9, <2>10
<1>5. CASE UNCHANGED vars
  BY <1>3, <1>5 DEF vars
<1>6. ASSUME NEW p \in Procs, Begin(p) \/ Step(p) \/ Crash(p), ~Mark(p), ~MarkTorn(p) PROVE TornCounted'
  <2>1. UNCHANGED marks /\ (crashes' = crashes \/ crashes' = crashes + 1)
    BY <1>6 DEF Begin, Step, Crash, Start, BeginAdd, BeginRule, BeginClassify, BeginUpdate, BeginPackage,
       BeginPreview, BeginPlan, ReviewPackage, ReadLog, SaveContexts, SaveRules, LoadForEdit, AppendEvent,
       LoadContexts, BuildPlan, BuildPreview, BuildPackage, MarksRaise, WriteManifest, WriteRecords, AuditPackage
  <2>. QED  BY <1>3, <2>1
<1>. QED  BY <1>4, <1>5, <1>6 DEF Next

(* What a command that has ended made a restricted secret stays out of every  *)
(* package, and so does what an acknowledged marker hides, unless a line that *)
(* lost its end came before it.  As long as none was cut inside a character,  *)
(* one crash inside the write of a marker costs one marker, not more.         *)
THEOREM SecretsStay == Spec => []PackagesKeepSecrets
<1> DEFINE Inv == Base /\ TornCounted /\ \A j \in Jobs : Made(j)
<1>1. Init => Inv
  <2>1. ASSUME Init PROVE TornCounted
    <3>1. DOMAIN lifecycle = {} /\ crashes = 0 /\ ~tornTail
      BY <2>1 DEF Init
    <3>2. Lost = {}
      BY <3>1 DEF Lost
    <3>. QED  BY <3>1, <3>2, FS_EmptySet DEF TornCounted
  <2>. QED  BY <2>1, InitBase, InitMade
<1>2. Inv /\ [Next]_vars => Inv'
  BY NextBase, NextMade, NextTorn
<1>3. Inv => PackagesKeepSecrets
  <2> SUFFICES ASSUME Inv PROVE PackagesKeepSecrets
    OBVIOUS
  <2>1. RestrictedStaysOut
    BY MadeKeepsRestricted
  <2>2. Cardinality(Lost) <= crashes
    <3>1. IsFiniteSet(Lost)
      <4>1. Len(lifecycle) \in Nat /\ DOMAIN lifecycle = 1 .. Len(lifecycle)
        BY LenProperties DEF Base, MarksTyped
      <4>2. IsFiniteSet(1 .. Len(lifecycle)) /\ Lost \subseteq 1 .. Len(lifecycle)
        BY <4>1, FS_Interval DEF Lost
      <4>. QED  BY <4>2, FS_Subset
    <3>2. Cardinality(Lost) \in Nat /\ crashes \in Nat
      BY <3>1, FS_CardinalityType DEF Base, Shape
    <3>. QED  BY <3>2 DEF TornCounted
  <2>3. HiddenStaysHidden
    BY <2>2, MadeKeepsHidden DEF HiddenStaysHidden, Lost
  <2>. QED  BY <2>1, <2>3 DEF PackagesKeepSecrets
<1>. QED  BY <1>1, <1>2, <1>3, PTL DEF Spec
==============================================================================
