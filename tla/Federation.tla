----------------------------- MODULE Federation -----------------------------
(***************************************************************************)
(* What a project exchanges with other nodes: trust relations, node        *)
(* profiles, messages in an inbox and an outbox, and package directories.  *)
(* Each is a JSON file of its own.  Saving one truncates it and then       *)
(* writes it, no command takes a lock, and a command that dies between the *)
(* two leaves an empty file that every later listing fails on.  Of two     *)
(* that truncate one file before either writes it, the second may leave    *)
(* its own text with the end of a longer one behind it, which fails too.   *)
(*                                                                         *)
(* A file is a sequence of at most one content.  The files of a package    *)
(* directory are each written in one step; a command that dies there stops *)
(* between two files.  A directory may be used again, and its files may be *)
(* damaged on their way.                                                   *)
(***************************************************************************)
EXTENDS FederationPolicy

CONSTANTS
  Procs,        \* commands that may run at once
  Relations, Messages, Nodes,  \* ids, each used for one file
  Targets,      \* nodes that relations and messages are about
  Levels,       \* levels of trust
  Contents,     \* what build_context_package may return: sets of records
  Requests,     \* how a caller may want a package: its visibility, signing and consent
  Dirs,         \* output directories
  Mixes,        \* sets of commands, one of which is in use
  MaxPackages,  \* bound: packages created
  MaxNow,       \* bound: the clock
  MaxDamage,    \* bound: files altered or lost on their way
  MaxCrashes    \* bound: commands that die half-way

AllOps == {"node", "assert", "withdraw", "message", "consent", "create", "preview"}
ASSUME MixesAssumption == Mixes \subseteq SUBSET AllOps
ASSUME IdsAssumption ==
  Relations \cap Messages = {} /\ Relations \cap Nodes = {} /\ Messages \cap Nodes = {}
ASSUME BoundAssumption == {MaxPackages, MaxNow, MaxDamage, MaxCrashes} \subseteq Nat
ASSUME RequestsAssumption ==
  \A q \in Requests : /\ q.visibility \in {Visibilities[i] : i \in DOMAIN Visibilities}
                       /\ q.consent \subseteq Consents /\ q.signing.expires \in Nat

Files == Relations \cup Messages \cup Nodes

VARIABLES
  mix,        \* the commands in use
  file,       \* the JSON file of each relation, message and node
  audit,      \* audit.jsonl: what it announces
  dir,        \* the package directories
  proc,       \* the local state of each command
  now,        \* the clock
  made, damage, crashes,   \* counters of the bounds
  withdrawn,  \* history: relations whose withdrawal has ended
  mixed,      \* history: directories that two commands wrote at a time
  raced       \* history: files truncated while another command was writing them

vars == <<mix, file, audit, dir, proc, now, made, damage, crashes, withdrawn, mixed, raced>>
world == <<mix, now, made, damage, crashes>>
packages == <<dir, mixed>>
histories == <<withdrawn, raced>>

Absent == <<>>
Empty == <<[kind |-> "empty"]>>
Garbled == <<[kind |-> "garbled"]>>
Unreadable == {Empty, Garbled}
Whole(f) == file[f] # Absent /\ file[f] \notin Unreadable

PackageFiles == HashedFiles \cup {"manifest"}
Idle == [pc |-> "idle", op |-> "none", job |-> <<>>, got |-> <<>>]

----------------------------------------------------------------------------
(* Commands *)

Start(p, op, pc, job) ==
  /\ proc[p] = Idle /\ op \in mix
  /\ proc' = [proc EXCEPT ![p] = [pc |-> pc, op |-> op, job |-> job, got |-> <<>>]]

Go(p, pc) == proc' = [proc EXCEPT ![p].pc = pc]
End(p) == proc' = [proc EXCEPT ![p] = Idle]

Unused(f) == file[f] = Absent /\ \A q \in Procs : proc[q].op \in {"node", "assert", "message"} => proc[q].job.id # f

(* The job of a command that saves a file: its id and what the file will say *)
Job(id, content) == [id |-> id, content |-> content]

(* add_node_profile: a second one for the same node replaces the first *)
BeginNode(p) ==
  \E n \in Nodes : Start(p, "node", "truncate", Job(n, [kind |-> "node"]))
                   /\ UNCHANGED <<world, file, audit, packages, histories>>

BeginAssert(p) ==
  \E r \in Relations, target \in Targets, level \in Levels :
    /\ Unused(r)
    /\ Start(p, "assert", "truncate",
             Job(r, [kind |-> "relation", status |-> "active", target |-> target, level |-> level]))
    /\ UNCHANGED <<world, file, audit, packages, histories>>

(* Mutant: the level is lowered and the status kept *)
BeginWithdrawLevel(p) ==
  \E r \in Relations :
    /\ Whole(r)
    /\ Start(p, "withdraw", "truncate", Job(r, [file[r][1] EXCEPT !.level = "withdrawn"]))
    /\ UNCHANGED <<world, file, audit, packages, histories>>

(* withdraw_relation reads the relation first; neither a missing file nor    *)
(* one that does not parse is handled.                                       *)
BeginWithdraw(p) ==
  \E r \in Relations :
    /\ Whole(r)
    /\ Start(p, "withdraw", "truncate",
             Job(r, [file[r][1] EXCEPT !.status = "withdrawn", !.level = "withdrawn"]))
    /\ UNCHANGED <<world, file, audit, packages, histories>>

TheRelations == [r \in {s \in Relations : Whole(s)} |-> file[r][1]]

(* create_message reads every relation for the summary it puts in; one file  *)
(* that does not parse and there is no message.                              *)
BeginMessage(p) ==
  \E m \in Messages, box \in {"inbox", "outbox"}, type \in {"revoke_context", "decay_notice", "query"},
     target \in Targets :
    /\ Unused(m) /\ \A r \in Relations : file[r] \notin Unreadable
    /\ Start(p, "message", "truncate",
         Job(m, [kind |-> "message", box |-> box, type |-> type, audited |-> FALSE,
                 summary |-> Summary(TheRelations, target), known |-> withdrawn]))
    /\ UNCHANGED <<world, file, audit, packages, histories>>

(* record_consent is an audit record and nothing else *)
RecordConsent(p) ==
  /\ proc[p] = Idle /\ "consent" \in mix
  /\ audit' = audit \cup {<<"consent", "granted">>}
  /\ UNCHANGED <<world, file, packages, proc, histories>>

----------------------------------------------------------------------------
(* Saving a file, and the audit record that follows *)

Writing(f) == {p \in Procs : proc[p].pc = "write" /\ proc[p].job.id = f}

(* write_text opens the file, which empties it *)
Truncate(p) ==
  LET id == proc[p].job.id IN
  /\ proc[p].pc = "truncate"
  /\ file' = [file EXCEPT ![id] = Empty]
  /\ raced' = IF Writing(id) # {} THEN raced \cup {id} ELSE raced
  /\ Go(p, "write")
  /\ UNCHANGED <<world, audit, packages, withdrawn>>

Audited(op, content) ==
  \/ op \in {"assert", "withdraw"}
  \/ op = "message" /\ NeedsAudit(content.box, content.type) /\ ~content.audited

(* A text written from the start of a file that is not empty covers what is  *)
(* there, or leaves the end of it.                                           *)
Written(f, content) == {<<content>>} \cup (IF file[f] = Empty THEN {} ELSE {Garbled})

(* write_text writes what it was given, and closes the file *)
Write(p) ==
  LET job == proc[p].job IN
  /\ proc[p].pc = "write"
  /\ \E text \in Written(job.id, job.content) : file' = [file EXCEPT ![job.id] = text]
  /\ IF Audited(proc[p].op, job.content) THEN Go(p, "audit") ELSE End(p)
  /\ UNCHANGED <<world, audit, packages, histories>>

(* AuditService.record.  A received revocation is then flagged as audited    *)
(* and saved again.                                                          *)
RecordAudit(p) ==
  LET op == proc[p].op  job == proc[p].job IN
  /\ proc[p].pc = "audit"
  /\ audit' = audit \cup {<<op, job.id>>}
  /\ IF op = "message"
     THEN /\ proc' = [proc EXCEPT ![p].pc = "truncate", ![p].job.content.audited = TRUE]
          /\ UNCHANGED withdrawn
     ELSE /\ End(p)
          /\ withdrawn' = IF op = "withdraw" THEN withdrawn \cup {job.id} ELSE withdrawn
  /\ UNCHANGED <<world, file, packages, raced>>

----------------------------------------------------------------------------
(* Creating a package: records.jsonl, redaction-report.json, README.md, then *)
(* the manifest with the hashes of what is on the disk, then the audit.      *)

Creating(d) == {p \in Procs : proc[p].op = "create" /\ proc[p].job.dir = d}

(* The package holds a summary of the trust in its target, so that a relation*)
(* file that does not parse stops it too.                                    *)
BeginCreate(p) ==
  \E d \in Dirs, records \in Contents, q \in Requests :
    /\ made < MaxPackages /\ made' = made + 1
    /\ \A r \in Relations : file[r] \notin Unreadable
    /\ Start(p, "create", "records",
             [dir |-> d, pkg |-> made + 1, records |-> records, visibility |-> q.visibility,
              signing |-> q.signing, consent |-> q.consent])
    /\ mixed' = IF Creating(d) # {} THEN mixed \cup {d} ELSE mixed
    /\ UNCHANGED <<mix, now, damage, crashes, file, audit, dir, histories>>

Put(p, name, content) == dir' = [dir EXCEPT ![proc[p].job.dir][name] = <<content>>]

WriteRecords(p) ==
  /\ proc[p].pc = "records"
  /\ Put(p, "records", proc[p].job.records) /\ Go(p, "report")
  /\ UNCHANGED <<world, file, audit, mixed, histories>>

WriteReport(p) ==
  /\ proc[p].pc = "report"
  /\ Put(p, "report", Report(proc[p].job.visibility, proc[p].job.records)) /\ Go(p, "readme")
  /\ UNCHANGED <<world, file, audit, mixed, histories>>

WriteReadme(p) ==
  /\ proc[p].pc = "readme"
  /\ Put(p, "readme", proc[p].job.visibility) /\ Go(p, "sign")
  /\ UNCHANGED <<world, file, audit, mixed, histories>>

(* The manifest before its signature *)
Manifest(p) ==
  LET job == proc[p].job IN
  [pkg |-> job.pkg, refs |-> {r.id : r \in job.records}, visibility |-> job.visibility,
   consent |-> job.consent, signature |-> NoSignature,
   hashes |-> [f \in HashedFiles |-> dir[job.dir][f]]]

(* A key that is not known is found out here: the three files stay, and so   *)
(* does the manifest of the package that was in the directory before.  (A    *)
(* file lost in between ends the command the same way.)                      *)
Sign(p) ==
  LET job == proc[p].job
      unsigned == Manifest(p)
  IN
  /\ proc[p].pc = "sign"
  /\ IF \/ \E f \in HashedFiles : dir[job.dir][f] = Absent
        \/ job.signing.mode = "local_dev" /\ job.signing.key \notin Keys
     THEN End(p)
     ELSE proc' = [proc EXCEPT ![p].pc = "manifest",
            ![p].got = <<[unsigned EXCEPT !.signature = BuildSignature(unsigned, job.signing)]>>]
  /\ UNCHANGED <<world, file, audit, packages, histories>>

WriteManifest(p) ==
  /\ proc[p].pc = "manifest"
  /\ Put(p, "manifest", proc[p].got[1]) /\ Go(p, "announce")
  /\ UNCHANGED <<world, file, audit, mixed, histories>>

AnnouncePackage(p) ==
  /\ proc[p].pc = "announce"
  /\ audit' = audit \cup {<<"package", proc[p].job.pkg>>}
  /\ End(p)
  /\ UNCHANGED <<world, file, packages, histories>>

----------------------------------------------------------------------------
(* Opening a package *)

(* The inspection reads the manifest and the report; the verification reads  *)
(* the manifest again, and the files.  A file that is missing ends it.       *)
BeginPreview(p) ==
  \E d \in Dirs :
    /\ dir[d].manifest # Absent /\ dir[d].report # Absent
    /\ Start(p, "preview", "verify", [dir |-> d, manifest |-> dir[d].manifest[1], report |-> dir[d].report[1]])
    /\ UNCHANGED <<world, file, audit, packages, histories>>

(* What the second half of an import preview answers in the state it finds *)
Answer(p) ==
  LET job == proc[p].job  v == Verification(dir[job.dir], dir[job.dir].manifest[1], now)
  IN  [verification |-> v, preview |-> ImportPreview(job.manifest, job.report, v)]

VerifyAndAnswer(p) ==
  /\ proc[p].pc = "verify"
  /\ End(p)
  /\ UNCHANGED <<world, file, audit, packages, histories>>

----------------------------------------------------------------------------
(* The environment *)

(* A file of a package is altered or lost on its way.  The manifest's        *)
(* visibility and its consent are the two fields that tell the cases apart.  *)
Damage ==
  /\ damage < MaxDamage /\ damage' = damage + 1
  /\ \E d \in Dirs, f \in PackageFiles :
       /\ dir[d][f] # Absent /\ Creating(d) = {}
       /\ \/ dir' = [dir EXCEPT ![d][f] = Absent]
          \/ /\ f = "records"
             /\ \E records \in Contents : dir' = [dir EXCEPT ![d][f] = <<records>>]
          \/ /\ f = "manifest"
             /\ \E q \in Requests :
                  dir' = [dir EXCEPT ![d][f][1].visibility = q.visibility, ![d][f][1].consent = q.consent]
  /\ UNCHANGED <<mix, now, made, crashes, file, audit, proc, histories, mixed>>

Tick ==
  /\ "preview" \in mix /\ now < MaxNow /\ now' = now + 1
  /\ UNCHANGED <<mix, made, damage, crashes, file, audit, packages, proc, histories>>

Crash(p) ==
  /\ proc[p] # Idle /\ crashes < MaxCrashes /\ crashes' = crashes + 1
  /\ End(p)
  /\ UNCHANGED <<mix, now, made, damage, file, audit, packages, histories>>

Init ==
  /\ mix \in Mixes
  /\ file = [f \in Files |-> Absent] /\ audit = {}
  /\ dir = [d \in Dirs |-> [f \in PackageFiles |-> Absent]]
  /\ proc = [p \in Procs |-> Idle]
  /\ now = 1 /\ made = 0 /\ damage = 0 /\ crashes = 0
  /\ withdrawn = {} /\ mixed = {} /\ raced = {}

Command(p) ==
  \/ BeginNode(p) \/ BeginAssert(p) \/ BeginWithdraw(p) \/ BeginMessage(p) \/ RecordConsent(p)
  \/ Truncate(p) \/ Write(p) \/ RecordAudit(p)
  \/ BeginCreate(p) \/ WriteRecords(p) \/ WriteReport(p) \/ WriteReadme(p) \/ Sign(p)
  \/ WriteManifest(p) \/ AnnouncePackage(p)
  \/ BeginPreview(p) \/ VerifyAndAnswer(p)

Next == (\E p \in Procs : Command(p) \/ Crash(p)) \/ Damage \/ Tick

Spec == Init /\ [][Next]_vars

----------------------------------------------------------------------------
(* Properties *)

(* Once its withdrawal has ended, a relation is never read as active again,  *)
(* and no message begun after that counts it, whichever other withdrawals of *)
(* it, assertions and messages were on their way.                            *)
WithdrawnStays ==
  /\ \A r \in withdrawn : Whole(r) => file[r][1].status = "withdrawn"
  /\ \A m \in Messages : Whole(m) => file[m][1].summary.active \cap file[m][1].known = {}

Owner(f) == {p \in Procs : proc[p].op \in {"node", "assert", "withdraw", "message"} /\ proc[p].job.id = f}

(* A message that says its revocation was audited has the audit record, and  *)
(* one that does not is still being worked on or its command died.  Files    *)
(* that nobody is writing and nobody can read cost one crash each, but for   *)
(* those that were truncated while another command was writing them.         *)
RevocationsAudited ==
  /\ \A m \in Messages : Whole(m) /\ file[m][1].box = "inbox" /\ file[m][1].type # "query" =>
       /\ file[m][1].audited => <<"message", m>> \in audit
       /\ file[m][1].audited \/ Owner(m) # {} \/ crashes > 0
  /\ Cardinality({f \in Files \ raced : file[f] \in Unreadable /\ Owner(f) = {}}) <= crashes

Answering == {p \in Procs : proc[p].pc = "verify" /\ dir[proc[p].job.dir].manifest # Absent}

(* A package that is verified holds the records its manifest refers to,      *)
(* after crashes, an unknown key, a second package in the same directory and *)
(* files damaged on their way.  Only two commands that write one directory   *)
(* at the same time can put the hashes of one into the manifest of another.  *)
VerifiedRecordsMatch ==
  \A p \in Answering :
    LET there == dir[proc[p].job.dir] IN
    Answer(p).verification.valid /\ proc[p].job.dir \notin mixed =>
      there.records # Absent /\ there.manifest[1].refs = {r.id : r \in there.records[1]}

(* An import preview that passes is about a package that is signed, unaltered*)
(* but for its consent, not expired, and no more widely visible than any of  *)
(* its records may be -- if the report that was inspected is the one that is *)
(* verified.  While later packages are begun in the directory and never get  *)
(* their manifest, both can belong to different packages although the        *)
(* manifest is the same at both readings.                                    *)
PassedIsFit ==
  \A p \in Answering :
    LET there == dir[proc[p].job.dir]  manifest == there.manifest[1]  s == manifest.signature IN
    /\ Answer(p).preview.status = "pass"
    /\ proc[p].job.dir \notin mixed /\ proc[p].job.report = there.report[1]
    => /\ Answer(p).preview.candidate
       /\ s.status = "signed" /\ s.key \in Keys /\ (s.expires = 0 \/ s.expires >= now)
       /\ \A r \in there.records[1] : Rank(manifest.visibility) <= Rank(Recommended(r))

(* A receiver that looks at a package twice can rely on both answers.        *)
PackagesVerified == VerifiedRecordsMatch /\ PassedIsFit

=============================================================================
