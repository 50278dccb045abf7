-------------------------- MODULE FederationProofs --------------------------
(***************************************************************************)
(* What the federation services decide, for every package: however many    *)
(* records it has and whatever layers, hints, signatures and damage.  And  *)
(* what withdrawals and revocations come to, for any number of commands,   *)
(* files and crashes.                                                      *)
(***************************************************************************)
EXTENDS Federation, FiniteSetTheorems, WellFoundedInduction, TLAPS

Ranked == {Visibilities[i] : i \in DOMAIN Visibilities}

(* A rank is the place of a visibility, and no two share one *)
LEMMA Ranks ==
  /\ Rank("private") = 1 /\ Rank("trusted") = 2 /\ Rank("project") = 3 /\ Rank("organization") = 4
  /\ Rank("community") = 5 /\ Rank("federated") = 6 /\ Rank("public") = 7
  /\ Ranked = {"private", "trusted", "project", "organization", "community", "federated", "public"}
<1>1. /\ DOMAIN Visibilities = 1 .. 7
      /\ Visibilities[1] = "private" /\ Visibilities[2] = "trusted" /\ Visibilities[3] = "project"
      /\ Visibilities[4] = "organization" /\ Visibilities[5] = "community"
      /\ Visibilities[6] = "federated" /\ Visibilities[7] = "public"
  BY DEF Visibilities
<1>2. \A i \in 1 .. 7 : i = 1 \/ i = 2 \/ i = 3 \/ i = 4 \/ i = 5 \/ i = 6 \/ i = 7
  OBVIOUS
<1>. QED  BY <1>1, <1>2 DEF Rank, Ranked

(* Whatever a record says of itself, it has a recommended visibility *)
LEMMA RecommendedIsRanked ==
  ASSUME NEW record
  PROVE  Recommended(record) \in {"private", "trusted", "organization", "federated", "public"}
BY DEF Recommended, ByHint

(* The recommendation for all records is the narrowest of theirs *)
LEMMA NarrowestOfAll ==
  ASSUME NEW records, records # {}
  PROVE  /\ \E r \in records : RecommendedForAll(records) = Recommended(r)
         /\ \A r \in records : Rank(RecommendedForAll(records)) <= Rank(Recommended(r))
<1> DEFINE all == {Recommended(r) : r \in records}
<1>1. all \subseteq {"private", "trusted", "organization", "federated", "public"} /\ all # {}
  BY RecommendedIsRanked
<1>2. \E v \in all : \A w \in all : Rank(v) <= Rank(w)
  <2>1. CASE "private" \in all  BY <1>1, <2>1, Ranks
  <2>2. CASE "private" \notin all /\ "trusted" \in all  BY <1>1, <2>2, Ranks
  <2>3. CASE {"private", "trusted"} \cap all = {} /\ "organization" \in all  BY SMTT(60), <1>1, <2>3, Ranks
  <2>4. CASE {"private", "trusted", "organization"} \cap all = {} /\ "federated" \in all
    BY <1>1, <2>4, Ranks
  <2>5. CASE all = {"public"}  BY <2>5, Ranks
  <2>. QED  BY <1>1, <2>1, <2>2, <2>3, <2>4, <2>5
<1>3. RecommendedForAll(records) = CHOOSE v \in all : \A w \in all : Rank(v) <= Rank(w)
  BY DEF RecommendedForAll
<1>4. RecommendedForAll(records) \in all /\ \A w \in all : Rank(RecommendedForAll(records)) <= Rank(w)
  <2> HIDE DEF all
  <2>. QED  BY <1>2, <1>3
<1>. QED  BY <1>4

(* The preflight check and the report of the package created from the same     *)
(* contexts agree on whether it is too widely visible, although one compares   *)
(* with the narrowest record and the other with each; they may differ for a    *)
(* package without records only (federation_package_service.py:455).           *)
THEOREM PreflightAgrees ==
  ASSUME NEW visibility \in Ranked, NEW records, records # {}
  PROVE  BoundaryCheck(visibility, records).broader <=> Report(visibility, records).broader
<1>1. Rank(visibility) \in Int /\ \A r \in records : Rank(Recommended(r)) \in Int
  BY Ranks, RecommendedIsRanked
<1>2. Rank(RecommendedForAll(records)) \in Int  BY <1>1, NarrowestOfAll
<1>3. ASSUME Rank(visibility) > Rank(RecommendedForAll(records))
      PROVE  \E r \in records : Rank(visibility) > Rank(Recommended(r))
  BY <1>3, NarrowestOfAll
<1>4. ASSUME NEW r \in records, Rank(visibility) > Rank(Recommended(r))
      PROVE  Rank(visibility) > Rank(RecommendedForAll(records))
  <2>1. Rank(RecommendedForAll(records)) <= Rank(Recommended(r))  BY NarrowestOfAll
  <2>. QED  BY <1>1, <1>2, <1>4, <2>1
<1>. QED  BY <1>3, <1>4 DEF BoundaryCheck, Report, Broader

(* An import that may go ahead without a finding is of a package that is       *)
(* signed with a known key over this content, not expired, consented to, third *)
(* parties included, and no more widely visible than any of its records        *)
(* (federation_package_service _preview_findings); every file in it is the one *)
(* that was hashed.                                                            *)
THEOREM PassMeansFit ==
  ASSUME NEW files, NEW manifest, NEW today,
         NEW records, NEW visibility,
         ImportPreview(manifest, Report(visibility, records), Verification(files, manifest, today)).status = "pass"
  PROVE  LET s == manifest.signature IN
         /\ s.key \in Keys /\ s.value = Payload(manifest, s.status, s.key, s.expires)
         /\ ~(s.expires > 0 /\ s.expires < today)
         /\ Consents \subseteq manifest.consent /\ FilesMatch(files, manifest)
         /\ \A r \in records : ~(Rank(visibility) > Rank(Recommended(r)))
<1> DEFINE verification == Verification(files, manifest, today)
           report == Report(visibility, records)
           findings == PreviewFindings(manifest, report, verification)
<1>1. findings = {}
  BY DEF ImportPreview, PreviewStatus
<1>2. /\ verification.signature \notin {"unsigned", "mismatch", "expired", "revoked"}
      /\ verification.valid /\ Consents \subseteq manifest.consent /\ ~report.broader
  BY <1>1 DEF PreviewFindings, Consents
<1>3. verification.signature = VerifySignature(manifest, today)
      /\ verification.valid = (FilesMatch(files, manifest) /\ VerifySignature(manifest, today) \in {"unsigned", "signed"})
  BY DEF Verification
<1>4. VerifySignature(manifest, today) = "signed"  BY <1>2, <1>3
<1>5. /\ manifest.signature.key \in Keys
      /\ manifest.signature.value =
           Payload(manifest, manifest.signature.status, manifest.signature.key, manifest.signature.expires)
      /\ ~(manifest.signature.expires > 0 /\ manifest.signature.expires < today)
  BY <1>4 DEF VerifySignature
<1>6. \A r \in records : ~(Rank(visibility) > Rank(Recommended(r)))
  BY <1>2 DEF Report, Broader
<1>. QED  BY <1>2, <1>3, <1>5, <1>6
----------------------------------------------------------------------------
(* The invariant of the files *)

Relation(status, target, level) ==
  [kind |-> "relation", status |-> status, target |-> target, level |-> level]

MessageText(box, type, audited, summary, known) ==
  [kind |-> "message", box |-> box, type |-> type, audited |-> audited,
   summary |-> summary, known |-> known]

IsRelation(c) ==
  \E status \in {"active", "withdrawn"} : \E target, level : c = Relation(status, target, level)

(* A message whose summary counts no relation that was withdrawn when it began *)
IsMessage(c) ==
  \E type \in {"revoke_context", "decay_notice", "query"}, audited \in BOOLEAN :
  \E box, summary, known :
    /\ c = MessageText(box, type, audited, summary, known)
    /\ summary.active \cap known = {}

SavingOps == {"node", "assert", "withdraw", "message"}
SavingSteps == {"truncate", "write", "audit"}
Before == {"truncate", "write"}

At(pc, op, job, got) == [pc |-> pc, op |-> op, job |-> job, got |-> got]

Shape ==
  /\ proc = [p \in Procs |-> At(proc[p].pc, proc[p].op, proc[p].job, proc[p].got)]
  /\ file = [f \in Files |-> file[f]]
  /\ crashes \in Nat

(* Commands that save a file hold the text they will put there; a message    *)
(* that says it was audited was.                                             *)
Fits(j, announced) ==
  IF j.op \in SavingOps
  THEN /\ j.pc \in SavingSteps
       /\ j.job = Job(j.job.id, j.job.content)
       /\ j.op = "node" => j.job.id \in Nodes /\ j.job.content = [kind |-> "node"] /\ j.pc # "audit"
       /\ j.op \in {"assert", "withdraw"} => j.job.id \in Relations /\ IsRelation(j.job.content)
       /\ j.op = "withdraw" => j.job.content.status = "withdrawn"
       /\ j.op = "message" =>
            /\ j.job.id \in Messages /\ IsMessage(j.job.content)
            /\ j.job.content.audited => <<"message", j.job.id>> \in announced
  ELSE j.pc \notin SavingSteps

(* Who asserts a relation has it for itself until it is written; who         *)
(* withdraws one has seen it.                                                *)
Asserts(j) == j.op = "assert" /\ j.pc \in Before
Fresh(j) == Asserts(j) => file[j.job.id] \in {Absent, Empty} /\ j.job.id \notin withdrawn
Seen(j) == j.op = "withdraw" => file[j.job.id] # Absent
Apart(j, k) == Asserts(j) /\ k.op \in {"assert", "withdraw"} => j.job.id # k.job.id

Commands ==
  /\ \A p \in Procs : Fits(proc[p], audit) /\ Fresh(proc[p]) /\ Seen(proc[p])
  /\ \A p, q \in Procs : p # q => Apart(proc[p], proc[q])

(* Who has written a withdrawal and not ended yet can count on it *)
Settled ==
  \A p \in Procs :
    proc[p].op = "withdraw" /\ proc[p].pc = "audit" /\ Whole(proc[p].job.id) =>
      file[proc[p].job.id][1].status = "withdrawn"

RelationsKept ==
  /\ withdrawn \subseteq Relations
  /\ \A r \in Relations :
       /\ r \in withdrawn => file[r] # Absent
       /\ Whole(r) => IsRelation(file[r][1])
       /\ r \in withdrawn /\ Whole(r) => file[r][1].status = "withdrawn"

(* Where a message's revocation stands *)
Recorded(m, c) ==
  c.box = "inbox" /\ c.type # "query" =>
    /\ c.audited => <<"message", m>> \in audit
    /\ c.audited \/ Owner(m) # {} \/ crashes > 0

MessagesKept ==
  \A m \in Messages : Whole(m) => IsMessage(file[m][1]) /\ Recorded(m, file[m][1])

(* Who has a file for itself writes it from empty; files that two are writing *)
(* are known.                                                                *)
Alone ==
  /\ \A p \in Procs : proc[p].pc = "write" /\ proc[p].job.id \notin raced => file[proc[p].job.id] = Empty
  /\ \A p, q \in Procs :
       p # q /\ proc[p].pc = "write" /\ proc[q].pc = "write" /\ proc[p].job.id = proc[q].job.id =>
         proc[p].job.id \in raced

(* Files that were truncated by one command and that nobody will write *)
Saves(j, f) == j.op \in SavingOps /\ j.pc \in Before /\ j.job.id = f
Lost == {f \in Files \ raced : file[f] \in Unreadable /\ \A p \in Procs : ~Saves(proc[p], f)}
LossCounted == IsFiniteSet(Lost) /\ Cardinality(Lost) <= crashes

Inv == Shape /\ Commands /\ Settled /\ RelationsKept /\ MessagesKept /\ Alone /\ LossCounted

(* Nothing is written, withdrawn or under way at first *)
LEMMA Begins == Init => Inv
<1>. SUFFICES ASSUME Init PROVE Inv
  OBVIOUS
<1>1. /\ \A p \in Procs : proc[p].op = "none" /\ proc[p].pc = "idle"
      /\ \A f \in Files : file[f] = Absent
      /\ withdrawn = {}
  BY DEF Init, Idle
<1>2. Shape  BY DEF Init, Shape, Idle, At
<1>3. Commands
  BY <1>1 DEF Commands, Fits, Fresh, Seen, Apart, Asserts, SavingOps, SavingSteps
<1>4. RelationsKept /\ MessagesKept
  BY <1>1 DEF RelationsKept, MessagesKept, Whole, Files
<1>5. Lost = {}
  BY <1>1 DEF Lost, Absent, Empty, Garbled, Unreadable
<1>6. LossCounted
  BY <1>5, FS_EmptySet DEF LossCounted, Init
<1>7. Settled  BY <1>1 DEF Settled
<1>8. Alone  BY <1>1 DEF Alone
<1>. QED  BY <1>2, <1>3, <1>4, <1>6, <1>7, <1>8 DEF Inv

----------------------------------------------------------------------------
(* Steps that leave the files as they are *)

(* The loss can only shrink while no command that will write ends *)
LEMMA LossStays ==
  ASSUME Inv, UNCHANGED <<file, raced, crashes>>,
         \A p \in Procs, f \in Files : Saves(proc[p], f) => Saves(proc'[p], f)
  PROVE  LossCounted'
<1>1. Lost' \subseteq Lost
  BY DEF Lost
<1>2. IsFiniteSet(Lost') /\ Cardinality(Lost') <= Cardinality(Lost)
  BY <1>1, FS_Subset DEF Inv, LossCounted
<1>3. Cardinality(Lost') \in Nat /\ Cardinality(Lost) \in Nat
  BY <1>2, FS_CardinalityType DEF Inv, LossCounted
<1>. QED  BY <1>2, <1>3 DEF Inv, LossCounted, Shape

(* Nobody comes to write while the files stay *)
LEMMA AloneStays ==
  ASSUME Inv, UNCHANGED <<file, raced>>,
         \A p \in Procs : proc'[p].pc = "write" => proc[p].pc = "write" /\ proc'[p].job = proc[p].job
  PROVE  Alone'
BY DEF Inv, Alone

(* Commands that make or open packages, or do nothing *)
LEMMA Elsewhere ==
  ASSUME Inv, NEW p \in Procs, NEW pc, NEW op, NEW job, NEW got,
         UNCHANGED <<file, histories, crashes>>, audit \subseteq audit',
         proc' = [proc EXCEPT ![p] = At(pc, op, job, got)],
         proc[p].op \notin SavingOps, op \notin SavingOps, pc \notin SavingSteps
  PROVE  Inv'
<1>0. UNCHANGED <<withdrawn, raced>>  BY DEF histories
<1>1. \A q \in Procs : proc'[q] = IF q = p THEN At(pc, op, job, got) ELSE proc[q]
  BY DEF Inv, Shape
<1>2. Shape'  BY <1>1 DEF Inv, Shape, At
<1>3. Commands'
  <2>1. ASSUME NEW q \in Procs
        PROVE  (Fits(proc[q], audit) /\ Fresh(proc[q]) /\ Seen(proc[q]))'
    <3>1. CASE q = p
      BY <1>1, <3>1 DEF At, Fits, Fresh, Seen, Asserts, SavingOps
    <3>2. CASE q # p
      BY <1>0, <1>1, <3>2 DEF Inv, Commands, Fits, Fresh, Seen, Asserts, Absent, Empty, Garbled, Unreadable
    <3>. QED  BY <3>1, <3>2
  <2>2. ASSUME NEW q \in Procs, NEW u \in Procs, q # u
        PROVE  Apart(proc[q], proc[u])'
    BY <1>1, <2>2 DEF Inv, Commands, Apart, Asserts, At, SavingOps
  <2>. QED  BY <2>1, <2>2 DEF Commands
<1>4. \A m : Owner(m)' = Owner(m)
  BY <1>1 DEF Owner, At, SavingOps
<1>5. RelationsKept' /\ MessagesKept'
  BY <1>0, <1>4 DEF Inv, RelationsKept, MessagesKept, Recorded, Whole, Absent, Empty, Garbled, Unreadable
<1>6. LossCounted'
  <2>1. \A q \in Procs, f \in Files : Saves(proc[q], f) => Saves(proc'[q], f)
    BY <1>1 DEF Saves
  <2>. QED  BY <1>0, <2>1, LossStays
<1>7. Settled'
  BY SMTT(60), <1>1 DEF Inv, Settled, At, SavingOps, Whole, Absent, Empty, Garbled, Unreadable
<1>8. Alone'
  BY <1>0, <1>1, AloneStays DEF At, SavingSteps
<1>. QED  BY <1>2, <1>3, <1>5, <1>6, <1>7, <1>8 DEF Inv

(* Nobody does anything *)
LEMMA NobodyMoves ==
  ASSUME Inv, UNCHANGED <<file, proc, histories, crashes>>, audit \subseteq audit'
  PROVE  Inv'
<1>0. UNCHANGED <<withdrawn, raced>>  BY DEF histories
<1>1. Shape'  BY DEF Inv, Shape, At
<1>2. Commands'
  BY <1>0 DEF Inv, Commands, Fits, Fresh, Seen, Apart, Asserts, Absent, Empty, Garbled, Unreadable
<1>3. RelationsKept' /\ MessagesKept'
  BY <1>0 DEF Inv, RelationsKept, MessagesKept, Recorded, Owner, Whole, Absent, Empty, Garbled, Unreadable
<1>4. LossCounted'  BY <1>0, LossStays
<1>5. Settled'  BY DEF Inv, Settled, Whole, Absent, Empty, Garbled, Unreadable
<1>6. Alone'  BY <1>0, AloneStays
<1>. QED  BY <1>1, <1>2, <1>3, <1>4, <1>5, <1>6 DEF Inv
----------------------------------------------------------------------------
(* Commands that save a file *)

(* Commands that begin *)
LEMMA BeginKeeps ==
  ASSUME Inv, NEW p \in Procs, NEW op \in SavingOps, NEW id \in Files, NEW c,
         UNCHANGED <<file, audit, histories, crashes>>,
         Start(p, op, "truncate", Job(id, c)),
         Fits(At("truncate", op, Job(id, c), <<>>), audit),
         op = "assert" => Unused(id),
         op = "withdraw" => Whole(id)
  PROVE  Inv'
<1> DEFINE new == At("truncate", op, Job(id, c), <<>>)
<1>0. UNCHANGED <<withdrawn, raced>>  BY DEF histories
<1>1. proc[p].op = "none"  BY DEF Start, Idle
<1>2. \A q \in Procs : proc'[q] = IF q = p THEN new ELSE proc[q]
  BY DEF Inv, Shape, Start, At
<1>3. /\ new.pc = "truncate" /\ new.op = op /\ new.job.id = id
  BY DEF At, Job
<1> HIDE DEF new
<1>4. Shape'  BY <1>2 DEF Inv, Shape, Start, At
<1>5. op \in {"assert", "withdraw"} => id \in Relations
  BY DEF Fits, At, Job
<1>6. op = "assert" => id \notin withdrawn
  BY <1>5 DEF Unused, Inv, RelationsKept
<1>7. Commands'
  <2>1. ASSUME NEW q \in Procs
        PROVE  (Fits(proc[q], audit) /\ Fresh(proc[q]) /\ Seen(proc[q]))'
    <3>1. CASE q = p
      <4>1. Fits(proc'[q], audit')  BY <1>2, <3>1 DEF new
      <4>2. Fresh(proc[q])'  BY <1>0, <1>2, <1>3, <1>6, <3>1 DEF Fresh, Unused, Asserts, Absent, Empty, Garbled, Unreadable
      <4>3. Seen(proc[q])'  BY <1>2, <1>3, <3>1 DEF Seen, Whole, Absent
      <4>. QED  BY <4>1, <4>2, <4>3
    <3>2. CASE q # p
      BY <1>0, <1>2, <3>2 DEF Inv, Commands, Fresh, Seen, Asserts, Absent, Empty, Garbled, Unreadable
    <3>. QED  BY <3>1, <3>2
  <2>2. ASSUME NEW q \in Procs, q # p
        PROVE  Apart(new, proc[q]) /\ Apart(proc[q], new)
    <3>1. Fits(proc[q], audit) /\ Fresh(proc[q]) /\ Seen(proc[q])
      BY DEF Inv, Commands
    <3>2. Apart(new, proc[q])
      BY <1>3, <3>1 DEF Apart, Asserts, Unused, Seen
    <3>3. Apart(proc[q], new)
      <4>1. CASE op = "assert"
        BY <1>3, <4>1 DEF Apart, Asserts, Unused
      <4>2. CASE op = "withdraw"
        BY <1>3, <3>1, <4>2 DEF Apart, Asserts, Fresh, Whole, Unreadable
      <4>. QED  BY <1>3, <4>1, <4>2 DEF Apart
    <3>. QED  BY <3>2, <3>3
  <2>3. ASSUME NEW q \in Procs, NEW u \in Procs, q # u
        PROVE  Apart(proc'[q], proc'[u])
    <3>1. CASE q = p  BY <1>2, <2>2, <2>3, <3>1
    <3>2. CASE u = p  BY <1>2, <2>2, <2>3, <3>2
    <3>3. CASE q # p /\ u # p  BY <1>2, <2>3, <3>3 DEF Inv, Commands
    <3>. QED  BY <3>1, <3>2, <3>3
  <2>. QED  BY <2>1, <2>3 DEF Commands, Apart, Asserts
<1>8. \A m : Owner(m) \subseteq Owner(m)'
  BY <1>1, <1>2 DEF Owner
<1>9. RelationsKept' /\ MessagesKept'
  BY <1>0, <1>8 DEF Inv, RelationsKept, MessagesKept, Recorded, Whole, Absent, Empty, Garbled, Unreadable
<1>10. LossCounted'
  <2>1. \A q \in Procs, f \in Files : Saves(proc[q], f) => Saves(proc'[q], f)
    BY <1>1, <1>2 DEF Saves, SavingOps
  <2>. QED  BY <1>0, <2>1, LossStays
<1>11. Settled'
  BY <1>2, <1>3 DEF Inv, Settled, Whole, Absent, Empty, Garbled, Unreadable
<1>12. Alone'
  BY <1>0, <1>2, <1>3, AloneStays
<1>. QED  BY <1>4, <1>7, <1>9, <1>10, <1>11, <1>12 DEF Inv

(* A profile, an assertion or a withdrawal begins *)
LEMMA BeginFileKeeps ==
  ASSUME Inv, NEW p \in Procs,
         BeginNode(p) \/ BeginAssert(p) \/ BeginWithdraw(p)
  PROVE  Inv'
<1>0. UNCHANGED <<file, audit, histories, crashes>>
  BY DEF BeginNode, BeginAssert, BeginWithdraw, world
<1>1. CASE BeginNode(p)
  <2>1. PICK n \in Nodes : Start(p, "node", "truncate", Job(n, [kind |-> "node"]))
    BY <1>1 DEF BeginNode
  <2>2. Fits(At("truncate", "node", Job(n, [kind |-> "node"]), <<>>), audit)
    BY DEF Fits, At, Job, SavingOps, SavingSteps
  <2>. QED  BY <1>0, <2>1, <2>2, BeginKeeps DEF SavingOps, Files
<1>2. CASE BeginAssert(p)
  <2>1. PICK r \in Relations, target \in Targets, level \in Levels :
          Unused(r) /\ Start(p, "assert", "truncate", Job(r, Relation("active", target, level)))
    BY <1>2 DEF BeginAssert, Relation
  <2>2. Fits(At("truncate", "assert", Job(r, Relation("active", target, level)), <<>>), audit)
    BY DEF Fits, At, Job, SavingOps, SavingSteps, IsRelation
  <2>. QED  BY <1>0, <2>1, <2>2, BeginKeeps DEF SavingOps, Files
<1>3. CASE BeginWithdraw(p)
  <2> DEFINE c(r) == [file[r][1] EXCEPT !.status = "withdrawn", !.level = "withdrawn"]
  <2>1. PICK r \in Relations : Whole(r) /\ Start(p, "withdraw", "truncate", Job(r, c(r)))
    BY <1>3 DEF BeginWithdraw
  <2>2. PICK status, target, level : file[r][1] = Relation(status, target, level)
    BY <2>1 DEF Inv, RelationsKept, IsRelation
  <2>3. c(r) = Relation("withdrawn", target, "withdrawn")
    <3>1. [Relation(status, target, level) EXCEPT !.status = "withdrawn"] = Relation("withdrawn", target, level)
      BY DEF Relation
    <3>2. [Relation("withdrawn", target, level) EXCEPT !.level = "withdrawn"] = Relation("withdrawn", target, "withdrawn")
      BY DEF Relation
    <3>. QED  BY <2>2, <3>1, <3>2
  <2>4. IsRelation(c(r)) /\ c(r).status = "withdrawn"
    <3>1. c(r).status = "withdrawn"  BY <2>3 DEF Relation
    <3>. QED  BY <2>3, <3>1 DEF IsRelation
  <2> HIDE DEF c
  <2>5. Fits(At("truncate", "withdraw", Job(r, c(r)), <<>>), audit)
    BY <2>4 DEF Fits, At, Job, SavingOps, SavingSteps
  <2>. QED  BY <1>0, <2>1, <2>5, BeginKeeps DEF SavingOps, Files
<1>. QED  BY <1>1, <1>2, <1>3

(* A message counts no relation whose withdrawal has ended *)
LEMMA BeginMessageKeeps ==
  ASSUME Inv, NEW p \in Procs, BeginMessage(p)
  PROVE  Inv'
<1> DEFINE c(box, type, target) ==
             MessageText(box, type, FALSE, Summary(TheRelations, target), withdrawn)
<1>1. PICK m \in Messages, box \in {"inbox", "outbox"}, type \in {"revoke_context", "decay_notice", "query"},
         target \in Targets : Start(p, "message", "truncate", Job(m, c(box, type, target)))
  BY DEF BeginMessage, MessageText
<1>2. Summary(TheRelations, target).active \cap withdrawn = {}
  <2>1. \A r \in Summary(TheRelations, target).active :
          r \in Relations /\ Whole(r) /\ file[r][1].status = "active"
    BY DEF Summary, TheRelations
  <2>. QED  BY <2>1 DEF Inv, RelationsKept
<1>3. IsMessage(c(box, type, target))
  BY <1>2 DEF IsMessage
<1>4. c(box, type, target).audited = FALSE
  BY DEF MessageText
<1> HIDE DEF c
<1>5. Fits(At("truncate", "message", Job(m, c(box, type, target)), <<>>), audit)
  BY <1>3, <1>4 DEF Fits, At, Job, SavingOps, SavingSteps
<1>6. UNCHANGED <<file, audit, histories, crashes>>
  BY DEF BeginMessage, world
<1>. QED  BY <1>1, <1>5, <1>6, BeginKeeps DEF SavingOps, Files
(* Between truncating and writing a file nobody can read it *)
LEMMA TruncateKeeps ==
  ASSUME Inv, NEW p \in Procs, Truncate(p)
  PROVE  Inv'
<1> DEFINE id == proc[p].job.id
<1>1. /\ proc[p].pc = "truncate" /\ file' = [file EXCEPT ![id] = Empty]
      /\ proc' = [proc EXCEPT ![p].pc = "write"] /\ UNCHANGED <<audit, withdrawn, crashes>>
      /\ raced' = IF Writing(id) # {} THEN raced \cup {id} ELSE raced
  BY DEF Truncate, Go, world
<1>2. Fits(proc[p], audit) /\ proc[p].op \in SavingOps
  BY <1>1 DEF Inv, Commands, Fits, SavingSteps
<1>3. \A q \in Procs :
        /\ proc'[q].pc = IF q = p THEN "write" ELSE proc[q].pc
        /\ proc'[q].op = proc[q].op /\ proc'[q].job = proc[q].job
  BY <1>1 DEF Inv, Shape, At
<1>4. \A f \in Files : file'[f] = IF f = id THEN Empty ELSE file[f]
  BY <1>1 DEF Inv, Shape
<1>5. Shape'
  <2>1. file' = [f \in Files |-> file'[f]]  BY <1>1 DEF Inv, Shape
  <2>2. proc' = [q \in Procs |-> At(proc'[q].pc, proc'[q].op, proc'[q].job, proc'[q].got)]
    BY <1>1 DEF Inv, Shape, At
  <2>. QED  BY <1>1, <2>1, <2>2 DEF Inv, Shape
<1>6. Commands'
  <2>1. ASSUME NEW q \in Procs
        PROVE  (Fits(proc[q], audit) /\ Fresh(proc[q]) /\ Seen(proc[q]))'
    <3>1. Fits(proc[q], audit)'
      BY <1>1, <1>2, <1>3 DEF Inv, Commands, Fits, SavingSteps
    <3>2. Asserts(proc[q])' => Asserts(proc[q])
      BY <1>1, <1>3 DEF Asserts, Before
    <3>3. proc[q].op \in {"assert", "withdraw"} => proc[q].job.id \in Files
      BY DEF Inv, Commands, Fits, SavingOps, Files
    <3>4. Fresh(proc[q])'
      BY <1>1, <1>3, <1>4, <3>2, <3>3 DEF Inv, Commands, Fresh, Asserts, Absent, Empty, Garbled, Unreadable
    <3>5. Seen(proc[q])'
      BY <1>3, <1>4, <3>3 DEF Inv, Commands, Seen, Absent, Empty, Garbled, Unreadable
    <3>. QED  BY <3>1, <3>4, <3>5
  <2>2. ASSUME NEW q \in Procs, NEW u \in Procs, q # u
        PROVE  Apart(proc[q], proc[u])'
    BY <1>1, <1>3, <2>2 DEF Inv, Commands, Apart, Asserts, Before
  <2>. QED  BY <2>1, <2>2 DEF Commands
<1>7. \A m : Owner(m)' = Owner(m)
  BY <1>3 DEF Owner
<1>8. \A f \in Files : Whole(f)' => Whole(f) /\ file'[f] = file[f]
  BY <1>4 DEF Whole, Absent, Empty, Garbled, Unreadable
<1>9. RelationsKept'
  BY <1>1, <1>4, <1>8 DEF Inv, RelationsKept, Files, Absent, Empty, Garbled, Unreadable
<1>10. MessagesKept'
  BY <1>1, <1>7, <1>8 DEF Inv, MessagesKept, Recorded, Files
<1>11. LossCounted'
  <2>1. \A q \in Procs, f \in Files : Saves(proc[q], f) <=> Saves(proc'[q], f)
    BY <1>1, <1>3 DEF Saves, Before
  <2>2. Saves(proc[p], id)  BY <1>1, <1>2 DEF Saves, Before
  <2>3. Lost' \subseteq Lost
    BY <1>1, <1>4, <2>1, <2>2 DEF Lost
  <2>4. IsFiniteSet(Lost') /\ Cardinality(Lost') <= Cardinality(Lost)
    BY <2>3, FS_Subset DEF Inv, LossCounted
  <2>5. Cardinality(Lost') \in Nat /\ Cardinality(Lost) \in Nat
    BY <2>4, FS_CardinalityType DEF Inv, LossCounted
  <2>. QED  BY <1>1, <2>4, <2>5 DEF Inv, LossCounted, Shape
<1>12. Settled'
  <2>1. \A q \in Procs : proc[q].op = "withdraw" => proc[q].job.id \in Files
    BY DEF Inv, Commands, Fits, SavingOps, Files
  <2>. QED  BY <1>3, <1>8, <2>1 DEF Inv, Settled
<1>13. Alone'
  <2>1. \A q \in Procs : proc[q].pc = "write" => proc[q].job.id \in Files
    BY DEF Inv, Commands, Fits, SavingOps, SavingSteps, Files
  <2>2. id \in Files  BY <1>2 DEF Fits, SavingOps, Files
  <2>3. raced \subseteq raced' /\ (\A q \in Procs : proc[q].pc = "write" /\ proc[q].job.id = id => id \in raced')
    BY <1>1 DEF Writing
  <2>4. ASSUME NEW q \in Procs, proc'[q].pc = "write", proc'[q].job.id \notin raced'
        PROVE  file'[proc'[q].job.id] = Empty
    BY <1>3, <1>4, <2>1, <2>2, <2>3, <2>4 DEF Inv, Alone
  <2>5. ASSUME NEW q \in Procs, NEW u \in Procs, q # u, proc'[q].pc = "write", proc'[u].pc = "write",
               proc'[q].job.id = proc'[u].job.id
        PROVE  proc'[q].job.id \in raced'
    BY <1>3, <2>3, <2>5 DEF Inv, Alone
  <2>. QED  BY <2>4, <2>5 DEF Alone
<1>. QED  BY <1>5, <1>6, <1>9, <1>10, <1>11, <1>12, <1>13 DEF Inv

(* A command that writes goes to its audit, or ends *)
LEMMA WriteKeeps ==
  ASSUME Inv, NEW p \in Procs, Write(p)
  PROVE  Inv'
<1> DEFINE id == proc[p].job.id
           c == proc[p].job.content
           op == proc[p].op
<1>0. PICK text : text \in Written(id, c) /\ file' = [file EXCEPT ![id] = text]
  BY DEF Write
<1>1. /\ proc[p].pc = "write" /\ file' = [file EXCEPT ![id] = text]
      /\ UNCHANGED <<audit, withdrawn, raced, crashes>>
      /\ IF Audited(op, c) THEN proc' = [proc EXCEPT ![p].pc = "audit"] ELSE proc' = [proc EXCEPT ![p] = Idle]
  BY <1>0 DEF Write, Go, End, world, histories
<1>2. Fits(proc[p], audit) /\ op \in SavingOps
  BY <1>1 DEF Inv, Commands, Fits, SavingSteps
<1>3. \A q \in Procs \ {p} : proc'[q] = proc[q]
  BY <1>1 DEF Inv, Shape
<1>4. \/ /\ Audited(op, c) /\ proc'[p].pc = "audit" /\ proc'[p].op = op /\ proc'[p].job = proc[p].job
      \/ ~Audited(op, c) /\ proc'[p].pc = "idle" /\ proc'[p].op = "none"
  BY <1>1 DEF Inv, Shape, At, Idle
<1>5. \A f \in Files : file'[f] = IF f = id THEN text ELSE file[f]
  BY <1>1 DEF Inv, Shape
<1>6. id \in Files  BY <1>2 DEF Fits, SavingOps, Files
<1>13. text = <<c>> \/ (text = Garbled /\ id \in raced)
  BY <1>0, <1>1 DEF Written, Inv, Alone
<1>7. Shape'  BY <1>1 DEF Inv, Shape, At, Idle
<1>8. Commands'
  <2>1. ASSUME NEW q \in Procs
        PROVE  (Fits(proc[q], audit) /\ Fresh(proc[q]) /\ Seen(proc[q]))'
    <3>1. CASE q = p
      <4>1. op # "node" \/ ~Audited(op, c)  BY DEF Audited
      <4>2. Fits(proc[q], audit)'
        BY <1>1, <1>2, <1>4, <3>1, <4>1 DEF Fits, SavingOps, SavingSteps
      <4>3. Fresh(proc[q])'  BY <1>4, <3>1 DEF Fresh, Asserts, Before
      <4>4. file'[id] # Absent
        <5>1. <<c>> # <<>> /\ Garbled # <<>>  BY DEF Garbled
        <5>. QED  BY <1>5, <1>6, <1>13, <5>1 DEF Absent
      <4>5. Seen(proc[q])'  BY <1>4, <3>1, <4>4 DEF Seen
      <4>. QED  BY <4>2, <4>3, <4>5
    <3>2. CASE q # p
      <4>1. Fits(proc[q], audit)'  BY <1>1, <1>3, <3>2 DEF Inv, Commands
      <4>2. Asserts(proc[q]) => proc[q].job.id # id
        <5>1. Apart(proc[q], proc[p]) /\ Fits(proc[q], audit)
          BY <3>2 DEF Inv, Commands
        <5>. QED  BY <1>2, <5>1, IdsAssumption DEF Apart, Asserts, Fits, SavingOps
      <4>3. proc[q].op \in {"assert", "withdraw"} => proc[q].job.id \in Files
        BY DEF Inv, Commands, Fits, SavingOps, Files
      <4>4. Fresh(proc[q])'
        BY <1>1, <1>3, <1>5, <3>2, <4>2, <4>3 DEF Inv, Commands, Fresh, Asserts, Absent, Empty, Garbled, Unreadable
      <4>5. Seen(proc[q])'
        <5>1. text # Absent  BY <1>13 DEF Absent, Garbled
        <5>. QED  BY <1>3, <1>5, <3>2, <4>3, <5>1 DEF Inv, Commands, Seen
      <4>. QED  BY <4>1, <4>4, <4>5
    <3>. QED  BY <3>1, <3>2
  <2>2. ASSUME NEW q \in Procs, NEW u \in Procs, q # u
        PROVE  Apart(proc[q], proc[u])'
    <3>1. Apart(proc[q], proc[u])  BY <2>2 DEF Inv, Commands
    <3>2. Asserts(proc[q])' => Asserts(proc[q]) /\ proc'[q] = proc[q]
      BY <1>3, <1>4 DEF Asserts, Before
    <3>3. proc'[u].op \in {"assert", "withdraw"} => proc'[u].op = proc[u].op /\ proc'[u].job = proc[u].job
      BY <1>3, <1>4
    <3>. QED  BY <3>1, <3>2, <3>3 DEF Apart, Asserts
  <2>. QED  BY <2>1, <2>2 DEF Commands
<1>9. RelationsKept'
  <2>1. op \in {"assert", "withdraw"} \/ id \notin Relations
    BY <1>2, IdsAssumption DEF Fits, SavingOps
  <2>2. id \in Relations /\ id \in withdrawn => c.status = "withdrawn"
    <3>1. op = "assert" => id \notin withdrawn
      BY <1>1 DEF Inv, Commands, Fresh, Asserts, Before
    <3>. QED  BY <1>2, <2>1, <3>1 DEF Fits
  <2>3. id \in Relations => IsRelation(c)
    BY <1>2, <2>1 DEF Fits
  <2>4. text # Absent /\ (text \notin Unreadable => text[1] = c)
    BY <1>13 DEF Absent, Garbled, Unreadable
  <2>5. \A r \in Relations : Whole(r)' => Whole(r) \/ r = id
    BY <1>5 DEF Whole, Files
  <2>. QED  BY <1>1, <1>5, <1>6, <2>2, <2>3, <2>4, <2>5 DEF Inv, RelationsKept, Whole, Files, Absent, Empty, Garbled, Unreadable
<1>10. MessagesKept'
  <2>1. ASSUME NEW m \in Messages, m # id, Whole(m)'
        PROVE  IsMessage(file'[m][1]) /\ Recorded(m, file[m][1])'
    <3>1. Whole(m) /\ file'[m] = file[m]
      BY <1>5, <2>1 DEF Whole, Files, Absent, Empty, Garbled, Unreadable
    <3>2. \A q \in Owner(m) : q \in Owner(m)'
      BY <1>3, <1>4, <2>1 DEF Owner
    <3>. QED  BY <1>1, <3>1, <3>2 DEF Inv, MessagesKept, Recorded
  <2>2. ASSUME NEW m \in Messages, m = id, Whole(m)'
        PROVE  IsMessage(file'[m][1]) /\ Recorded(m, file[m][1])'
    <3>1. op = "message"  BY <1>2, <2>2, IdsAssumption DEF Fits, SavingOps
    <3>2. IsMessage(c) /\ (c.audited => <<"message", id>> \in audit)
      BY <1>2, <3>1 DEF Fits, SavingOps
    <3>3. file'[id][1] = c
      BY <1>5, <1>6, <1>13, <2>2 DEF Whole, Unreadable
    <3>4. c.box = "inbox" /\ c.type # "query" /\ ~c.audited => Audited(op, c)
      <4>1. c.type \in {"revoke_context", "decay_notice", "query"}
        BY <3>2 DEF IsMessage, MessageText
      <4>. QED  BY <3>1, <4>1 DEF Audited, NeedsAudit
    <3>5. Audited(op, c) => p \in Owner(m)'
      BY <1>4, <2>2, <3>1 DEF Owner
    <3>6. c.box = "inbox" /\ c.type # "query" =>
            /\ c.audited => <<"message", m>> \in audit'
            /\ c.audited \/ Owner(m)' # {} \/ crashes' > 0
      BY <1>1, <2>2, <3>2, <3>4, <3>5
    <3>7. IsMessage(file'[m][1])  BY <2>2, <3>2, <3>3
    <3>8. Recorded(m, file[m][1])'  BY <2>2, <3>3, <3>6 DEF Recorded
    <3>. QED  BY <3>7, <3>8
  <2>. QED  BY <2>1, <2>2 DEF MessagesKept
<1>11. LossCounted'
  <2>1. file'[id] \notin Unreadable \/ id \in raced'
    <3>1. c.kind \notin {"empty", "garbled"}
      <4>1. CASE op = "node"  BY <1>2, <4>1 DEF Fits
      <4>2. CASE op = "message"
        <5>1. IsMessage(c)  BY <1>2, <4>2 DEF Fits
        <5>. QED  BY <5>1 DEF IsMessage, MessageText
      <4>3. CASE op \in {"assert", "withdraw"}
        <5>1. IsRelation(c)  BY <1>2, <4>3 DEF Fits
        <5>. QED  BY <5>1 DEF IsRelation, Relation
      <4>. QED  BY <1>2, <4>1, <4>2, <4>3 DEF SavingOps
    <3>2. <<c>> \notin Unreadable
      BY <3>1 DEF Unreadable, Empty, Garbled
    <3>. QED  BY <1>1, <1>5, <1>6, <1>13, <3>2
  <2>2. \A q \in Procs, f \in Files \ {id} : Saves(proc[q], f) => Saves(proc'[q], f)
    BY <1>3, <1>4 DEF Saves
  <2>3. Lost' \subseteq Lost
    BY <1>1, <1>5, <2>1, <2>2 DEF Lost
  <2>4. IsFiniteSet(Lost') /\ Cardinality(Lost') <= Cardinality(Lost)
    BY <2>3, FS_Subset DEF Inv, LossCounted
  <2>5. Cardinality(Lost') \in Nat /\ Cardinality(Lost) \in Nat
    BY <2>4, FS_CardinalityType DEF Inv, LossCounted
  <2>. QED  BY <1>1, <2>4, <2>5 DEF Inv, LossCounted, Shape
<1>12. Settled'
  <2>1. ASSUME NEW q \in Procs, proc'[q].op = "withdraw", proc'[q].pc = "audit",
               file'[proc'[q].job.id] \notin {Absent, Empty, Garbled}
        PROVE  file'[proc'[q].job.id][1].status = "withdrawn"
    <3>1. /\ proc[q].op = "withdraw" /\ proc'[q].job = proc[q].job
          /\ q # p => proc[q].pc = "audit"
      BY <1>3, <1>4, <2>1
    <3>2. proc[q].job.id \in Relations
      BY <3>1 DEF Inv, Commands, Fits, SavingOps
    <3>3. CASE proc[q].job.id = id
      <4>1. op = "withdraw"
        <5>1. op # "assert"
          BY <1>1, <3>1, <3>3 DEF Inv, Commands, Apart, Asserts, Before
        <5>. QED  BY <1>2, <3>2, <3>3, <5>1, IdsAssumption DEF Fits, SavingOps
      <4>2. c.status = "withdrawn"  BY <1>2, <4>1 DEF Fits
      <4>3. text = <<c>>  BY <1>5, <1>6, <1>13, <2>1, <3>1, <3>3
      <4>. QED  BY <1>5, <1>6, <3>1, <3>3, <4>2, <4>3
    <3>4. CASE proc[q].job.id # id
      <4>1. q # p /\ file'[proc[q].job.id] = file[proc[q].job.id]
        BY <1>5, <3>2, <3>4 DEF Files
      <4>2. Whole(proc[q].job.id)
        BY <2>1, <3>1, <4>1 DEF Whole, Absent, Empty, Garbled, Unreadable
      <4>. QED  BY <3>1, <4>1, <4>2 DEF Inv, Settled
    <3>. QED  BY <3>3, <3>4
  <2>. QED  BY <2>1 DEF Settled, Whole, Absent, Empty, Garbled, Unreadable
<1>14. Alone'
  <2>1. proc'[p].pc # "write"  BY <1>4
  <2>2. ASSUME NEW q \in Procs, proc'[q].pc = "write", proc'[q].job.id \notin raced'
        PROVE  file'[proc'[q].job.id] = Empty
    <3>1. q # p /\ proc'[q] = proc[q] /\ proc[q].job.id \notin raced
      BY <1>1, <1>3, <2>1, <2>2
    <3>2. proc[q].job.id # id /\ file[proc[q].job.id] = Empty
      BY <1>1, <2>2, <3>1 DEF Inv, Alone
    <3>3. proc[q].job.id \in Files
      BY <2>2, <3>1 DEF Inv, Commands, Fits, SavingOps, SavingSteps, Files
    <3>. QED  BY <1>5, <3>1, <3>2, <3>3
  <2>3. ASSUME NEW q \in Procs, NEW u \in Procs, q # u, proc'[q].pc = "write", proc'[u].pc = "write",
               proc'[q].job.id = proc'[u].job.id
        PROVE  proc'[q].job.id \in raced'
    BY <1>1, <1>3, <2>1, <2>3 DEF Inv, Alone
  <2>. QED  BY <2>2, <2>3 DEF Alone
<1>. QED  BY <1>7, <1>8, <1>9, <1>10, <1>11, <1>12, <1>14 DEF Inv
(* The audit record: it ends the command, or sends a revocation back to be    *)
(* saved once more, with the mark that it was audited.                        *)
LEMMA RecordAuditKeeps ==
  ASSUME Inv, NEW p \in Procs, RecordAudit(p)
  PROVE  Inv'
<1> DEFINE id == proc[p].job.id
           c == proc[p].job.content
           op == proc[p].op
<1>1. /\ proc[p].pc = "audit" /\ audit' = audit \cup {<<op, id>>}
      /\ UNCHANGED <<file, raced, crashes>>
  BY DEF RecordAudit, world
<1>2. Fits(proc[p], audit) /\ op \in SavingOps /\ op # "node"
  BY <1>1 DEF Inv, Commands, Fits, SavingSteps
<1>3. CASE op = "message"
  <2>1. proc' = [proc EXCEPT ![p].pc = "truncate", ![p].job.content.audited = TRUE] /\ UNCHANGED withdrawn
    BY <1>3 DEF RecordAudit
  <2>15. UNCHANGED withdrawn  BY <2>1
  <2>2. PICK box, type, audited, summary, known :
          type \in {"revoke_context", "decay_notice", "query"} /\ c = MessageText(box, type, audited, summary, known) /\ summary.active \cap known = {}
    BY <1>2, <1>3 DEF Fits, SavingOps, IsMessage
  <2> DEFINE d == MessageText(box, type, TRUE, summary, known)
  <2>3. [c EXCEPT !.audited = TRUE] = d
    <3>1. ASSUME NEW x
          PROVE  [MessageText(box, type, audited, summary, known) EXCEPT !.audited = x]
                   = MessageText(box, type, x, summary, known)
      BY DEF MessageText
    <3>. QED  BY <2>2, <3>1
  <2>4. IsMessage(d) /\ d.audited = TRUE
    <3>1. d.audited = TRUE  BY DEF MessageText
    <3>. QED  BY <2>2, <3>1 DEF IsMessage
  <2>5. proc[p].job = Job(id, c)  BY <1>2, <1>3 DEF Fits, SavingOps
  <2>6. proc'[p] = At("truncate", op, Job(id, d), proc[p].got)
    <3>1. proc[p] = At("audit", op, Job(id, c), proc[p].got)
      BY <1>1, <2>5 DEF Inv, Shape
    <3>2. proc'[p] = [proc[p] EXCEPT !.pc = "truncate", !.job.content.audited = TRUE]
      BY <2>1 DEF Inv, Shape
    <3>3. [Job(id, c) EXCEPT !.content = [c EXCEPT !.audited = TRUE]] = Job(id, d)
      <4>1. ASSUME NEW x, NEW y  PROVE [Job(id, x) EXCEPT !.content = y] = Job(id, y)
        BY DEF Job
      <4>. QED  BY <2>3, <4>1
    <3>4. /\ proc[p].job.content = c /\ proc[p].job = Job(id, c)
          /\ proc'[p] = [At("audit", op, Job(id, c), proc[p].got)
                          EXCEPT !.pc = "truncate", !.job = [Job(id, c) EXCEPT !.content = [c EXCEPT !.audited = TRUE]]]
      BY <2>5, <3>1, <3>2
    <3>. QED  BY <3>3, <3>4 DEF At
  <2> HIDE DEF d
  <2>7. \A q \in Procs \ {p} : proc'[q] = proc[q]
    BY <2>1 DEF Inv, Shape
  <2>8. /\ proc'[p].pc = "truncate" /\ proc'[p].op = "message"
        /\ proc'[p].job = Job(id, d) /\ proc'[p].job.id = id /\ proc'[p].job.content = d
    BY <1>3, <2>6 DEF At, Job
  <2>9. Shape'
    <3>1. proc' = [q \in Procs |-> proc'[q]]  BY <2>1 DEF Inv, Shape
    <3>2. \A q \in Procs : proc'[q] = At(proc'[q].pc, proc'[q].op, proc'[q].job, proc'[q].got)
      BY <2>6, <2>7 DEF Inv, Shape, At
    <3>. QED  BY <1>1, <3>1, <3>2 DEF Inv, Shape
  <2>10. Commands'
    <3>1. ASSUME NEW q \in Procs
          PROVE  (Fits(proc[q], audit) /\ Fresh(proc[q]) /\ Seen(proc[q]))'
      <4>1. CASE q = p
        <5>1. id \in Messages  BY <1>2, <1>3 DEF Fits, SavingOps
        <5>2. <<"message", id>> \in audit'  BY <1>1, <1>3
        <5>3. Fits(proc'[p], audit')
          BY <2>4, <2>8, <5>1, <5>2 DEF Fits, SavingOps, SavingSteps
        <5>. QED  BY <2>8, <4>1, <5>3 DEF Fresh, Seen, Asserts
      <4>2. CASE q # p
        <5>1. Fits(proc[q], audit)'
          BY <1>1, <2>7, <4>2 DEF Inv, Commands, Fits
        <5>2. proc'[q] = proc[q] /\ Fresh(proc[q]) /\ Seen(proc[q])
          BY <2>7, <4>2 DEF Inv, Commands
        <5>3. Fresh(proc[q])' /\ Seen(proc[q])'
          BY <1>1, <2>15, <5>2 DEF Fresh, Seen, Asserts, Absent, Empty, Garbled, Unreadable
        <5>. QED  BY <5>1, <5>3
      <4>. QED  BY <4>1, <4>2
    <3>2. ASSUME NEW q \in Procs, NEW u \in Procs, q # u
          PROVE  Apart(proc[q], proc[u])'
      BY <2>7, <2>8, <3>2 DEF Inv, Commands, Apart, Asserts
    <3>. QED  BY <3>1, <3>2 DEF Commands
  <2>11. \A m : Owner(m)' = Owner(m)
    BY <1>3, <2>7, <2>8 DEF Owner
  <2>12. RelationsKept' /\ MessagesKept'
    BY <1>1, <2>1, <2>11 DEF Inv, RelationsKept, MessagesKept, Recorded, Whole, Absent, Empty, Garbled, Unreadable
  <2>13. LossCounted'
    <3>1. \A q \in Procs, f \in Files : Saves(proc[q], f) => Saves(proc'[q], f)
      BY <1>1, <2>7 DEF Saves, Before
    <3>. QED  BY <1>1, <3>1, LossStays
  <2>14. Settled'
    BY <1>1, <2>7, <2>8 DEF Inv, Settled, Whole, Absent, Empty, Garbled, Unreadable
  <2>16. Alone'
    <3>1. \A q \in Procs : proc'[q].pc = "write" => proc'[q] = proc[q]
      BY <2>7, <2>8
    <3>. QED  BY <1>1, <3>1, AloneStays
  <2>. QED  BY <2>9, <2>10, <2>12, <2>13, <2>14, <2>16 DEF Inv
<1>4. CASE op # "message"
  <2>1. /\ proc' = [proc EXCEPT ![p] = Idle]
        /\ withdrawn' = IF op = "withdraw" THEN withdrawn \cup {id} ELSE withdrawn
    BY <1>4 DEF RecordAudit, End
  <2>2. op \in {"assert", "withdraw"} /\ id \in Relations /\ IsRelation(c)
    BY <1>2, <1>4 DEF Fits, SavingOps
  <2>3. \A q \in Procs : proc'[q] = IF q = p THEN Idle ELSE proc[q]
    BY <2>1 DEF Inv, Shape
  <2>4. Shape'  BY <1>1, <2>1 DEF Inv, Shape, At, Idle
  <2>5. Commands'
    <3>1. ASSUME NEW q \in Procs
          PROVE  (Fits(proc[q], audit) /\ Fresh(proc[q]) /\ Seen(proc[q]))'
      <4>1. CASE q = p
        BY <2>3, <4>1 DEF Idle, Fits, Fresh, Seen, Asserts, SavingOps, SavingSteps
      <4>2. CASE q # p
        <5>1. Fits(proc[q], audit)'
          BY <1>1, <2>3, <4>2 DEF Inv, Commands, Fits
        <5>2. Asserts(proc[q]) => proc[q].job.id # id
          BY <2>2, <4>2 DEF Inv, Commands, Apart
        <5>3. Fresh(proc[q])' /\ Seen(proc[q])'
          BY <1>1, <2>1, <2>3, <4>2, <5>2 DEF Inv, Commands, Fresh, Seen, Asserts, Absent, Empty, Garbled, Unreadable
        <5>. QED  BY <5>1, <5>3
      <4>. QED  BY <4>1, <4>2
    <3>2. ASSUME NEW q \in Procs, NEW u \in Procs, q # u
          PROVE  Apart(proc[q], proc[u])'
      BY <2>3, <3>2 DEF Inv, Commands, Apart, Asserts, Idle
    <3>. QED  BY <3>1, <3>2 DEF Commands
  <2>6. RelationsKept'
    <3>1. op = "withdraw" => file[id] # Absent /\ (Whole(id) => file[id][1].status = "withdrawn")
      BY <1>1 DEF Inv, Commands, Seen, Settled
    <3>. QED  BY <1>1, <2>1, <2>2, <3>1 DEF Inv, RelationsKept, Whole, Absent, Empty, Garbled, Unreadable
  <2>7. MessagesKept'
    <3>1. \A m \in Messages : Owner(m)' = Owner(m)
      BY <2>2, <2>3, IdsAssumption DEF Owner, Idle
    <3>. QED  BY <1>1, <3>1 DEF Inv, MessagesKept, Recorded, Whole, Absent, Empty, Garbled, Unreadable
  <2>8. LossCounted'
    <3>1. \A q \in Procs, f \in Files : Saves(proc[q], f) => Saves(proc'[q], f)
      BY <1>1, <2>3 DEF Saves, Before
    <3>. QED  BY <1>1, <3>1, LossStays
  <2>9. Settled'
    <3>1. \A q \in Procs : proc'[q].op = "withdraw" => proc'[q] = proc[q]
      BY <2>3 DEF Idle
    <3>. QED  BY <1>1, <3>1 DEF Inv, Settled, Whole, Absent, Empty, Garbled, Unreadable
  <2>10. Alone'
    <3>1. \A q \in Procs : proc'[q].pc = "write" => proc'[q] = proc[q]
      BY <2>3 DEF Idle
    <3>. QED  BY <1>1, <3>1, AloneStays
  <2>. QED  BY <2>4, <2>5, <2>6, <2>7, <2>8, <2>9, <2>10 DEF Inv
<1>. QED  BY <1>3, <1>4
(* A crash can leave the one file its command was writing *)
LEMMA CrashKeeps ==
  ASSUME Inv, NEW p \in Procs, Crash(p)
  PROVE  Inv'
<1>1. /\ proc' = [proc EXCEPT ![p] = Idle] /\ crashes' = crashes + 1
      /\ UNCHANGED <<file, audit, withdrawn, raced>>
  BY DEF Crash, End, histories
<1>2. \A q \in Procs : proc'[q] = IF q = p THEN Idle ELSE proc[q]
  BY <1>1 DEF Inv, Shape
<1>3. Shape'  BY <1>1 DEF Inv, Shape, At, Idle
<1>4. Idle.op = "none" /\ Idle.pc = "idle"  BY DEF Idle
<1>5. Commands'
  <2>1. ASSUME NEW q \in Procs
        PROVE  (Fits(proc[q], audit) /\ Fresh(proc[q]) /\ Seen(proc[q]))'
    <3>1. CASE q = p
      BY <1>2, <1>4, <3>1 DEF Fits, Fresh, Seen, Asserts, SavingOps, SavingSteps
    <3>2. CASE q # p
      <4>1. proc'[q] = proc[q] /\ Fits(proc[q], audit) /\ Fresh(proc[q]) /\ Seen(proc[q])
        BY <1>2, <3>2 DEF Inv, Commands
      <4>. QED  BY <1>1, <4>1 DEF Fresh, Seen, Asserts, Absent, Empty, Garbled, Unreadable
    <3>. QED  BY <3>1, <3>2
  <2>2. ASSUME NEW q \in Procs, NEW u \in Procs, q # u
        PROVE  Apart(proc[q], proc[u])'
    BY <1>2, <1>4, <2>2 DEF Inv, Commands, Apart, Asserts
  <2>. QED  BY <2>1, <2>2 DEF Commands
<1>6. Settled'
  <2>1. \A q \in Procs : proc'[q].op = "withdraw" => proc'[q] = proc[q]
    BY <1>2, <1>4
  <2>. QED  BY <1>1, <2>1 DEF Inv, Settled, Whole, Absent, Empty, Garbled, Unreadable
<1>7. RelationsKept'
  BY <1>1 DEF Inv, RelationsKept, Whole, Absent, Empty, Garbled, Unreadable
<1>8. MessagesKept'
  <2>1. crashes' > 0  BY <1>1 DEF Inv, Shape
  <2>. QED  BY <1>1, <2>1 DEF Inv, MessagesKept, Recorded, Whole, Absent, Empty, Garbled, Unreadable
<1>9. LossCounted'
  <2> DEFINE id == proc[p].job.id
  <2>1. \A q \in Procs, f \in Files : Saves(proc[q], f) /\ f # id => Saves(proc'[q], f)
    BY <1>2 DEF Saves
  <2>2. Lost' \subseteq Lost \cup {id}
    BY <1>1, <2>1 DEF Lost
  <2>3. /\ IsFiniteSet(Lost \cup {id})
        /\ Cardinality(Lost \cup {id}) <= Cardinality(Lost) + 1
    <3>1. /\ IsFiniteSet(Lost \cup {id})
          /\ Cardinality(Lost \cup {id}) = IF id \in Lost THEN Cardinality(Lost) ELSE Cardinality(Lost) + 1
      BY FS_AddElement DEF Inv, LossCounted
    <3>2. Cardinality(Lost) \in Nat  BY FS_CardinalityType DEF Inv, LossCounted
    <3>. QED  BY <3>1, <3>2
  <2>4. IsFiniteSet(Lost') /\ Cardinality(Lost') <= Cardinality(Lost \cup {id})
    BY <2>2, <2>3, FS_Subset
  <2>5. /\ Cardinality(Lost') \in Nat /\ Cardinality(Lost) \in Nat
        /\ Cardinality(Lost \cup {id}) \in Nat
    BY <2>3, <2>4, FS_CardinalityType DEF Inv, LossCounted
  <2>. QED  BY <1>1, <2>3, <2>4, <2>5 DEF Inv, LossCounted, Shape
<1>10. Alone'
  <2>1. \A q \in Procs : proc'[q].pc = "write" => proc'[q] = proc[q]
    BY <1>2, <1>4
  <2>. QED  BY <1>1, <2>1, AloneStays
<1>. QED  BY <1>3, <1>5, <1>6, <1>7, <1>8, <1>9, <1>10 DEF Inv

----------------------------------------------------------------------------
(* Commands about packages *)

(* A command that goes on with its package *)
LEMMA GoesOn ==
  ASSUME Inv, NEW p \in Procs, NEW pc, pc \notin SavingSteps,
         proc' = [proc EXCEPT ![p].pc = pc],
         proc[p].pc \notin SavingSteps,
         UNCHANGED <<file, histories, crashes>>, audit \subseteq audit'
  PROVE  Inv'
<1>1. proc[p].op \notin SavingOps
  BY DEF Inv, Commands, Fits
<1>2. [proc[p] EXCEPT !.pc = pc] = At(pc, proc[p].op, proc[p].job, proc[p].got)
  <2>1. proc[p] = At(proc[p].pc, proc[p].op, proc[p].job, proc[p].got)  BY DEF Inv, Shape
  <2>2. ASSUME NEW x, NEW op, NEW job, NEW got
        PROVE  [At(x, op, job, got) EXCEPT !.pc = pc] = At(pc, op, job, got)
    BY DEF At
  <2>. QED  BY <2>1, <2>2
<1>3. proc' = [proc EXCEPT ![p] = At(pc, proc[p].op, proc[p].job, proc[p].got)]
  BY <1>2
<1>. QED  BY <1>1, <1>3, Elsewhere

(* A command that makes or opens a package ends *)
LEMMA Ends ==
  ASSUME Inv, NEW p \in Procs, End(p), proc[p].pc \notin SavingSteps,
         UNCHANGED <<file, histories, crashes>>, audit \subseteq audit'
  PROVE  Inv'
<1>1. proc[p].op \notin SavingOps
  BY DEF Inv, Commands, Fits
<1>2. proc' = [proc EXCEPT ![p] = At("idle", "none", <<>>, <<>>)]
  BY DEF End, Idle, At
<1>3. "none" \notin SavingOps /\ "idle" \notin SavingSteps
  BY DEF SavingOps, SavingSteps
<1>. QED  BY <1>1, <1>2, <1>3, Elsewhere

(* A command that makes or opens a package begins *)
LEMMA BeginsPackage ==
  ASSUME Inv, NEW p \in Procs, NEW op \in {"create", "preview"}, NEW pc \in {"records", "verify"}, NEW job,
         Start(p, op, pc, job), UNCHANGED <<file, histories, crashes, audit>>
  PROVE  Inv'
<1>1. proc[p].op = "none" /\ proc' = [proc EXCEPT ![p] = At(pc, op, job, <<>>)]
  BY DEF Start, Idle, At
<1>2. proc[p].op \notin SavingOps /\ op \notin SavingOps /\ pc \notin SavingSteps
  BY <1>1 DEF SavingOps, SavingSteps
<1>. QED  BY <1>1, <1>2, Elsewhere

(* No step on a package touches relations, messages or profiles *)
LEMMA PackageKeeps ==
  ASSUME Inv, NEW p \in Procs,
         \/ BeginCreate(p) \/ WriteRecords(p) \/ WriteReport(p) \/ WriteReadme(p) \/ Sign(p)
         \/ WriteManifest(p) \/ AnnouncePackage(p) \/ BeginPreview(p) \/ VerifyAndAnswer(p)
  PROVE  Inv'
<1>1. /\ UNCHANGED <<file, histories, crashes>> /\ audit \subseteq audit'
  BY DEF BeginCreate, WriteRecords, WriteReport, WriteReadme, Sign, WriteManifest,
         AnnouncePackage, BeginPreview, VerifyAndAnswer, world
<1>2. CASE BeginCreate(p)
  <2>1. /\ UNCHANGED audit
        /\ \E job : Start(p, "create", "records", job)
    BY <1>2 DEF BeginCreate
  <2>. QED  BY <1>1, <2>1, BeginsPackage
<1>3. CASE BeginPreview(p)
  <2>1. /\ UNCHANGED audit
        /\ \E job : Start(p, "preview", "verify", job)
    BY <1>3 DEF BeginPreview
  <2>. QED  BY <1>1, <2>1, BeginsPackage
<1>4. CASE WriteRecords(p)
  <2>1. proc' = [proc EXCEPT ![p].pc = "report"]  BY <1>4 DEF WriteRecords, Go
  <2>2. proc[p].pc \notin SavingSteps /\ "report" \notin SavingSteps  BY <1>4 DEF WriteRecords, SavingSteps
  <2>. QED  BY <1>1, <2>1, <2>2, GoesOn
<1>5. CASE WriteReport(p)
  <2>1. proc' = [proc EXCEPT ![p].pc = "readme"]  BY <1>5 DEF WriteReport, Go
  <2>2. proc[p].pc \notin SavingSteps /\ "readme" \notin SavingSteps  BY <1>5 DEF WriteReport, SavingSteps
  <2>. QED  BY <1>1, <2>1, <2>2, GoesOn
<1>6. CASE WriteReadme(p)
  <2>1. proc' = [proc EXCEPT ![p].pc = "sign"]  BY <1>6 DEF WriteReadme, Go
  <2>2. proc[p].pc \notin SavingSteps /\ "sign" \notin SavingSteps  BY <1>6 DEF WriteReadme, SavingSteps
  <2>. QED  BY <1>1, <2>1, <2>2, GoesOn
<1>7. CASE WriteManifest(p)
  <2>1. proc' = [proc EXCEPT ![p].pc = "announce"]  BY <1>7 DEF WriteManifest, Go
  <2>2. proc[p].pc \notin SavingSteps /\ "announce" \notin SavingSteps  BY <1>7 DEF WriteManifest, SavingSteps
  <2>. QED  BY <1>1, <2>1, <2>2, GoesOn
<1>8. CASE AnnouncePackage(p)
  BY <1>1, <1>8, Ends DEF AnnouncePackage, SavingSteps
<1>9. CASE VerifyAndAnswer(p)
  BY <1>1, <1>9, Ends DEF VerifyAndAnswer, SavingSteps
<1>10. CASE Sign(p)
  <2>1. proc[p].pc = "sign" /\ proc[p].pc \notin SavingSteps  BY <1>10 DEF Sign, SavingSteps
  <2>2. CASE End(p)  BY <1>1, <2>1, <2>2, Ends
  <2>3. CASE ~End(p)
    <3>1. PICK got : proc' = [proc EXCEPT ![p].pc = "manifest", ![p].got = got]
      BY <1>10, <2>3 DEF Sign
    <3>2. [proc[p] EXCEPT !.pc = "manifest", !.got = got] = At("manifest", proc[p].op, proc[p].job, got)
      <4>1. proc[p] = At(proc[p].pc, proc[p].op, proc[p].job, proc[p].got)  BY DEF Inv, Shape
      <4>2. ASSUME NEW x, NEW op, NEW job, NEW y
            PROVE  /\ [At(x, op, job, y) EXCEPT !.pc = "manifest"] = At("manifest", op, job, y)
                   /\ [At("manifest", op, job, y) EXCEPT !.got = got] = At("manifest", op, job, got)
        BY DEF At
      <4>3. [proc[p] EXCEPT !.pc = "manifest"] = At("manifest", proc[p].op, proc[p].job, proc[p].got)
        BY <4>1, <4>2
      <4>4. [At("manifest", proc[p].op, proc[p].job, proc[p].got) EXCEPT !.got = got]
              = At("manifest", proc[p].op, proc[p].job, got)
        BY <4>2
      <4>. QED  BY <4>3, <4>4
    <3>3. proc' = [proc EXCEPT ![p] = At("manifest", proc[p].op, proc[p].job, got)]
      BY <3>1, <3>2
    <3>4. proc[p].op \notin SavingOps /\ "manifest" \notin SavingSteps
      BY <2>1 DEF Inv, Commands, Fits, SavingSteps
    <3>. QED  BY <1>1, <3>3, <3>4, Elsewhere
  <2>. QED  BY <2>2, <2>3
<1>. QED  BY <1>2, <1>3, <1>4, <1>5, <1>6, <1>7, <1>8, <1>9, <1>10

(* Every step keeps the invariant of the files *)
LEMMA Keeps == Inv /\ [Next]_vars => Inv'
<1> SUFFICES ASSUME Inv, [Next]_vars PROVE Inv'
  OBVIOUS
<1>1. CASE UNCHANGED vars
  BY <1>1, NobodyMoves DEF vars, histories
<1>2. CASE Damage \/ Tick
  BY <1>2, NobodyMoves DEF Damage, Tick, packages
<1>3. ASSUME NEW p \in Procs, Command(p)
      PROVE  Inv'
  <2>1. CASE RecordConsent(p)
    BY <2>1, NobodyMoves DEF RecordConsent, world
  <2>. QED
    BY <1>3, <2>1, BeginFileKeeps, BeginMessageKeeps, TruncateKeeps, WriteKeeps, RecordAuditKeeps,
       PackageKeeps DEF Command
<1>4. ASSUME NEW p \in Procs, Crash(p)
      PROVE  Inv'
  BY <1>4, CrashKeeps
<1>. QED  BY <1>1, <1>2, <1>3, <1>4 DEF Next

(* The invariant of the files holds in every state *)
LEMMA Always == Spec => []Inv
BY Begins, Keeps, PTL DEF Spec

(* TrustService.withdraw_relation: a relation whose withdrawal has ended is    *)
(* never read as active again, and no message begun after that counts it,      *)
(* however many withdrawals, assertions, messages and crashes there are.       *)
THEOREM WithdrawalsStay == Spec => []WithdrawnStays
<1>1. Inv => WithdrawnStays
  <2> SUFFICES ASSUME Inv PROVE WithdrawnStays
    OBVIOUS
  <2>1. \A r \in withdrawn : Whole(r) => file[r][1].status = "withdrawn"
    BY DEF Inv, RelationsKept
  <2>2. ASSUME NEW m \in Messages, Whole(m)
        PROVE  file[m][1].summary.active \cap file[m][1].known = {}
    <3>1. IsMessage(file[m][1])  BY <2>2 DEF Inv, MessagesKept
    <3>. QED  BY <3>1 DEF IsMessage, MessageText
  <2>. QED  BY <2>1, <2>2 DEF WithdrawnStays
<1>. QED  BY <1>1, Always, PTL

(* FederationMessageService.create_message: what a message says of the audit   *)
(* of its revocation is so, what it does not say yet is under way or was cut   *)
(* short, and files that nobody can read cost one crash each, but for those    *)
(* that two commands were writing at a time.                                   *)
THEOREM RevocationsAreAudited == Spec => []RevocationsAudited
<1>1. Inv => RevocationsAudited
  <2> SUFFICES ASSUME Inv PROVE RevocationsAudited
    OBVIOUS
  <2> DEFINE unread == {f \in Files \ raced : file[f] \in Unreadable /\ Owner(f) = {}}
  <2>1. unread \subseteq Lost
    BY DEF Lost, Saves, SavingOps, Owner
  <2>2. IsFiniteSet(unread) /\ Cardinality(unread) <= Cardinality(Lost)
    BY <2>1, FS_Subset DEF Inv, LossCounted
  <2>3. Cardinality(unread) \in Nat /\ Cardinality(Lost) \in Nat
    BY <2>2, FS_CardinalityType DEF Inv, LossCounted
  <2>4. Cardinality(unread) <= crashes
    BY <2>2, <2>3 DEF Inv, LossCounted, Shape
  <2>5. \A m \in Messages : Whole(m) /\ file[m][1].box = "inbox" /\ file[m][1].type # "query" =>
          /\ file[m][1].audited => <<"message", m>> \in audit
          /\ file[m][1].audited \/ Owner(m) # {} \/ crashes > 0
    BY DEF Inv, MessagesKept, Recorded
  <2>. QED  BY <2>4, <2>5 DEF RevocationsAudited
<1>. QED  BY <1>1, Always, PTL

----------------------------------------------------------------------------
(* The invariant of the package directories *)

Ids(records) == {r.id : r \in records}

ManifestText(pkg, refs, visibility, consent, signature, hashes) ==
  [pkg |-> pkg, refs |-> refs, visibility |-> visibility, consent |-> consent,
   signature |-> signature, hashes |-> hashes]

(* A manifest that somebody asked for: it refers to the records it was made of *)
(* and hashes them and their report, and its signature is over what it said    *)
(* before its visibility and its consent were altered.                         *)
Signs(m, records, q) ==
  /\ m = ManifestText(m.pkg, Ids(records), m.visibility, m.consent,
           BuildSignature(ManifestText(m.pkg, Ids(records), q.visibility, q.consent, NoSignature, m.hashes),
                          q.signing),
           m.hashes)
  /\ m.hashes["records"] = <<records>>
  /\ m.hashes["report"] = <<Report(q.visibility, records)>>

Faithful(m) == \E records \in Contents, q \in Requests : Signs(m, records, q)

CreatingSteps == {"records", "report", "readme", "sign", "manifest", "announce"}

Asked(job, q) == job.visibility = q.visibility /\ job.signing = q.signing /\ job.consent = q.consent

(* What a command that has its directory for itself has put there so far *)
Wrote(j, there) ==
  /\ j.pc # "records" => there["records"] = <<j.job.records>>
  /\ j.pc \notin {"records", "report"} => there["report"] = <<Report(j.job.visibility, j.job.records)>>
  /\ j.pc = "manifest" => Faithful(j.got[1])

Fills(j, dirs, shared) ==
  /\ j.pc = "verify" => j.op = "preview"
  /\ j.pc \in CreatingSteps => j.op = "create"
  /\ j.op = "preview" => j.job.dir \in Dirs
  /\ j.op = "create" =>
       /\ j.pc \in CreatingSteps /\ j.job.dir \in Dirs /\ j.job.records \in Contents
       /\ \E q \in Requests : Asked(j.job, q)
       /\ j.job.dir \notin shared => Wrote(j, dirs[j.job.dir])

Shares(j, k) == j.op = "create" /\ k.op = "create" /\ j.job.dir = k.job.dir

Holds(slot) == slot # Absent => slot = <<slot[1]>> /\ Faithful(slot[1])

DirsShape ==
  /\ now \in Nat
  /\ dir = [d \in Dirs |-> [f \in PackageFiles |-> dir[d][f]]]

Fillers ==
  /\ \A p \in Procs : Fills(proc[p], dir, mixed)
  /\ \A p, q \in Procs : p # q /\ Shares(proc[p], proc[q]) => proc[p].job.dir \in mixed

Manifests == \A d \in Dirs \ mixed : Holds(dir[d]["manifest"])

PackagesInv == DirsShape /\ Fillers /\ Manifests

(* No directory holds a package at first *)
LEMMA PackagesBegin == Init => PackagesInv
<1>. SUFFICES ASSUME Init PROVE PackagesInv
  OBVIOUS
<1>1. \A p \in Procs : proc[p].op = "none" /\ proc[p].pc = "idle"
  BY DEF Init, Idle
<1>2. DirsShape  BY DEF Init, DirsShape
<1>3. Fillers  BY <1>1 DEF Fillers, Fills, Shares, CreatingSteps
<1>4. Manifests  BY DEF Init, Manifests, Holds, PackageFiles, HashedFiles
<1>. QED  BY <1>2, <1>3, <1>4 DEF PackagesInv

(* Steps that leave the directories as they are *)
LEMMA PackagesUntouched ==
  ASSUME PackagesInv, UNCHANGED <<dir, mixed>>, now' \in Nat,
         \A p \in Procs : proc'[p] = proc[p] \/ (proc'[p].op # "create" /\ Fills(proc'[p], dir, mixed))
  PROVE  PackagesInv'
<1>1. DirsShape'  BY DEF PackagesInv, DirsShape
<1>2. Fillers'
  <2>1. \A p \in Procs : Fills(proc'[p], dir, mixed)
    BY DEF PackagesInv, Fillers
  <2>2. \A p, q \in Procs : Shares(proc'[p], proc'[q]) => Shares(proc[p], proc[q]) /\ proc'[p] = proc[p]
    BY DEF Shares
  <2>. QED  BY <2>1, <2>2 DEF PackagesInv, Fillers
<1>3. Manifests'  BY DEF PackagesInv, Manifests
<1>. QED  BY <1>1, <1>2, <1>3 DEF PackagesInv

(* One step of a command in its directory: what it puts there disturbs nobody  *)
(* who has a directory for himself.                                            *)
LEMMA FillerSteps ==
  ASSUME PackagesInv, NEW p \in Procs, NEW pc, NEW got,
         proc[p].op = "create", pc \in CreatingSteps,
         \A q \in Procs : proc'[q] = IF q = p THEN At(pc, "create", proc[p].job, got) ELSE proc[q],
         UNCHANGED <<mixed, now>>, DirsShape',
         \A d \in Dirs : d # proc[p].job.dir => dir'[d] = dir[d],
         proc[p].job.dir \notin mixed =>
           /\ Wrote(At(pc, "create", proc[p].job, got), dir'[proc[p].job.dir])
           /\ Holds(dir'[proc[p].job.dir]["manifest"])
  PROVE  PackagesInv'
<1> DEFINE new == At(pc, "create", proc[p].job, got)
<1>1. new.pc = pc /\ new.op = "create" /\ new.job = proc[p].job
  BY DEF At
<1>2. Fills(proc[p], dir, mixed)  BY DEF PackagesInv, Fillers
<1>3. Fills(new, dir', mixed')
  BY <1>1, <1>2 DEF Fills, CreatingSteps
<1> HIDE DEF new
<1>4. ASSUME NEW q \in Procs PROVE Fills(proc'[q], dir', mixed')
  <2>1. CASE q = p  BY <1>3, <2>1 DEF new
  <2>2. CASE q # p
    <3>1. proc'[q] = proc[q] /\ Fills(proc[q], dir, mixed)
      BY <2>2 DEF PackagesInv, Fillers
    <3>2. ASSUME proc[q].op = "create", proc[q].job.dir \notin mixed
          PROVE  proc[q].job.dir # proc[p].job.dir
      BY <2>2, <3>2 DEF PackagesInv, Fillers, Shares
    <3>3. ASSUME proc[q].op = "create", proc[q].job.dir \notin mixed
          PROVE  dir'[proc[q].job.dir] = dir[proc[q].job.dir]
      BY <3>1, <3>2, <3>3 DEF Fills
    <3>. QED  BY <3>1, <3>3 DEF Fills
  <2>. QED  BY <2>1, <2>2
<1>5. \A q, u \in Procs : Shares(proc'[q], proc'[u]) => Shares(proc[q], proc[u]) /\ proc'[q].job = proc[q].job
  <2>1. \A q \in Procs : proc'[q].op = proc[q].op /\ proc'[q].job = proc[q].job
    BY <1>1 DEF new
  <2>. QED  BY <2>1 DEF Shares
<1>6. Fillers'  BY <1>4, <1>5 DEF PackagesInv, Fillers
<1>7. Manifests'
  <2>1. ASSUME NEW d \in Dirs \ mixed PROVE Holds(dir'[d]["manifest"])
    <3>1. CASE d = proc[p].job.dir  BY <3>1
    <3>2. CASE d # proc[p].job.dir  BY <3>2 DEF PackagesInv, Manifests
    <3>. QED  BY <3>1, <3>2
  <2>. QED  BY <2>1 DEF Manifests
<1>. QED  BY <1>6, <1>7 DEF PackagesInv

(* What Put leaves in the directories *)
LEMMA Puts ==
  ASSUME DirsShape, NEW p \in Procs, NEW name \in PackageFiles, NEW content,
         proc[p].job.dir \in Dirs, Put(p, name, content), UNCHANGED now
  PROVE  /\ DirsShape'
         /\ \A d \in Dirs : d # proc[p].job.dir => dir'[d] = dir[d]
         /\ \A f \in PackageFiles :
              dir'[proc[p].job.dir][f] = IF f = name THEN <<content>> ELSE dir[proc[p].job.dir][f]
<1> DEFINE d0 == proc[p].job.dir
<1>1. dir' = [dir EXCEPT ![d0] = [dir[d0] EXCEPT ![name] = <<content>>]]
  BY DEF Put
<1> HIDE DEF d0
<1>2. \A d \in Dirs : dir'[d] = IF d = d0 THEN [dir[d0] EXCEPT ![name] = <<content>>] ELSE dir[d]
  BY <1>1 DEF DirsShape
<1>3. dir[d0] = [f \in PackageFiles |-> dir[d0][f]]
  BY DEF DirsShape, d0
<1>4. \A f \in PackageFiles :
        [dir[d0] EXCEPT ![name] = <<content>>][f] = IF f = name THEN <<content>> ELSE dir[d0][f]
  BY <1>3
<1>5. [dir[d0] EXCEPT ![name] = <<content>>]
        = [f \in PackageFiles |-> [dir[d0] EXCEPT ![name] = <<content>>][f]]
  BY <1>3
<1>6. dir' = [d \in Dirs |-> dir'[d]]
  BY <1>1 DEF DirsShape
<1>7. \A d \in Dirs : dir'[d] = [f \in PackageFiles |-> dir'[d][f]]
  BY <1>2, <1>5 DEF DirsShape
<1>8. DirsShape'
  <2>1. [d \in Dirs |-> dir'[d]] = [d \in Dirs |-> [f \in PackageFiles |-> dir'[d][f]]]
    BY <1>7
  <2>2. now' \in Nat  BY DEF DirsShape
  <2>3. dir' = [d \in Dirs |-> [f \in PackageFiles |-> dir'[d][f]]]
    BY <1>6, <2>1
  <2>. QED  BY <2>2, <2>3 DEF DirsShape
<1>9. d0 \in Dirs  BY DEF d0
<1>. QED  BY <1>2, <1>4, <1>8, <1>9 DEF d0

(* The next step of a command with the same job *)
LEMMA Continues ==
  ASSUME Inv, NEW p \in Procs, NEW pc, proc' = [proc EXCEPT ![p].pc = pc]
  PROVE  \A q \in Procs : proc'[q] = IF q = p THEN At(pc, proc[p].op, proc[p].job, proc[p].got) ELSE proc[q]
<1>1. [proc[p] EXCEPT !.pc = pc] = At(pc, proc[p].op, proc[p].job, proc[p].got)
  <2>1. proc[p] = At(proc[p].pc, proc[p].op, proc[p].job, proc[p].got)  BY DEF Inv, Shape
  <2>2. ASSUME NEW x, NEW op, NEW job, NEW got
        PROVE  [At(x, op, job, got) EXCEPT !.pc = pc] = At(pc, op, job, got)
    BY DEF At
  <2>. QED  BY <2>1, <2>2
<1>2. proc' = [proc EXCEPT ![p] = At(pc, proc[p].op, proc[p].job, proc[p].got)]
  BY <1>1
<1>. QED  BY <1>2 DEF Inv, Shape

(* A command that begins to save a file, goes on with it, ends or dies *)
LEMMA SaversPass ==
  ASSUME Inv, PackagesInv, NEW p \in Procs,
         \A q \in Procs : q # p => proc'[q] = proc[q],
         \/ proc'[p].op \in SavingOps /\ proc'[p].pc \in SavingSteps
         \/ proc'[p] = Idle,
         UNCHANGED <<dir, mixed, now>>
  PROVE  PackagesInv'
<1>1. proc'[p].op \notin {"create", "preview"} /\ proc'[p].pc \notin CreatingSteps \cup {"verify"}
  BY DEF SavingOps, SavingSteps, CreatingSteps, Idle
<1>2. Fills(proc'[p], dir, mixed)  BY <1>1 DEF Fills
<1>3. now' \in Nat  BY DEF PackagesInv, DirsShape
<1>4. \A q \in Procs : proc'[q] = proc[q] \/ (proc'[q].op # "create" /\ Fills(proc'[q], dir, mixed))
  BY <1>1, <1>2
<1>. QED  BY <1>3, <1>4, PackagesUntouched

(* Commands that save files, and crashes, leave the directories alone *)
LEMMA SavingPasses ==
  ASSUME Inv, PackagesInv, NEW p \in Procs,
         \/ BeginNode(p) \/ BeginAssert(p) \/ BeginWithdraw(p) \/ BeginMessage(p)
         \/ Truncate(p) \/ Write(p) \/ RecordAudit(p) \/ Crash(p)
  PROVE  PackagesInv'
<1>0. UNCHANGED <<dir, mixed, now>>
  BY DEF BeginNode, BeginAssert, BeginWithdraw, BeginMessage, Truncate, Write, RecordAudit, Crash,
         world, packages
<1>1. CASE BeginNode(p) \/ BeginAssert(p) \/ BeginWithdraw(p) \/ BeginMessage(p)
  <2>1. PICK op \in SavingOps : \E job : Start(p, op, "truncate", job)
    BY <1>1 DEF BeginNode, BeginAssert, BeginWithdraw, BeginMessage, SavingOps
  <2>2. PICK job : proc' = [proc EXCEPT ![p] = At("truncate", op, job, <<>>)]
    BY <2>1 DEF Start, At
  <2>3. /\ \A q \in Procs : q # p => proc'[q] = proc[q]
        /\ proc'[p] = At("truncate", op, job, <<>>)
    BY <2>2 DEF Inv, Shape
  <2>4. proc'[p].op \in SavingOps /\ proc'[p].pc \in SavingSteps
    BY <2>3 DEF At, SavingSteps
  <2>. QED  BY <1>0, <2>3, <2>4, SaversPass
<1>2. CASE Crash(p)
  <2>1. \A q \in Procs : proc'[q] = IF q = p THEN Idle ELSE proc[q]
    BY <1>2 DEF Crash, End, Inv, Shape
  <2>. QED  BY <1>0, <2>1, SaversPass
<1>3. CASE Truncate(p) \/ Write(p) \/ RecordAudit(p)
  <2>1. proc[p].op \in SavingOps
    BY <1>3 DEF Truncate, Write, RecordAudit, Inv, Commands, Fits, SavingSteps
  <2>2. CASE End(p)
    <3>1. \A q \in Procs : proc'[q] = IF q = p THEN Idle ELSE proc[q]
      BY <2>2 DEF End, Inv, Shape
    <3>. QED  BY <1>0, <3>1, SaversPass
  <2>3. CASE \E pc \in SavingSteps : Go(p, pc)
    <3>1. PICK pc \in SavingSteps : proc' = [proc EXCEPT ![p].pc = pc]
      BY <2>3 DEF Go
    <3>2. \A q \in Procs : proc'[q] = IF q = p THEN At(pc, proc[p].op, proc[p].job, proc[p].got) ELSE proc[q]
      BY <3>1, Continues
    <3>3. proc'[p].op \in SavingOps /\ proc'[p].pc \in SavingSteps
      BY <2>1, <3>2 DEF At
    <3>. QED  BY <1>0, <3>2, <3>3, SaversPass
  <2>4. CASE RecordAudit(p) /\ proc[p].op = "message"
    <3>1. proc' = [proc EXCEPT ![p].pc = "truncate", ![p].job.content.audited = TRUE]
      BY <2>4 DEF RecordAudit
    <3>2. PICK h : h = [proc EXCEPT ![p].pc = "truncate"]
      OBVIOUS
    <3>3. /\ h[p] = At("truncate", proc[p].op, proc[p].job, proc[p].got)
          /\ \A q \in Procs : q # p => h[q] = proc[q]
          /\ DOMAIN h = Procs
      <4>1. /\ DOMAIN h = Procs /\ h[p] = [proc[p] EXCEPT !.pc = "truncate"]
            /\ \A q \in Procs : q # p => h[q] = proc[q]
        BY <3>2 DEF Inv, Shape
      <4>2. proc[p] = At(proc[p].pc, proc[p].op, proc[p].job, proc[p].got)  BY DEF Inv, Shape
      <4>3. ASSUME NEW x, NEW op, NEW job, NEW got
            PROVE  [At(x, op, job, got) EXCEPT !.pc = "truncate"] = At("truncate", op, job, got)
        BY DEF At
      <4>. QED  BY <4>1, <4>2, <4>3
    <3>4. PICK job : proc' = [h EXCEPT ![p].job = job]
      BY <3>1, <3>2
    <3>5. /\ proc'[p] = [h[p] EXCEPT !.job = job]
          /\ \A q \in Procs : q # p => proc'[q] = proc[q]
      BY <3>3, <3>4
    <3>6. proc'[p].op \in SavingOps /\ proc'[p].pc \in SavingSteps
      BY <2>1, <3>3, <3>5 DEF At, SavingSteps
    <3>. QED  BY <1>0, <3>5, <3>6, SaversPass
  <2>. QED
    BY <1>3, <2>2, <2>3, <2>4 DEF Truncate, Write, RecordAudit, SavingSteps
<1>. QED  BY <1>1, <1>2, <1>3

(* A package is begun: a directory that somebody is filling becomes shared *)
LEMMA CreateBegins ==
  ASSUME Inv, PackagesInv, NEW p \in Procs, BeginCreate(p)
  PROVE  PackagesInv'
<1>1. PICK d \in Dirs, records \in Contents, q \in Requests :
        /\ made < MaxPackages /\ made' = made + 1
        /\ \A r \in Relations : file[r] \notin Unreadable
        /\ Start(p, "create", "records",
                 [dir |-> d, pkg |-> made + 1, records |-> records, visibility |-> q.visibility,
                  signing |-> q.signing, consent |-> q.consent])
        /\ mixed' = IF Creating(d) # {} THEN mixed \cup {d} ELSE mixed
        /\ UNCHANGED <<mix, now, damage, crashes, file, audit, dir, histories>>
  BY DEF BeginCreate
<1>2. PICK job : job = [dir |-> d, pkg |-> made + 1, records |-> records, visibility |-> q.visibility,
                        signing |-> q.signing, consent |-> q.consent]
  OBVIOUS
<1>3. job.dir = d /\ job.records = records /\ Asked(job, q)
  BY <1>2 DEF Asked
<1>4. \A u \in Procs : proc'[u] = IF u = p THEN At("records", "create", job, <<>>) ELSE proc[u]
  BY <1>1, <1>2 DEF Start, At, Inv, Shape
<1>5. PICK new : new = At("records", "create", job, <<>>)  OBVIOUS
<1>6. new.pc = "records" /\ new.op = "create" /\ new.job = job
  BY <1>5 DEF At
<1>7. Fills(new, dir, mixed')
  BY <1>3, <1>6 DEF Fills, Wrote, CreatingSteps
<1>8. mixed \subseteq mixed' /\ (Creating(d) # {} => d \in mixed')
  BY <1>1
<1>9. ASSUME NEW u \in Procs PROVE Fills(proc'[u], dir, mixed')
  BY <1>4, <1>5, <1>7, <1>8 DEF PackagesInv, Fillers, Fills
<1>10. ASSUME NEW u \in Procs, NEW v \in Procs, u # v, Shares(proc'[u], proc'[v])
       PROVE  proc'[u].job.dir \in mixed'
  <2>1. \A w \in Procs : w # p /\ proc[w].op = "create" /\ proc[w].job.dir = d => d \in mixed'
    BY <1>8 DEF Creating
  <2>2. CASE u = p
    BY <1>3, <1>4, <1>5, <1>6, <1>10, <2>1, <2>2 DEF Shares
  <2>3. CASE v = p
    BY <1>3, <1>4, <1>5, <1>6, <1>10, <2>1, <2>3 DEF Shares
  <2>4. CASE u # p /\ v # p
    BY <1>4, <1>8, <1>10, <2>4 DEF PackagesInv, Fillers
  <2>. QED  BY <2>2, <2>3, <2>4
<1>11. Fillers'  BY <1>1, <1>9, <1>10 DEF Fillers
<1>12. Manifests'  BY <1>1, <1>8 DEF PackagesInv, Manifests
<1>. QED  BY <1>1, <1>11, <1>12 DEF PackagesInv, DirsShape

(* The three files of a package *)
LEMMA FilesWritten ==
  ASSUME Inv, PackagesInv, NEW p \in Procs, WriteRecords(p) \/ WriteReport(p) \/ WriteReadme(p)
  PROVE  PackagesInv'
<1> DEFINE j == proc[p]
<1> DEFINE Adds(name, content, pc) ==
        /\ name \in HashedFiles /\ pc \in {"report", "readme", "sign"}
        /\ Put(p, name, content) /\ proc' = [proc EXCEPT ![p].pc = pc]
        /\ \/ j.pc = "records" /\ name = "records" /\ content = j.job.records /\ pc = "report"
           \/ j.pc = "report" /\ name = "report" /\ content = Report(j.job.visibility, j.job.records) /\ pc = "readme"
           \/ j.pc = "readme" /\ name = "readme" /\ pc = "sign"
<1>0. \E name, content, pc : Adds(name, content, pc)
  <2>1. CASE WriteRecords(p)
    <3>1. Adds("records", j.job.records, "report")  BY <2>1 DEF WriteRecords, Go, HashedFiles
    <3>. QED  BY <3>1
  <2>2. CASE WriteReport(p)
    <3>1. Adds("report", Report(j.job.visibility, j.job.records), "readme")
      BY <2>2 DEF WriteReport, Go, HashedFiles
    <3>. QED  BY <3>1
  <2>3. CASE WriteReadme(p)
    <3>1. Adds("readme", j.job.visibility, "sign")  BY <2>3 DEF WriteReadme, Go, HashedFiles
    <3>. QED  BY <3>1
  <2>. QED  BY <2>1, <2>2, <2>3
<1>1. PICK name, content, pc : Adds(name, content, pc)
  BY <1>0
<1>2. UNCHANGED <<mixed, now>> /\ j.pc \in CreatingSteps
  BY DEF WriteRecords, WriteReport, WriteReadme, world, CreatingSteps
<1>3. Fills(j, dir, mixed) /\ j.op = "create"
  BY <1>2 DEF PackagesInv, Fillers, Fills
<1>4. j.job.dir \in Dirs  BY <1>3 DEF Fills
<1>5. \A q \in Procs : proc'[q] = IF q = p THEN At(pc, "create", j.job, j.got) ELSE proc[q]
  <2>1. \A q \in Procs : proc'[q] = IF q = p THEN At(pc, proc[p].op, proc[p].job, proc[p].got) ELSE proc[q]
    BY <1>1, Continues
  <2>. QED  BY <1>3, <2>1
<1>6. name \in PackageFiles /\ {"records", "report", "manifest"} \subseteq PackageFiles /\ name # "manifest"
  BY <1>1 DEF PackageFiles, HashedFiles
<1>7. /\ DirsShape'
      /\ \A d \in Dirs : d # j.job.dir => dir'[d] = dir[d]
      /\ \A f \in PackageFiles : dir'[j.job.dir][f] = IF f = name THEN <<content>> ELSE dir[j.job.dir][f]
  BY <1>1, <1>2, <1>4, <1>6, Puts DEF PackagesInv
<1>8. ASSUME j.job.dir \notin mixed
      PROVE  /\ Wrote(At(pc, "create", j.job, j.got), dir'[j.job.dir])
             /\ Holds(dir'[j.job.dir]["manifest"])
  <2>1. Wrote(j, dir[j.job.dir])  BY <1>3, <1>8 DEF Fills
  <2>2. PICK new : new = At(pc, "create", j.job, j.got)  OBVIOUS
  <2>3. new.pc = pc /\ new.job = j.job  BY <2>2 DEF At
  <2>4. Wrote(new, dir'[j.job.dir])
    <3>1. CASE name = "records"  BY <1>1, <1>6, <1>7, <2>3, <3>1 DEF Wrote
    <3>2. CASE name = "report"  BY <1>1, <1>6, <1>7, <2>1, <2>3, <3>2 DEF Wrote
    <3>3. CASE name = "readme"  BY <1>1, <1>6, <1>7, <2>1, <2>3, <3>3 DEF Wrote
    <3>. QED  BY <1>1, <3>1, <3>2, <3>3 DEF HashedFiles
  <2>5. Holds(dir'[j.job.dir]["manifest"])
    BY <1>4, <1>6, <1>7, <1>8 DEF PackagesInv, Manifests
  <2>. QED  BY <2>2, <2>4, <2>5
<1>9. pc \in CreatingSteps  BY <1>1 DEF CreatingSteps
<1>. QED  BY <1>2, <1>3, <1>5, <1>7, <1>8, <1>9, FillerSteps

(* The manifest is made of what is on the disk, or there is none *)
LEMMA SignKeeps ==
  ASSUME Inv, PackagesInv, NEW p \in Procs, Sign(p)
  PROVE  PackagesInv'
<1> DEFINE j == proc[p]
           hashes == [f \in HashedFiles |-> dir[j.job.dir][f]]
           plain == ManifestText(j.job.pkg, Ids(j.job.records), j.job.visibility, j.job.consent, NoSignature, hashes)
           signed == ManifestText(j.job.pkg, Ids(j.job.records), j.job.visibility, j.job.consent,
                                  BuildSignature(plain, j.job.signing), hashes)
<1>0. j.pc = "sign" /\ UNCHANGED <<dir, mixed, now>>
  BY DEF Sign, world, packages
<1>1. CASE End(p)
  <2>1. \A q \in Procs : proc'[q] = IF q = p THEN Idle ELSE proc[q]
    BY <1>1 DEF End, Inv, Shape
  <2>. QED  BY <1>0, <2>1, SaversPass
<1>2. CASE ~End(p)
  <2>1. Manifest(p) = plain
    BY DEF Manifest, ManifestText, Ids
  <2>2. proc' = [proc EXCEPT ![p].pc = "manifest",
            ![p].got = <<[Manifest(p) EXCEPT !.signature = BuildSignature(Manifest(p), j.job.signing)]>>]
    BY <1>2 DEF Sign
  <2>3. [plain EXCEPT !.signature = BuildSignature(plain, j.job.signing)] = signed
    <3>1. ASSUME NEW a, NEW b, NEW c, NEW d, NEW e, NEW h, NEW x
          PROVE  [ManifestText(a, b, c, d, e, h) EXCEPT !.signature = x] = ManifestText(a, b, c, d, x, h)
      BY DEF ManifestText
    <3>. QED  BY <3>1
  <2>4. PICK got : got = <<signed>> /\ proc' = [proc EXCEPT ![p].pc = "manifest", ![p].got = got]
    BY <2>1, <2>2, <2>3
  <2>5. got[1] = signed  BY <2>4
  <2>6. \A q \in Procs : proc'[q] = IF q = p THEN At("manifest", j.op, j.job, got) ELSE proc[q]
    <3>1. [j EXCEPT !.pc = "manifest", !.got = got] = At("manifest", j.op, j.job, got)
      <4>1. j = At(j.pc, j.op, j.job, j.got)  BY DEF Inv, Shape
      <4>2. ASSUME NEW x, NEW op, NEW job, NEW y
            PROVE  /\ [At(x, op, job, y) EXCEPT !.pc = "manifest"] = At("manifest", op, job, y)
                   /\ [At("manifest", op, job, y) EXCEPT !.got = got] = At("manifest", op, job, got)
        BY DEF At
      <4>3. [j EXCEPT !.pc = "manifest"] = At("manifest", j.op, j.job, j.got)
        BY <4>1, <4>2
      <4>4. [At("manifest", j.op, j.job, j.got) EXCEPT !.got = got] = At("manifest", j.op, j.job, got)
        BY <4>2
      <4>. QED  BY <4>3, <4>4
    <3>2. proc' = [proc EXCEPT ![p] = At("manifest", j.op, j.job, got)]
      BY <2>4, <3>1
    <3>. QED  BY <3>2 DEF Inv, Shape
  <2>7. Fills(j, dir, mixed) /\ j.op = "create"
    BY <1>0 DEF PackagesInv, Fillers, Fills, CreatingSteps
  <2>8. \A q \in Procs : proc'[q] = IF q = p THEN At("manifest", "create", j.job, got) ELSE proc[q]
    BY <2>6, <2>7
  <2>9. ASSUME j.job.dir \notin mixed
        PROVE  /\ Wrote(At("manifest", "create", j.job, got), dir[j.job.dir])
               /\ Holds(dir[j.job.dir]["manifest"])
    <3>1. Wrote(j, dir[j.job.dir]) /\ j.job.records \in Contents /\ j.job.dir \in Dirs
      BY <2>7, <2>9 DEF Fills
    <3>2. dir[j.job.dir]["records"] = <<j.job.records>>
          /\ dir[j.job.dir]["report"] = <<Report(j.job.visibility, j.job.records)>>
      BY <1>0, <3>1 DEF Wrote
    <3>3. hashes["records"] = <<j.job.records>> /\ hashes["report"] = <<Report(j.job.visibility, j.job.records)>>
      BY <3>2 DEF HashedFiles
    <3>4. PICK q \in Requests : Asked(j.job, q)
      BY <2>7 DEF Fills
    <3>5. Signs(signed, j.job.records, q)
      <4> HIDE DEF hashes
      <4>1. /\ signed.pkg = j.job.pkg /\ signed.visibility = j.job.visibility /\ signed.consent = j.job.consent
            /\ signed.hashes = hashes
        BY DEF ManifestText
      <4> HIDE DEF signed
      <4>2. /\ q.visibility = j.job.visibility /\ q.consent = j.job.consent /\ q.signing = j.job.signing
        BY <3>4 DEF Asked
      <4>3. signed = ManifestText(signed.pkg, Ids(j.job.records), signed.visibility, signed.consent,
                BuildSignature(ManifestText(signed.pkg, Ids(j.job.records), q.visibility, q.consent,
                                            NoSignature, signed.hashes), q.signing),
                signed.hashes)
        BY <4>1, <4>2 DEF signed
      <4>. QED  BY <3>3, <4>1, <4>2, <4>3 DEF Signs
    <3>6. Faithful(got[1])  BY <2>5, <3>1, <3>5 DEF Faithful
    <3>7. PICK new : new = At("manifest", "create", j.job, got)  OBVIOUS
    <3>8. new.pc = "manifest" /\ new.job = j.job /\ new.got = got  BY <3>7 DEF At
    <3>9. Wrote(new, dir[j.job.dir])  BY <3>2, <3>6, <3>8 DEF Wrote
    <3>10. Holds(dir[j.job.dir]["manifest"])
      BY <2>9, <3>1 DEF PackagesInv, Manifests
    <3>. QED  BY <3>7, <3>9, <3>10
  <2>10. DirsShape'  BY <1>0 DEF PackagesInv, DirsShape
  <2>11. "manifest" \in CreatingSteps  BY DEF CreatingSteps
  <2>. QED  BY <1>0, <2>7, <2>8, <2>9, <2>10, <2>11, FillerSteps
<1>. QED  BY <1>1, <1>2

(* The manifest that was signed is what is written *)
LEMMA ManifestKeeps ==
  ASSUME Inv, PackagesInv, NEW p \in Procs, WriteManifest(p)
  PROVE  PackagesInv'
<1> DEFINE j == proc[p]
<1>1. /\ j.pc = "manifest" /\ Put(p, "manifest", j.got[1]) /\ proc' = [proc EXCEPT ![p].pc = "announce"]
      /\ UNCHANGED <<mixed, now>>
  BY DEF WriteManifest, Go, world
<1>2. Fills(j, dir, mixed) /\ j.op = "create"
  BY <1>1 DEF PackagesInv, Fillers, Fills, CreatingSteps
<1>3. j.job.dir \in Dirs  BY <1>2 DEF Fills
<1>4. \A q \in Procs : proc'[q] = IF q = p THEN At("announce", "create", j.job, j.got) ELSE proc[q]
  <2>1. \A q \in Procs : proc'[q] = IF q = p THEN At("announce", proc[p].op, proc[p].job, proc[p].got) ELSE proc[q]
    BY <1>1, Continues
  <2>. QED  BY <1>2, <2>1
<1>5. {"records", "report", "manifest"} \subseteq PackageFiles
  BY DEF PackageFiles, HashedFiles
<1>6. /\ DirsShape'
      /\ \A d \in Dirs : d # j.job.dir => dir'[d] = dir[d]
      /\ \A f \in PackageFiles :
           dir'[j.job.dir][f] = IF f = "manifest" THEN <<j.got[1]>> ELSE dir[j.job.dir][f]
  BY <1>1, <1>3, <1>5, Puts DEF PackagesInv
<1>7. ASSUME j.job.dir \notin mixed
      PROVE  /\ Wrote(At("announce", "create", j.job, j.got), dir'[j.job.dir])
             /\ Holds(dir'[j.job.dir]["manifest"])
  <2>1. Wrote(j, dir[j.job.dir])  BY <1>2, <1>7 DEF Fills
  <2>2. Faithful(j.got[1])  BY <1>1, <2>1 DEF Wrote
  <2>3. PICK new : new = At("announce", "create", j.job, j.got)  OBVIOUS
  <2>4. new.pc = "announce" /\ new.job = j.job  BY <2>3 DEF At
  <2>5. Wrote(new, dir'[j.job.dir])
    BY <1>1, <1>5, <1>6, <2>1, <2>4 DEF Wrote
  <2>6. PICK m : m = j.got[1]  OBVIOUS
  <2>7. dir'[j.job.dir]["manifest"] = <<m>>  BY <1>5, <1>6, <2>6
  <2>8. Holds(<<m>>)  BY <2>2, <2>6 DEF Holds
  <2>. QED  BY <2>3, <2>5, <2>7, <2>8
<1>8. "announce" \in CreatingSteps  BY DEF CreatingSteps
<1>. QED  BY <1>1, <1>2, <1>4, <1>6, <1>7, <1>8, FillerSteps

(* What is altered on its way: not while the directory is being filled, and    *)
(* of a manifest only what its signature can tell                              *)
LEMMA DamageKeeps ==
  ASSUME Inv, PackagesInv, Damage
  PROVE  PackagesInv'
<1>1. UNCHANGED <<proc, mixed, now>>  BY DEF Damage
<1>2. PICK d \in Dirs, f \in PackageFiles :
       /\ dir[d][f] # Absent /\ Creating(d) = {}
       /\ \/ dir' = [dir EXCEPT ![d][f] = Absent]
          \/ /\ f = "records"
             /\ \E records \in Contents : dir' = [dir EXCEPT ![d][f] = <<records>>]
          \/ /\ f = "manifest"
             /\ \E q \in Requests :
                  dir' = [dir EXCEPT ![d][f][1].visibility = q.visibility, ![d][f][1].consent = q.consent]
  BY DEF Damage
<1>3. /\ dir[d] = [g \in PackageFiles |-> dir[d][g]] /\ dir = [e \in Dirs |-> dir[e]] /\ now \in Nat
      /\ \A e \in Dirs : dir[e] = [g \in PackageFiles |-> dir[e][g]]
  <2>1. now \in Nat /\ dir = [e \in Dirs |-> [g \in PackageFiles |-> dir[e][g]]]
    BY DEF PackagesInv, DirsShape
  <2>. QED  BY <2>1
<1>4. PICK slot :
        /\ dir' = [dir EXCEPT ![d] = [dir[d] EXCEPT ![f] = slot]]
        /\ f = "manifest" /\ d \notin mixed => Holds(slot)
  <2>1. CASE dir' = [dir EXCEPT ![d][f] = Absent]
    <3>1. Holds(Absent)  BY DEF Holds
    <3>. QED  BY <2>1, <3>1
  <2>2. CASE f = "records" /\ \E records \in Contents : dir' = [dir EXCEPT ![d][f] = <<records>>]
    BY <2>2
  <2>3. CASE /\ f = "manifest"
             /\ \E q \in Requests :
                  dir' = [dir EXCEPT ![d][f][1].visibility = q.visibility, ![d][f][1].consent = q.consent]
    <3>1. PICK q \in Requests :
            dir' = [dir EXCEPT ![d][f][1].visibility = q.visibility, ![d][f][1].consent = q.consent]
      BY <2>3
    <3>2. PICK old : old = dir[d][f]  OBVIOUS
    <3>3. PICK slot1 : slot1 = [old EXCEPT ![1] = [old[1] EXCEPT !.visibility = q.visibility]]  OBVIOUS
    <3>4. PICK slot : slot = [slot1 EXCEPT ![1] = [slot1[1] EXCEPT !.consent = q.consent]]  OBVIOUS
    <3>5. PICK h : h = [dir EXCEPT ![d] = [dir[d] EXCEPT ![f] = slot1]]  OBVIOUS
    <3>6. dir' = [h EXCEPT ![d] = [h[d] EXCEPT ![f] = [h[d][f] EXCEPT ![1] = [h[d][f][1] EXCEPT !.consent = q.consent]]]]
      BY <3>1, <3>2, <3>3, <3>5
    <3>7. h[d][f] = slot1 /\ h[d] = [dir[d] EXCEPT ![f] = slot1]
      BY <1>3, <3>5
    <3>8. dir' = [h EXCEPT ![d] = [h[d] EXCEPT ![f] = slot]]
      BY <3>4, <3>6, <3>7
    <3>9. [[dir[d] EXCEPT ![f] = slot1] EXCEPT ![f] = slot] = [dir[d] EXCEPT ![f] = slot]
      BY <1>3
    <3>10. dir' = [h EXCEPT ![d] = [dir[d] EXCEPT ![f] = slot]]
      BY <3>7, <3>8, <3>9
    <3>11. dir' = [dir EXCEPT ![d] = [dir[d] EXCEPT ![f] = slot]]
      BY <1>3, <3>5, <3>10
    <3>12. ASSUME d \notin mixed PROVE Holds(slot)
      <4>1. Holds(old)  BY <2>3, <3>2, <3>12 DEF PackagesInv, Manifests
      <4>2. PICK m : old = <<m>> /\ Faithful(m)
        BY <1>2, <3>2, <4>1 DEF Holds
      <4>3. PICK records \in Contents, asked \in Requests : Signs(m, records, asked)
        BY <4>2 DEF Faithful
      <4>4. PICK signature :
              /\ signature = BuildSignature(ManifestText(m.pkg, Ids(records), asked.visibility, asked.consent,
                                                         NoSignature, m.hashes), asked.signing)
              /\ m = ManifestText(m.pkg, Ids(records), m.visibility, m.consent, signature, m.hashes)
        BY <4>3 DEF Signs
      <4>5. ASSUME NEW a, NEW b, NEW x, NEW c, NEW e, NEW g, NEW y
            PROVE  /\ [ManifestText(a, b, x, c, e, g) EXCEPT !.visibility = y] = ManifestText(a, b, y, c, e, g)
                   /\ [ManifestText(a, b, x, c, e, g) EXCEPT !.consent = y] = ManifestText(a, b, x, y, e, g)
        BY DEF ManifestText
      <4>6. PICK n : n = ManifestText(m.pkg, Ids(records), q.visibility, q.consent, signature, m.hashes)
        OBVIOUS
      <4>7. [m EXCEPT !.visibility = q.visibility]
              = ManifestText(m.pkg, Ids(records), q.visibility, m.consent, signature, m.hashes)
        BY <4>4, <4>5
      <4>8. slot1 = <<ManifestText(m.pkg, Ids(records), q.visibility, m.consent, signature, m.hashes)>>
        BY <3>3, <4>2, <4>7
      <4>9. slot = <<n>>
        <5>1. PICK n1 : n1 = ManifestText(m.pkg, Ids(records), q.visibility, m.consent, signature, m.hashes)
          OBVIOUS
        <5>2. ASSUME NEW a, NEW b, NEW x, NEW c, NEW e, NEW g, NEW y, NEW o,
                     o = ManifestText(a, b, x, c, e, g)
              PROVE  [o EXCEPT !.consent = y] = ManifestText(a, b, x, y, e, g)
          BY <5>2 DEF ManifestText
        <5>3. [n1 EXCEPT !.consent = q.consent] = n  BY <4>6, <5>1, <5>2
        <5>4. slot1 = <<n1>>  BY <4>8, <5>1
        <5>. QED  BY <3>4, <5>3, <5>4
      <4>10. n.pkg = m.pkg /\ n.visibility = q.visibility /\ n.consent = q.consent /\ n.hashes = m.hashes
        BY <4>6 DEF ManifestText
      <4>11. Signs(n, records, asked)
        BY <4>3, <4>4, <4>6, <4>10 DEF Signs
      <4>. QED  BY <4>9, <4>11 DEF Holds, Faithful
    <3>. QED  BY <3>11, <3>12
  <2>. QED  BY <1>2, <2>1, <2>2, <2>3
<1>5. /\ \A e \in Dirs : dir'[e] = IF e = d THEN [dir[d] EXCEPT ![f] = slot] ELSE dir[e]
      /\ dir' = [e \in Dirs |-> dir'[e]]
  BY <1>3, <1>4
<1>6. /\ [dir[d] EXCEPT ![f] = slot] = [g \in PackageFiles |-> [dir[d] EXCEPT ![f] = slot][g]]
      /\ \A g \in PackageFiles : [dir[d] EXCEPT ![f] = slot][g] = IF g = f THEN slot ELSE dir[d][g]
  BY <1>3
<1>7. DirsShape'
  <2>1. \A e \in Dirs : dir'[e] = [g \in PackageFiles |-> dir'[e][g]]
    BY <1>3, <1>5, <1>6
  <2>2. [e \in Dirs |-> dir'[e]] = [e \in Dirs |-> [g \in PackageFiles |-> dir'[e][g]]]
    BY <2>1
  <2>3. dir' = [e \in Dirs |-> [g \in PackageFiles |-> dir'[e][g]]]
    BY <1>5, <2>2
  <2>4. now' \in Nat  BY <1>1, <1>3
  <2>. QED  BY <2>3, <2>4 DEF DirsShape
<1>8. Fillers'
  <2>1. \A p \in Procs : proc[p].op = "create" => proc[p].job.dir # d
    BY <1>2 DEF Creating
  <2>2. ASSUME NEW p \in Procs PROVE Fills(proc[p], dir', mixed)
    <3>1. Fills(proc[p], dir, mixed)  BY DEF PackagesInv, Fillers
    <3>2. proc[p].op = "create" => dir'[proc[p].job.dir] = dir[proc[p].job.dir]
      BY <1>5, <2>1, <3>1 DEF Fills
    <3>. QED  BY <3>1, <3>2 DEF Fills
  <2>. QED  BY <1>1, <2>2 DEF PackagesInv, Fillers
<1>9. Manifests'
  <2>1. "manifest" \in PackageFiles  BY DEF PackageFiles
  <2>2. ASSUME NEW e \in Dirs \ mixed PROVE Holds(dir'[e]["manifest"])
    <3>1. CASE e = d /\ f = "manifest"  BY <1>4, <1>5, <1>6, <2>1, <3>1
    <3>2. CASE e = d /\ f # "manifest"
      <4>1. dir'[e]["manifest"] = dir[e]["manifest"]  BY <1>5, <1>6, <2>1, <3>2
      <4>. QED  BY <4>1 DEF PackagesInv, Manifests
    <3>3. CASE e # d  BY <1>5, <3>3 DEF PackagesInv, Manifests
    <3>. QED  BY <3>1, <3>2, <3>3
  <2>. QED  BY <1>1, <2>2 DEF Manifests
<1>. QED  BY <1>7, <1>8, <1>9 DEF PackagesInv

(* Every step keeps the invariant of the directories *)
LEMMA PackagesKept == Inv /\ PackagesInv /\ [Next]_vars => PackagesInv'
<1> SUFFICES ASSUME Inv, PackagesInv, [Next]_vars PROVE PackagesInv'
  OBVIOUS
<1>0. now \in Nat  BY DEF PackagesInv, DirsShape
<1>1. CASE UNCHANGED vars
  BY <1>0, <1>1, PackagesUntouched DEF vars
<1>2. CASE Damage  BY <1>2, DamageKeeps
<1>3. CASE Tick
  <2>1. UNCHANGED <<dir, mixed, proc>> /\ now' \in Nat  BY <1>0, <1>3 DEF Tick, packages
  <2>. QED  BY <2>1, PackagesUntouched
<1>4. ASSUME NEW p \in Procs, Command(p)
      PROVE  PackagesInv'
  <2>1. CASE RecordConsent(p)
    <3>1. UNCHANGED <<dir, mixed, proc, now>>  BY <2>1 DEF RecordConsent, world, packages
    <3>. QED  BY <1>0, <3>1, PackagesUntouched
  <2>2. CASE AnnouncePackage(p) \/ VerifyAndAnswer(p)
    <3>1. End(p) /\ UNCHANGED <<dir, mixed, now>>
      BY <2>2 DEF AnnouncePackage, VerifyAndAnswer, world, packages
    <3>2. \A q \in Procs : proc'[q] = IF q = p THEN Idle ELSE proc[q]
      BY <3>1 DEF End, Inv, Shape
    <3>. QED  BY <3>1, <3>2, SaversPass
  <2>3. CASE BeginPreview(p)
    <3>1. PICK d \in Dirs :
            /\ dir[d].manifest # Absent /\ dir[d].report # Absent
            /\ Start(p, "preview", "verify", [dir |-> d, manifest |-> dir[d].manifest[1], report |-> dir[d].report[1]])
      BY <2>3 DEF BeginPreview
    <3>2. UNCHANGED <<dir, mixed, now>>  BY <2>3 DEF BeginPreview, world, packages
    <3>3. PICK job : job = [dir |-> d, manifest |-> dir[d].manifest[1], report |-> dir[d].report[1]]  OBVIOUS
    <3>4. job.dir = d  BY <3>3
    <3>5. \A q \in Procs : proc'[q] = IF q = p THEN At("verify", "preview", job, <<>>) ELSE proc[q]
      BY <3>1, <3>3 DEF Start, At, Inv, Shape
    <3>6. proc'[p].op = "preview" /\ proc'[p].pc = "verify" /\ proc'[p].job = job
      BY <3>5 DEF At
    <3>7. Fills(proc'[p], dir, mixed)
      BY <3>4, <3>6 DEF Fills, CreatingSteps
    <3>8. \A q \in Procs : proc'[q] = proc[q] \/ (proc'[q].op # "create" /\ Fills(proc'[q], dir, mixed))
      BY <3>5, <3>6, <3>7
    <3>. QED  BY <1>0, <3>2, <3>8, PackagesUntouched
  <2>. QED
    BY <1>4, <2>1, <2>2, <2>3, SavingPasses, CreateBegins, FilesWritten, SignKeeps, ManifestKeeps DEF Command
<1>5. ASSUME NEW p \in Procs, Crash(p)
      PROVE  PackagesInv'
  BY <1>5, SavingPasses
<1>. QED  BY <1>1, <1>2, <1>3, <1>4, <1>5 DEF Next

(* What a manifest that is verified, with the files it hashes, comes from *)
LEMMA VerifiedManifest ==
  ASSUME NEW m, Faithful(m), NEW files, FilesMatch(files, m)
  PROVE  \E records \in Contents, q \in Requests :
           /\ Signs(m, records, q)
           /\ files["records"] = <<records>> /\ files["records"] # Absent /\ m.refs = Ids(records)
           /\ files["report"] = <<Report(q.visibility, records)>>
<1>1. PICK records \in Contents, q \in Requests : Signs(m, records, q)
  BY DEF Faithful
<1>2. PICK signature : m = ManifestText(m.pkg, Ids(records), m.visibility, m.consent, signature, m.hashes)
  BY <1>1 DEF Signs
<1>3. m.refs = Ids(records)
  <2>1. ASSUME NEW a, NEW b, NEW c, NEW d, NEW e, NEW f
        PROVE  ManifestText(a, b, c, d, e, f).refs = b
    BY DEF ManifestText
  <2>. QED  BY <1>2, <2>1
<1>4. files["records"] = <<records>> /\ files["report"] = <<Report(q.visibility, records)>>
  BY <1>1 DEF FilesMatch, HashedFiles, Signs
<1>5. <<records>> # Absent  BY DEF Absent
<1>. QED  BY <1>1, <1>3, <1>4, <1>5

(* A signature that is found good is over the visibility the manifest has *)
LEMMA GoodSignature ==
  ASSUME NEW m, NEW records, NEW q \in Requests, Signs(m, records, q), NEW today \in Nat,
         VerifySignature(m, today) = "signed"
  PROVE  /\ m.visibility = q.visibility
         /\ m.signature.status = "signed" /\ m.signature.key \in Keys
         /\ m.signature.expires = 0 \/ m.signature.expires >= today
<1> DEFINE plain == ManifestText(m.pkg, Ids(records), q.visibility, q.consent, NoSignature, m.hashes)
           s == BuildSignature(plain, q.signing)
<1>1. m = ManifestText(m.pkg, Ids(records), m.visibility, m.consent, s, m.hashes)
  BY DEF Signs
<1>2. m.signature = s
  <2>1. ASSUME NEW a, NEW b, NEW c, NEW d, NEW e, NEW f
        PROVE  ManifestText(a, b, c, d, e, f).signature = e
    BY DEF ManifestText
  <2>. QED  BY <1>1, <2>1
<1>3. /\ s.status \notin {"unsigned", "revoked"} /\ ~(s.expires > 0 /\ s.expires < today)
      /\ s.key \in Keys /\ s.value = Payload(m, s.status, s.key, s.expires)
  BY <1>2 DEF VerifySignature
<1>4. q.signing.mode # "unsigned" /\ ~q.signing.revoked
  BY <1>3 DEF BuildSignature, NoSignature
<1>5. s = [status |-> "signed", key |-> q.signing.key, expires |-> q.signing.expires,
           value |-> Payload(plain, "signed", q.signing.key, q.signing.expires)]
  BY <1>4 DEF BuildSignature
<1>6. s.status = "signed" /\ s.expires = q.signing.expires
      /\ s.value = Payload(plain, "signed", q.signing.key, q.signing.expires)
  BY <1>5
<1> HIDE DEF s
<1>7. [m EXCEPT !.consent = {}, !.signature = NoSignature]
        = [plain EXCEPT !.consent = {}, !.signature = NoSignature]
  BY <1>3, <1>6 DEF Payload
<1>8. DOMAIN m = {"pkg", "refs", "visibility", "consent", "signature", "hashes"}
      /\ DOMAIN plain = {"pkg", "refs", "visibility", "consent", "signature", "hashes"}
      /\ plain.visibility = q.visibility
  BY <1>1 DEF ManifestText
<1>9. ASSUME NEW x, NEW o, o = [m EXCEPT !.consent = x, !.signature = NoSignature],
             o = [plain EXCEPT !.consent = x, !.signature = NoSignature]
      PROVE  m.visibility = q.visibility
  <2> HIDE DEF plain
  <2>1. o.visibility = m.visibility  BY <1>8, <1>9
  <2>2. o.visibility = plain.visibility  BY <1>8, <1>9
  <2>. QED  BY <1>8, <2>1, <2>2
<1>10. m.visibility = q.visibility
  <2> HIDE DEF plain
  <2>1. PICK o : o = [m EXCEPT !.consent = {}, !.signature = NoSignature]  OBVIOUS
  <2>2. o = [plain EXCEPT !.consent = {}, !.signature = NoSignature]  BY <1>7, <2>1
  <2>. QED  BY <1>9, <2>1, <2>2
<1>11. s.expires \in Nat  BY <1>6, RequestsAssumption
<1>12. s.expires = 0 \/ s.expires >= today  BY <1>3, <1>11
<1>. QED  BY <1>2, <1>3, <1>6, <1>10, <1>12

(* FederationPackageService.create_package, verify_package and import preview: *)
(* a package that is verified holds the records its manifest refers to, and an *)
(* import preview that passes is about a signed package that shows no record   *)
(* more widely than recommended, for any number of commands, packages in one   *)
(* directory, files damaged on their way and crashes.                          *)
THEOREM PackagesAreVerified == Spec => []PackagesVerified
<1>1. Inv /\ PackagesInv => PackagesVerified
  <2> SUFFICES ASSUME Inv, PackagesInv PROVE PackagesVerified
    OBVIOUS
  <2>1. ASSUME NEW p \in Answering, Answer(p).verification.valid, proc[p].job.dir \notin mixed
        PROVE  /\ dir[proc[p].job.dir]["manifest"] = <<dir[proc[p].job.dir].manifest[1]>>
               /\ Faithful(dir[proc[p].job.dir].manifest[1])
               /\ FilesMatch(dir[proc[p].job.dir], dir[proc[p].job.dir].manifest[1])
    <3>1. p \in Procs /\ proc[p].pc = "verify" /\ dir[proc[p].job.dir].manifest # Absent
      BY DEF Answering
    <3>2. proc[p].job.dir \in Dirs
      BY <3>1 DEF PackagesInv, Fillers, Fills
    <3>3. Holds(dir[proc[p].job.dir]["manifest"])
      BY <2>1, <3>2 DEF PackagesInv, Manifests
    <3>4. FilesMatch(dir[proc[p].job.dir], dir[proc[p].job.dir].manifest[1])
      BY <2>1 DEF Answer, Verification
    <3>. QED  BY <3>1, <3>3, <3>4 DEF Holds
  <2>2. VerifiedRecordsMatch
    <3>1. ASSUME NEW p \in Answering, Answer(p).verification.valid, proc[p].job.dir \notin mixed
          PROVE  /\ dir[proc[p].job.dir].records # Absent
                 /\ dir[proc[p].job.dir].manifest[1].refs = {r.id : r \in dir[proc[p].job.dir].records[1]}
      <4> DEFINE there == dir[proc[p].job.dir]
                 m == there.manifest[1]
      <4>1. Faithful(m) /\ FilesMatch(there, m)  BY <2>1, <3>1
      <4> HIDE DEF there, m
      <4>2. PICK records \in Contents, q \in Requests :
              there["records"] = <<records>> /\ there["records"] # Absent /\ m.refs = Ids(records)
        BY <4>1, VerifiedManifest
      <4>3. there.records[1] = records  BY <4>2
      <4>. QED  BY <4>2, <4>3 DEF there, m, Ids
    <3>. QED  BY <3>1 DEF VerifiedRecordsMatch
  <2>3. PassedIsFit
    <3>1. ASSUME NEW p \in Answering, Answer(p).preview.status = "pass", proc[p].job.dir \notin mixed,
                 proc[p].job.report = dir[proc[p].job.dir].report[1]
          PROVE  LET there == dir[proc[p].job.dir]  manifest == there.manifest[1]  s == manifest.signature IN
                 /\ Answer(p).preview.candidate
                 /\ s.status = "signed" /\ s.key \in Keys /\ (s.expires = 0 \/ s.expires >= now)
                 /\ \A r \in there.records[1] : Rank(manifest.visibility) <= Rank(Recommended(r))
      <4> DEFINE there == dir[proc[p].job.dir]
                 m == there.manifest[1]
                 v == Verification(there, m, now)
                 job == proc[p].job
      <4>1. Answer(p) = [verification |-> v, preview |-> ImportPreview(job.manifest, job.report, v)]
        BY DEF Answer
      <4>2. Answer(p).preview = ImportPreview(job.manifest, job.report, v) /\ Answer(p).verification = v
        BY <4>1
      <4>3. ImportPreview(job.manifest, job.report, v).status = "pass"
        BY <3>1, <4>2
      <4>4. v = [signature |-> VerifySignature(m, now),
                 valid |-> FilesMatch(there, m) /\ VerifySignature(m, now) \in {"unsigned", "signed"}]
        BY DEF Verification
      <4> HIDE DEF v, job
      <4>5. PreviewFindings(job.manifest, job.report, v) = {}
            /\ ImportPreview(job.manifest, job.report, v).candidate
        BY <4>3 DEF ImportPreview, PreviewStatus
      <4>6. v.signature \notin {"unsigned", "mismatch", "expired", "revoked"} /\ v.valid /\ ~job.report.broader
        BY <4>5 DEF PreviewFindings
      <4>7. FilesMatch(there, m) /\ VerifySignature(m, now) = "signed"
        BY <4>4, <4>6
      <4>8. Faithful(m)
        BY <2>1, <3>1, <4>2, <4>6
      <4>9. job.report = there.report[1]  BY <3>1 DEF job
      <4>10. now \in Nat  BY DEF PackagesInv, DirsShape
      <4>11. Answer(p).preview.candidate  BY <4>2, <4>5
      <4> HIDE DEF there, m
      <4>12. PICK records \in Contents, q \in Requests :
               /\ Signs(m, records, q)
               /\ there["records"] = <<records>> /\ there["report"] = <<Report(q.visibility, records)>>
        BY <4>7, <4>8, VerifiedManifest
      <4>13. /\ m.visibility = q.visibility
             /\ m.signature.status = "signed" /\ m.signature.key \in Keys
             /\ m.signature.expires = 0 \/ m.signature.expires >= now
        BY <4>7, <4>10, <4>12, GoodSignature
      <4>14. there.records[1] = records /\ there.report[1] = Report(q.visibility, records)
        BY <4>12
      <4>15. ~Broader(q.visibility, records)
        BY <4>6, <4>9, <4>14 DEF Report
      <4>16. ASSUME NEW r \in records PROVE Rank(m.visibility) <= Rank(Recommended(r))
        <5>1. ~(Rank(q.visibility) > Rank(Recommended(r)))  BY <4>15 DEF Broader
        <5>2. q.visibility \in Ranked  BY RequestsAssumption DEF Ranked
        <5>3. Rank(q.visibility) \in Int /\ Rank(Recommended(r)) \in Int
          BY <5>2, Ranks, RecommendedIsRanked
        <5>. QED  BY <4>13, <5>1, <5>3
      <4>. QED  BY <4>11, <4>13, <4>14, <4>16 DEF there, m
    <3>. QED  BY <3>1 DEF PassedIsFit
  <2>. QED  BY <2>2, <2>3 DEF PackagesVerified
<1>2. Spec => []PackagesInv
  <2>1. Inv /\ [Next]_vars /\ PackagesInv => PackagesInv'  BY PackagesKept
  <2>. QED  BY <2>1, Always, PackagesBegin, PTL DEF Spec
<1>. QED  BY <1>1, <1>2, Always, PTL
=============================================================================
