-------------------------- MODULE ReviewFlowProofs --------------------------
(***************************************************************************)
(* What holds of proposals, reviews and plans for any number of commands   *)
(* and threads, of operations and of failures.                             *)
(***************************************************************************)
EXTENDS ReviewFlow, FiniteSetTheorems, SequenceTheorems, WellFoundedInduction, TLAPS

Line == [kind : {"proposal", "review", "version", "plan"}, id : Nat, target : Targets,
         of : Nat, base : Nat, disp : Dispositions \cup {"none"}, ui : BOOLEAN]

Places == {"idle", "append", "exists", "audit", "approval", "reread", "resave", "load", "read", "save"}

Job == [pc : Places, evt : Line \cup {NoEvent}, seen : Nat]

GoodJob(job) ==
  /\ job \in Job /\ job.seen <= Len(log)
  /\ job.pc # "idle" => job.evt \in Line
  /\ job.pc = "exists" => job.evt.kind = "proposal"
  /\ job.pc = "audit" => job.evt.kind = "review"
  /\ job.pc \in {"approval", "reread", "resave", "load"} => job.evt.kind = "version"

GoodPlans(ps) ==
  ps \subseteq [id : Nat, base : Nat] /\ (ps # {} => "artifact" \in Targets)

(* Whoever is at work has prepared an event *)
Typed ==
  /\ log \in Seq(Line) /\ index \in [Targets -> Nat]
  /\ GoodPlans(plans)
  /\ next \in Nat /\ abandons \in Nat
  /\ proc \in [Procs -> Job] /\ \A p \in Procs : GoodJob(proc[p])

(* The first m lines have the proposal and no change that applies it *)
Found(lines, e, m) ==
  /\ ~AlreadyApplied(SubSeq(lines, 1, m), e)
  /\ \E x \in Proposals(SubSeq(lines, 1, m)) : x.id = e

FoundBy(lines, e, n) == \E m \in 0 .. n : Found(lines, e, m)

ApprovedBy(lines, e, k) ==
  \E n \in 0 .. k : Disposition(SubSeq(lines, 1, n), e) = "approve" /\ FoundBy(lines, e, n)

Changing == {"reread", "resave", "load", "append"}

(* What an apply has looked up was so at some moment *)
Justified(job) ==
  job.evt.kind = "version" /\ job.evt.of # 0 =>
    /\ job.pc = "approval" => FoundBy(log, job.evt.of, Len(log))
    /\ job.pc \in Changing => ApprovedBy(log, job.evt.of, Len(log))

Checked == \A p \in Procs : Justified(proc[p])

(* Who has found a proposal unapplied, or a plan unconverted, and may append *)
Applying(k) ==
  {p \in Procs : /\ proc[p].evt.kind = "version" /\ proc[p].evt.of = k
                 /\ proc[p].pc \in Changing \cup {"approval"}}
Converting(k) ==
  {p \in Procs : /\ proc[p].evt.kind = "proposal" /\ proc[p].evt.of = k
                 /\ proc[p].pc = "append"}

(* What a proposal or a plan has and may still get *)
Room == \A k \in Ids :
  /\ Cardinality(Applies(log, k)) + Cardinality(Applying(k)) <= Cardinality(Procs)
  /\ Cardinality(Conversions(log, k)) + Cardinality(Converting(k)) <= Cardinality(Procs)

Active(p) == proc[p].pc # "idle"
Record(evt) == [id |-> evt.id, of |-> evt.of, disp |-> evt.disp]

(* An event's id is its operation's only, and an audit record is either of    *)
(* the past or of the review that its process is about to append.             *)
Numbered ==
  /\ \A p \in Procs : Active(p) =>
       /\ proc[p].evt.id < next
       /\ \A q \in Procs : Active(q) /\ proc[q].evt.id = proc[p].evt.id => q = p
       /\ \A a \in audit : a.id = proc[p].evt.id =>
            proc[p].pc = "append" /\ proc[p].evt.kind = "review" /\ a = Record(proc[p].evt)
       /\ proc[p].pc = "append" /\ proc[p].evt.kind = "review" => Record(proc[p].evt) \in audit
  /\ IsFiniteSet(audit)
  /\ \A a \in audit : a.id \in Nat /\ a.id < next

Said == {Record(log[i]) : i \in {j \in 1 .. Len(log) : log[j].kind = "review"}}
Coming == {a \in audit : \E p \in Procs : proc[p].pc = "append" /\ proc[p].evt.id = a.id}

(* Records whose review will never be appended *)
Lost == audit \ (Said \cup Coming)

Inv == Typed /\ Checked /\ ApplyWasJustified /\ Room /\ Numbered /\ ReviewsAudited

----------------------------------------------------------------------------
(* Sets and sequences *)

LEMMA Greatest ==
  ASSUME NEW n \in Nat, NEW T \in SUBSET (1 .. n), T # {}
  PROVE  Last(T) \in T
<1> DEFINE U == {n - i : i \in T}
<1>0. \A i \in T : i \in 1 .. n /\ n - i \in Nat  OBVIOUS
<1>1. U \subseteq Nat /\ U # {}
  <2>1. PICK i \in T : TRUE  OBVIOUS
  <2>2. n - i \in U  BY <2>1
  <2>. QED  BY <1>0, <2>2
<1>2. \E x \in U : \A y \in U : ~ (<<y, x>> \in OpToRel(<, Nat))
  BY <1>1, WFMin, NatLessThanWellFounded
<1>3. PICK x \in U : \A y \in U : ~ (y < x)
  BY <1>1, <1>2 DEF OpToRel
<1>4. PICK i \in T : x = n - i  BY <1>3
<1>5. \A j \in T : j <= i
  <2> SUFFICES ASSUME NEW j \in T PROVE j <= i  OBVIOUS
  <2>1. n - j \in U  OBVIOUS
  <2>2. ~ (n - j < n - i)  BY <1>3, <1>4, <2>1
  <2>3. j \in 1 .. n /\ i \in 1 .. n  BY <1>0, <1>4
  <2>. QED  BY <2>2, <2>3
<1>. QED  BY <1>4, <1>5 DEF Last

LEMMA Growing ==
  ASSUME log \in Seq(Line), NEW e \in Line, log' = Append(log, e)
  PROVE  /\ Len(log) \in Nat /\ Len(log') = Len(log) + 1 /\ log' \in Seq(Line)
         /\ \A i \in 1 .. Len(log) : i \in 1 .. Len(log') /\ log'[i] = log[i]
         /\ \A i \in 1 .. Len(log') : i \in 1 .. Len(log) \/ i = Len(log) + 1
         /\ log'[Len(log) + 1] = e
         /\ \A n \in 0 .. Len(log) : SubSeq(log', 1, n) = SubSeq(log, 1, n)
<1>1. /\ Len(log) \in Nat /\ Len(log') = Len(log) + 1 /\ log' \in Seq(Line)
      /\ \A i \in 1 .. Len(log) : log'[i] = log[i]
      /\ log'[Len(log) + 1] = e
  BY LenProperties, AppendProperties
<1>2. ASSUME NEW n \in 0 .. Len(log) PROVE SubSeq(log', 1, n) = SubSeq(log, 1, n)
  <2>1. n - (1 - 1) = n /\ n \in 0 .. Len(log')  BY <1>1
  <2>2. SubSeq(log', 1, n) = [i \in 1 .. n |-> log'[i]]
    BY <1>1, <2>1, SubSeqProperties
  <2>3. SubSeq(log, 1, n) = [i \in 1 .. n |-> log[i]]
    BY <1>1, <2>1, SubSeqProperties
  <2>4. \A i \in 1 .. n : log'[i] = log[i]  BY <1>1
  <2>. QED  BY <2>2, <2>3, <2>4
<1>. QED  BY <1>1, <1>2

LEMMA WholePrefix ==
  ASSUME log \in Seq(Line)
  PROVE  SubSeq(log, 1, Len(log)) = log
<1>1. Len(log) \in Nat /\ log = [i \in 1 .. Len(log) |-> log[i]]  BY LenProperties
<1>2. SubSeq(log, 1, Len(log)) = [i \in 1 .. Len(log) |-> log[i]]
  BY <1>1, SubSeqProperties
<1>. QED  BY <1>1, <1>2

(* Places that are taken by who is at work, A, and by what is done, D *)
LEMMA NoNewPlace ==
  ASSUME NEW D, NEW A, NEW B, IsFiniteSet(D), A \subseteq Procs, B \subseteq Procs,
         B \subseteq A \/ D = {}, Cardinality(D) + Cardinality(A) <= Cardinality(Procs)
  PROVE  Cardinality(D) + Cardinality(B) <= Cardinality(Procs)
<1>1. /\ IsFiniteSet(A) /\ Cardinality(A) \in Nat /\ Cardinality(Procs) \in Nat
      /\ Cardinality(B) \in Nat /\ Cardinality(B) <= Cardinality(Procs) /\ Cardinality(D) \in Nat
  BY ProcsAssumption, FS_Subset, FS_CardinalityType
<1>2. CASE B \subseteq A
  <2>1. Cardinality(B) <= Cardinality(A)  BY <1>1, <1>2, FS_Subset
  <2>. QED  BY <1>1, <2>1
<1>3. CASE D = {}
  <2>1. Cardinality(D) = 0  BY <1>3, FS_EmptySet
  <2>. QED  BY <1>1, <2>1
<1>. QED  BY <1>2, <1>3

LEMMA PlaceTaken ==
  ASSUME NEW D, NEW A, NEW B, NEW x, NEW p \in A, IsFiniteSet(D), A \subseteq Procs, x \notin D,
         B \subseteq A \ {p}, Cardinality(D) + Cardinality(A) <= Cardinality(Procs)
  PROVE  Cardinality(D \cup {x}) + Cardinality(B) <= Cardinality(Procs)
<1>1. /\ IsFiniteSet(A) /\ Cardinality(A) \in Nat /\ Cardinality(Procs) \in Nat /\ Cardinality(D) \in Nat
  BY ProcsAssumption, FS_Subset, FS_CardinalityType
<1>2. Cardinality(D \cup {x}) = Cardinality(D) + 1  BY FS_AddElement
<1>3. IsFiniteSet(A \ {p}) /\ Cardinality(A \ {p}) = Cardinality(A) - 1
  BY <1>1, FS_RemoveElement
<1>4. Cardinality(B) <= Cardinality(A \ {p}) /\ Cardinality(B) \in Nat
  BY <1>3, FS_Subset, FS_CardinalityType
<1>. QED  BY <1>1, <1>2, <1>3, <1>4

LEMMA LinesFinite ==
  ASSUME log \in Seq(Line), NEW k
  PROVE  IsFiniteSet(Applies(log, k)) /\ IsFiniteSet(Conversions(log, k))
<1>1. Len(log) \in Nat  BY LenProperties
<1>2. IsFiniteSet(1 .. Len(log))  BY <1>1, FS_Interval
<1>3. Applies(log, k) \subseteq 1 .. Len(log) /\ Conversions(log, k) \subseteq 1 .. Len(log)
  BY DEF Applies, Conversions
<1>. QED  BY <1>2, <1>3, FS_Subset

----------------------------------------------------------------------------
(* What was looked up stays looked up *)

LEMMA LookedUp ==
  ASSUME log \in Seq(Line), NEW e, NEW k \in 0 .. Len(log),
         UNCHANGED log \/ \E x \in Line : log' = Append(log, x)
  PROVE  /\ k \in 0 .. Len(log')
         /\ FoundBy(log, e, k) => FoundBy(log', e, k) /\ FoundBy(log', e, Len(log'))
         /\ ApprovedBy(log, e, k) => ApprovedBy(log', e, k) /\ ApprovedBy(log', e, Len(log'))
<1>1. /\ Len(log) \in Nat /\ Len(log') \in Nat /\ Len(log) <= Len(log')
      /\ \A n \in 0 .. Len(log) : SubSeq(log', 1, n) = SubSeq(log, 1, n)
  BY Growing, LenProperties
<1>2. \A m \in 0 .. k : m \in 0 .. Len(log) /\ m \in 0 .. Len(log')  BY <1>1
<1>3. ASSUME NEW n \in 0 .. Len(log), FoundBy(log, e, n)
      PROVE  FoundBy(log', e, n) /\ FoundBy(log', e, Len(log'))
  <2>1. PICK m \in 0 .. n : Found(log, e, m)  BY <1>3 DEF FoundBy
  <2>2. m \in 0 .. Len(log) /\ m \in 0 .. Len(log')  BY <1>1
  <2>3. Found(log', e, m)  BY <1>1, <2>1, <2>2 DEF Found
  <2>. QED  BY <2>2, <2>3 DEF FoundBy
<1>4. ASSUME ApprovedBy(log, e, k)
      PROVE  ApprovedBy(log', e, k) /\ ApprovedBy(log', e, Len(log'))
  <2>1. PICK n \in 0 .. k : Disposition(SubSeq(log, 1, n), e) = "approve" /\ FoundBy(log, e, n)
    BY <1>4 DEF ApprovedBy
  <2>2. n \in 0 .. Len(log) /\ n \in 0 .. Len(log')  BY <1>2
  <2>3. Disposition(SubSeq(log', 1, n), e) = "approve" /\ FoundBy(log', e, n)
    BY <1>1, <1>3, <2>1, <2>2
  <2>. QED  BY <2>2, <2>3 DEF ApprovedBy
<1>. QED  BY <1>1, <1>3, <1>4

LEMMA JustifiedLines ==
  ApplyWasJustified <=>
    \A i \in 1 .. Len(log) :
      log[i].kind = "version" /\ log[i].of # 0 => ApprovedBy(log, log[i].of, i - 1)
BY DEF ApplyWasJustified, ApprovedBy, FoundBy, Found, Prefix

LEMMA JustifiedStays ==
  ASSUME log \in Seq(Line), NEW job, Justified(job),
         UNCHANGED log \/ \E x \in Line : log' = Append(log, x)
  PROVE  Justified(job)'
<1>1. Len(log) \in 0 .. Len(log)  BY LenProperties
<1>2. \A e : /\ FoundBy(log, e, Len(log)) => FoundBy(log', e, Len(log'))
             /\ ApprovedBy(log, e, Len(log)) => ApprovedBy(log', e, Len(log'))
  BY <1>1, LookedUp
<1>. QED  BY <1>2 DEF Justified

----------------------------------------------------------------------------
(* A step that appends nothing: one process takes up another job *)

Moves(p, job) == /\ GoodJob(job) /\ Justified(job)
                 /\ proc' = [proc EXCEPT ![p] = job] /\ UNCHANGED log

LEMMA MoveKeepsChecks ==
  ASSUME Inv, NEW p \in Procs, NEW job, Moves(p, job)
  PROVE  /\ proc' \in [Procs -> Job] /\ \A q \in Procs : GoodJob(proc[q])'
         /\ Checked' /\ ApplyWasJustified'
         /\ proc'[p] = job /\ \A q \in Procs : q # p => proc'[q] = proc[q]
<1>1. /\ proc' \in [Procs -> Job] /\ proc'[p] = job
      /\ \A q \in Procs : q # p => proc'[q] = proc[q]
  BY DEF Moves, Inv, Typed, GoodJob
<1>2. ASSUME NEW q \in Procs PROVE GoodJob(proc[q])' /\ Justified(proc[q])'
  <2>1. GoodJob(proc'[q]) /\ Justified(proc'[q])
    BY <1>1 DEF Moves, Inv, Typed, Checked
  <2>2. UNCHANGED log  BY DEF Moves
  <2>. QED  BY <2>1, <2>2 DEF GoodJob, Justified
<1>3. ApplyWasJustified'
  BY DEF Moves, Inv, ApplyWasJustified, Prefix
<1>. QED  BY <1>1, <1>2, <1>3 DEF Checked

(* No place is taken that was not free *)
LEMMA MoveKeepsRoom ==
  ASSUME Inv, NEW p \in Procs, NEW job, Moves(p, job),
         \A k \in Ids :
           /\ job.evt.kind = "version" /\ job.evt.of = k /\ job.pc \in Changing \cup {"approval"} =>
                p \in Applying(k) \/ ~AlreadyApplied(log, k)
           /\ job.evt.kind = "proposal" /\ job.evt.of = k /\ job.pc = "append" =>
                p \in Converting(k) \/ ~ProposalExists(log, k)
  PROVE  Room'
<1> SUFFICES ASSUME NEW k \in Ids
             PROVE  /\ Cardinality(Applies(log, k)) + Cardinality(Applying(k)') <= Cardinality(Procs)
                    /\ Cardinality(Conversions(log, k)) + Cardinality(Converting(k)') <= Cardinality(Procs)
  BY DEF Room, Moves
<1>1. /\ Applying(k) \subseteq Procs /\ Applying(k)' \subseteq Procs
      /\ Converting(k) \subseteq Procs /\ Converting(k)' \subseteq Procs
  BY DEF Applying, Converting
<1>2. /\ Cardinality(Applies(log, k)) + Cardinality(Applying(k)) <= Cardinality(Procs)
      /\ Cardinality(Conversions(log, k)) + Cardinality(Converting(k)) <= Cardinality(Procs)
  BY DEF Inv, Room
<1>3. IsFiniteSet(Applies(log, k)) /\ IsFiniteSet(Conversions(log, k))
  BY LinesFinite DEF Inv, Typed
<1>4. proc'[p] = job /\ \A q \in Procs : q # p => proc'[q] = proc[q]
  BY MoveKeepsChecks
<1>5. Applying(k)' \subseteq Applying(k) \/ Applies(log, k) = {}
  BY <1>4 DEF Applying, AlreadyApplied
<1>6. Converting(k)' \subseteq Converting(k) \/ Conversions(log, k) = {}
  BY <1>4 DEF Converting, ProposalExists
<1>7. Cardinality(Applies(log, k)) + Cardinality(Applying(k)') <= Cardinality(Procs)
  BY <1>1, <1>2, <1>3, <1>5, NoNewPlace
<1>8. Cardinality(Conversions(log, k)) + Cardinality(Converting(k)') <= Cardinality(Procs)
  BY <1>1, <1>2, <1>3, <1>6, NoNewPlace
<1>. QED  BY <1>7, <1>8

(* Audit records are counted as lost only when their operation ends early *)
LEMMA AuditsStay ==
  ASSUME Numbered, ReviewsAudited, abandons \in Nat, Lost' \subseteq Lost, UNCHANGED abandons,
         Said' \subseteq audit'
  PROVE  ReviewsAudited'
<1>1. IsFiniteSet(Lost)  BY FS_Subset DEF Lost, Numbered
<1>2. Cardinality(Lost) <= abandons  BY DEF ReviewsAudited, Lost, Said, Coming, Record
<1>3. Cardinality(Lost') <= Cardinality(Lost) /\ Cardinality(Lost') \in Nat /\ Cardinality(Lost) \in Nat
  BY <1>1, FS_Subset, FS_CardinalityType
<1>4. Cardinality(Lost') <= abandons'  BY <1>2, <1>3
<1>. QED  BY <1>4 DEF ReviewsAudited, Lost, Said, Coming, Record

(* A step that neither announces nor appends a review nor ends one *)
Steady(p, job) ==
  /\ proc[p].pc # "append"
  /\ job.pc # "idle" => \/ Active(p) /\ job.evt.id = proc[p].evt.id
                        \/ job.evt.id = next /\ next' = next + 1
  /\ job.pc = "append" => job.evt.kind # "review"
  /\ next' \in {next, next + 1} /\ UNCHANGED <<audit, abandons>>

LEMMA MoveKeepsNumbers ==
  ASSUME Inv, NEW p \in Procs, NEW job, Moves(p, job), Steady(p, job)
  PROVE  Numbered' /\ ReviewsAudited'
<1>1. proc'[p] = job /\ \A q \in Procs : q # p => proc'[q] = proc[q]
  BY MoveKeepsChecks
<1>2. next \in Nat /\ next' \in Nat /\ next <= next' /\ UNCHANGED <<log, audit, abandons>>
  BY DEF Steady, Moves, Inv, Typed
<1>3. \A q \in Procs : Active(q) => proc[q].evt.id \in Nat /\ proc[q].evt.id < next
  BY DEF Inv, Typed, GoodJob, Line, Active, Numbered
<1>4. \A a \in audit : a.id \in Nat /\ a.id < next  BY DEF Inv, Numbered
<1>5. job.pc # "idle" =>
        /\ job.evt.id < next'
        /\ \A q \in Procs : q # p /\ Active(q) => proc[q].evt.id # job.evt.id
        /\ \A a \in audit : a.id # job.evt.id
  <2>1. CASE Active(p) /\ job.evt.id = proc[p].evt.id
    BY <1>2, <1>3, <2>1 DEF Steady, Inv, Numbered
  <2>2. CASE job.evt.id = next /\ next' = next + 1
    BY <1>2, <1>3, <1>4, <2>2
  <2>. QED  BY <2>1, <2>2 DEF Steady
<1>6. ASSUME NEW q \in Procs, Active(q)'
      PROVE  /\ proc'[q].evt.id < next'
             /\ \A r \in Procs : Active(r)' /\ proc'[r].evt.id = proc'[q].evt.id => r = q
             /\ \A a \in audit' : a.id = proc'[q].evt.id =>
                  proc'[q].pc = "append" /\ proc'[q].evt.kind = "review" /\ a = Record(proc'[q].evt)
             /\ proc'[q].pc = "append" /\ proc'[q].evt.kind = "review" => Record(proc'[q].evt) \in audit'
  <2>1. CASE q = p
    BY <1>1, <1>2, <1>5, <1>6, <2>1 DEF Active, Steady
  <2>2. CASE q # p
    <3>1. proc'[q] = proc[q] /\ Active(q)  BY <1>1, <1>6, <2>2 DEF Active
    <3>2. \A r \in Procs : Active(r)' /\ proc'[r].evt.id = proc'[q].evt.id => r = q
      BY <1>1, <1>5, <3>1 DEF Active, Inv, Numbered
    <3>3. proc'[q].evt.id < next'  BY <1>2, <1>3, <3>1
    <3>. QED  BY <1>2, <3>1, <3>2, <3>3 DEF Inv, Numbered
  <2>. QED  BY <2>1, <2>2
<1>7. \A a \in audit' : a.id \in Nat /\ a.id < next'  BY <1>2, <1>4
<1>8. Numbered'  BY <1>2, <1>6, <1>7 DEF Inv, Numbered
<1>9. Lost' \subseteq Lost /\ Said' = Said
  <2>1. Coming \subseteq Coming'  BY <1>1, <1>2 DEF Coming, Steady
  <2>. QED  BY <1>2, <2>1 DEF Lost, Said
<1>10. Said \subseteq audit  BY DEF Inv, ReviewsAudited, Said, Record
<1>. QED  BY <1>2, <1>8, <1>9, <1>10, AuditsStay DEF Inv, Typed

LEMMA MoveKeeps ==
  ASSUME Inv, NEW p \in Procs, NEW job, Moves(p, job), Steady(p, job),
         index' \in [Targets -> Nat], GoodPlans(plans'),
         \A k \in Ids :
           /\ job.evt.kind = "version" /\ job.evt.of = k /\ job.pc \in Changing \cup {"approval"} =>
                p \in Applying(k) \/ ~AlreadyApplied(log, k)
           /\ job.evt.kind = "proposal" /\ job.evt.of = k /\ job.pc = "append" =>
                p \in Converting(k) \/ ~ProposalExists(log, k)
  PROVE  Inv'
<1>1. log' \in Seq(Line) /\ next' \in Nat /\ abandons' \in Nat
  BY DEF Moves, Steady, Inv, Typed
<1>2. Typed' /\ Checked' /\ ApplyWasJustified'
  BY <1>1, MoveKeepsChecks DEF Typed
<1>3. Room'  BY MoveKeepsRoom
<1>4. Numbered' /\ ReviewsAudited'  BY MoveKeepsNumbers
<1>. QED  BY <1>2, <1>3, <1>4 DEF Inv

----------------------------------------------------------------------------
(* The beginning of an operation *)

LEMMA BeginKeeps ==
  ASSUME Inv, NEW p \in Procs, NEW o, NEW where \in {"idle", "append", "exists", "audit", "approval", "reread", "load"},
         NEW e \in Line \cup {NoEvent}, Begin(p, o, where, e),
         GoodPlans(plans'),
         where # "idle" => e \in Line /\ e.id = next,
         where = "append" => e.kind # "review",
         where = "audit" => e.kind = "review",
         where = "exists" => e.kind = "proposal",
         where \in {"approval", "reread", "load"} => e.kind = "version",
         e.kind = "version" /\ e.of # 0 =>
           where = "approval" /\ FoundBy(log, e.of, Len(log)) /\ ~AlreadyApplied(log, e.of),
         e.kind = "proposal" /\ where = "append" => e.of = 0
  PROVE  Inv'
<1> DEFINE job == [Idle EXCEPT !.pc = where, !.evt = e]
<1>1. job \in Job /\ job.pc = where /\ job.evt = e /\ job.seen = 0
  BY DEF Idle, Job, Places
<1>2. /\ proc[p].pc = "idle" /\ proc' = [proc EXCEPT ![p] = job] /\ next' = next + 1
      /\ UNCHANGED <<log, index, audit, abandons>>
  BY DEF Begin
<1> HIDE DEF job
<1>3. GoodJob(job)
  <2>1. Len(log) \in Nat  BY LenProperties DEF Inv, Typed
  <2>. QED  BY <1>1, <2>1 DEF GoodJob
<1>4. Justified(job)  BY <1>1 DEF Justified, Changing
<1>5. Moves(p, job)  BY <1>2, <1>3, <1>4 DEF Moves
<1>6. Steady(p, job)  BY <1>1, <1>2 DEF Steady
<1>7. \A k \in Ids :
        /\ job.evt.kind = "version" /\ job.evt.of = k /\ job.pc \in Changing \cup {"approval"} =>
             p \in Applying(k) \/ ~AlreadyApplied(log, k)
        /\ job.evt.kind = "proposal" /\ job.evt.of = k /\ job.pc = "append" =>
             p \in Converting(k) \/ ~ProposalExists(log, k)
  <2>1. \A k \in Ids : k # 0  BY BoundAssumption DEF Ids
  <2>. QED  BY <1>1, <2>1
<1>8. index' \in [Targets -> Nat]  BY <1>2 DEF Inv, Typed
<1>. QED  BY <1>5, <1>6, <1>7, <1>8, MoveKeeps

LEMMA NewLine ==
  ASSUME next \in Nat, NEW kind \in {"proposal", "review", "version", "plan"}, NEW t \in Targets
  PROVE  /\ New(kind, t) \in Line
         /\ New(kind, t).kind = kind /\ New(kind, t).id = next /\ New(kind, t).of = 0
BY DEF New, NoEvent, Line

LEMMA BeginOpKeeps ==
  ASSUME Inv, NEW p \in Procs, BeginOp(p)
  PROVE  Inv'
<1>0. next \in Nat /\ GoodPlans(plans) /\ log \in Seq(Line) /\ Len(log) \in Nat
  BY LenProperties DEF Inv, Typed
<1>1. CASE BeginPropose(p)
  <2>1. PICK t \in Targets : Begin(p, "propose", "append", New("proposal", t))
    BY <1>1 DEF BeginPropose
  <2> DEFINE e == New("proposal", t)
  <2>2. e \in Line /\ e.id = next /\ e.kind = "proposal" /\ e.of = 0
    BY <1>0, NewLine
  <2>3. GoodPlans(plans')  BY <1>0, <1>1 DEF BeginPropose
  <2> HIDE DEF e
  <2>. QED  BY <2>1, <2>2, <2>3, BeginKeeps DEF e
<1>2. CASE BuildPlan(p)
  <2>1. "artifact" \in Targets /\ index["artifact"] \in Nat
    BY <1>2 DEF BuildPlan, Inv, Typed
  <2>2. GoodPlans(plans')  BY <1>0, <1>2, <2>1 DEF BuildPlan, GoodPlans
  <2> DEFINE e == [New("plan", "artifact") EXCEPT !.base = index["artifact"]]
  <2>3. e \in Line /\ e.id = next /\ e.kind = "plan"
    <3>1. New("plan", "artifact") \in Line /\ New("plan", "artifact").id = next
          /\ New("plan", "artifact").kind = "plan"
      BY <1>0, <2>1, NewLine
    <3>. QED  BY <2>1, <3>1 DEF Line
  <2> HIDE DEF e
  <2>4. CASE Begin(p, "plan", "append", e)
    BY <2>2, <2>3, <2>4, BeginKeeps
  <2>5. CASE Begin(p, "plan", "idle", NoEvent)
    <3>1. NoEvent.kind = "plan"  BY DEF NoEvent
    <3>. QED  BY <2>2, <2>5, <3>1, BeginKeeps
  <2>. QED  BY <1>2, <2>4, <2>5 DEF BuildPlan, e
<1>3. CASE BeginConvert(p)
  <2> DEFINE e(pl) == [New("proposal", "artifact") EXCEPT !.of = pl.id, !.base = pl.base]
  <2>1. PICK pl \in plans : Begin(p, "convert", "exists", e(pl))
    BY <1>3 DEF BeginConvert
  <2>2. pl.id \in Nat /\ pl.base \in Nat /\ "artifact" \in Targets  BY <1>0 DEF GoodPlans
  <2>3. GoodPlans(plans')  BY <1>0, <1>3 DEF BeginConvert
  <2>4. e(pl) \in Line /\ e(pl).id = next /\ e(pl).kind = "proposal"
    <3>1. New("proposal", "artifact") \in Line /\ New("proposal", "artifact").id = next
          /\ New("proposal", "artifact").kind = "proposal"
      BY <1>0, <2>2, NewLine
    <3>. QED  BY <2>2, <3>1 DEF Line
  <2> HIDE DEF e
  <2>. QED  BY <2>1, <2>3, <2>4, BeginKeeps
<1>4. ASSUME NEW x \in Proposals(log) PROVE x \in Line
  BY <1>0, <1>4 DEF Proposals
<1>5. CASE BeginReview(p)
  <2> DEFINE e(x, d) == [New("review", x.target) EXCEPT !.of = x.id, !.disp = d]
  <2>1. PICK x \in Proposals(log), d \in Dispositions : Begin(p, "review", "audit", e(x, d))
    BY <1>5 DEF BeginReview
  <2>2. x.id \in Nat /\ x.target \in Targets  BY <1>4 DEF Line
  <2>3. e(x, d) \in Line /\ e(x, d).id = next /\ e(x, d).kind = "review"
    <3>1. New("review", x.target) \in Line /\ New("review", x.target).id = next
          /\ New("review", x.target).kind = "review"
      BY <1>0, <2>2, NewLine
    <3>. QED  BY <2>2, <3>1 DEF Line
  <2>4. GoodPlans(plans')  BY <1>0, <1>5 DEF BeginReview
  <2> HIDE DEF e
  <2>. QED  BY <2>1, <2>3, <2>4, BeginKeeps
<1>6. CASE BeginUiReview(p)
  <2> DEFINE e(x, d) == [New("review", x.target) EXCEPT !.of = x.id, !.disp = d, !.ui = TRUE]
  <2>1. PICK x \in Proposals(log), d \in Dispositions : Begin(p, "ui_review", "audit", e(x, d))
    BY <1>6 DEF BeginUiReview
  <2>2. x.id \in Nat /\ x.target \in Targets  BY <1>4 DEF Line
  <2>3. e(x, d) \in Line /\ e(x, d).id = next /\ e(x, d).kind = "review"
    <3>1. New("review", x.target) \in Line /\ New("review", x.target).id = next
          /\ New("review", x.target).kind = "review"
      BY <1>0, <2>2, NewLine
    <3>. QED  BY <2>2, <3>1 DEF Line
  <2>4. GoodPlans(plans')  BY <1>0, <1>6 DEF BeginUiReview
  <2> HIDE DEF e
  <2>. QED  BY <2>1, <2>3, <2>4, BeginKeeps
<1>7. CASE BeginApply(p)
  <2> DEFINE e(x) == [New("version", x.target) EXCEPT !.of = x.id]
  <2>1. PICK x \in Proposals(log) :
          ~AlreadyApplied(log, x.id) /\ Begin(p, "apply", "approval", e(x))
    BY <1>7 DEF BeginApply
  <2>2. x.id \in Nat /\ x.target \in Targets  BY <1>4 DEF Line
  <2>3. e(x) \in Line /\ e(x).id = next /\ e(x).kind = "version" /\ e(x).of = x.id
    <3>1. New("version", x.target) \in Line /\ New("version", x.target).id = next
          /\ New("version", x.target).kind = "version"
      BY <1>0, <2>2, NewLine
    <3>. QED  BY <2>2, <3>1 DEF Line
  <2>4. GoodPlans(plans')  BY <1>0, <1>7 DEF BeginApply
  <2>5. FoundBy(log, x.id, Len(log))
    <3>1. Found(log, x.id, Len(log))  BY <1>0, <2>1, WholePrefix DEF Found
    <3>2. Len(log) \in 0 .. Len(log)  BY <1>0
    <3>. QED  BY <3>1, <3>2 DEF FoundBy
  <2> HIDE DEF e
  <2>. QED  BY <2>1, <2>3, <2>4, <2>5, BeginKeeps
<1>8. CASE BeginUpdate(p)
  <2>1. PICK t \in Targets : Begin(p, "update", Change(t), New("version", t))
    BY <1>8 DEF BeginUpdate
  <2> DEFINE e == New("version", t)
  <2>2. e \in Line /\ e.id = next /\ e.kind = "version" /\ e.of = 0
    BY <1>0, NewLine
  <2>3. GoodPlans(plans')  BY <1>0, <1>8 DEF BeginUpdate
  <2>4. Change(t) \in {"reread", "load"}  BY DEF Change
  <2>5. Begin(p, "update", Change(t), e)  BY <2>1
  <2> HIDE DEF e
  <2>. QED  BY <2>2, <2>3, <2>4, <2>5, BeginKeeps
<1>. QED  BY <1>1, <1>2, <1>3, <1>5, <1>6, <1>7, <1>8 DEF BeginOp

----------------------------------------------------------------------------
(* The steps of an operation *)

LEMMA IdleIsGood ==
  ASSUME log \in Seq(Line)
  PROVE  Idle \in Job /\ Idle.pc = "idle" /\ GoodJob(Idle) /\ Justified(Idle)
<1>1. Len(log) \in Nat  BY LenProperties
<1>2. Idle \in Job /\ Idle.pc = "idle" /\ Idle.seen = 0
  BY DEF Idle, Job, Places
<1>. QED  BY <1>1, <1>2 DEF GoodJob, Justified, Changing

(* An operation that ends without an event of its own *)
LEMMA EndKeeps ==
  ASSUME Inv, NEW p \in Procs, proc[p].pc # "append", proc' = [proc EXCEPT ![p] = Idle],
         index' \in [Targets -> Nat], UNCHANGED <<log, audit, plans, next, abandons>>
  PROVE  Inv'
<1>1. Idle.pc = "idle" /\ GoodJob(Idle) /\ Justified(Idle)
  BY IdleIsGood DEF Inv, Typed
<1>2. Moves(p, Idle)  BY <1>1 DEF Moves
<1>3. Steady(p, Idle)  BY <1>1 DEF Steady
<1>4. GoodPlans(plans')  BY DEF Inv, Typed
<1>. QED  BY <1>1, <1>2, <1>3, <1>4, MoveKeeps DEF Changing

(* An operation that goes on with its event *)
LEMMA GoesOn ==
  ASSUME Inv, NEW p \in Procs, Active(p), proc[p].pc # "append",
         NEW job, GoodJob(job), Justified(job), proc' = [proc EXCEPT ![p] = job],
         job.evt.id = proc[p].evt.id, job.evt.kind = proc[p].evt.kind, job.evt.of = proc[p].evt.of,
         job.pc = "append" => /\ job.evt.kind # "review"
                              /\ job.evt.kind = "proposal" => ~ProposalExists(log, job.evt.of),
         job.evt.kind = "version" /\ job.pc \in Changing \cup {"approval"} =>
           proc[p].pc \in Changing \cup {"approval"},
         index' \in [Targets -> Nat], UNCHANGED <<log, audit, plans, next, abandons>>
  PROVE  Inv'
<1>1. Moves(p, job) /\ Steady(p, job)  BY DEF Moves, Steady
<1>2. \A k \in Ids :
        /\ job.evt.kind = "version" /\ job.evt.of = k /\ job.pc \in Changing \cup {"approval"} =>
             p \in Applying(k) \/ ~AlreadyApplied(log, k)
        /\ job.evt.kind = "proposal" /\ job.evt.of = k /\ job.pc = "append" =>
             p \in Converting(k) \/ ~ProposalExists(log, k)
  BY DEF Applying
<1>3. GoodPlans(plans')  BY DEF Inv, Typed
<1>. QED  BY <1>1, <1>2, <1>3, MoveKeeps

LEMMA CheckConvertedKeeps ==
  ASSUME Inv, NEW p \in Procs, CheckConverted(p)
  PROVE  Inv'
<1> DEFINE job == [proc[p] EXCEPT !.pc = "append"]
<1>1. /\ proc[p].pc = "exists" /\ UNCHANGED <<log, index, audit, plans, next, abandons>>
      /\ index' \in [Targets -> Nat] /\ GoodJob(proc[p]) /\ proc[p] \in Job
  BY DEF CheckConverted, Inv, Typed
<1>2. CASE ProposalExists(log, proc[p].evt.of)
  <2>1. proc' = [proc EXCEPT ![p] = Idle]  BY <1>2 DEF CheckConverted, Goto
  <2>. QED  BY <1>1, <2>1, EndKeeps
<1>3. CASE ~ProposalExists(log, proc[p].evt.of)
  <2>1. proc' = [proc EXCEPT ![p] = job]  BY <1>3 DEF CheckConverted, Goto
  <2>2. job \in Job /\ job.pc = "append" /\ job.evt = proc[p].evt /\ job.seen = proc[p].seen
    BY <1>1 DEF Job, Places
  <2> HIDE DEF job
  <2>3. GoodJob(job) /\ job.evt.kind = "proposal"  BY <1>1, <2>2 DEF GoodJob
  <2>4. Justified(job)  BY <2>3 DEF Justified
  <2>. QED  BY <1>1, <1>3, <2>1, <2>2, <2>3, <2>4, GoesOn DEF Active
<1>. QED  BY <1>2, <1>3

LEMMA CheckApprovalKeeps ==
  ASSUME Inv, NEW p \in Procs, CheckApproval(p)
  PROVE  Inv'
<1> DEFINE e == proc[p].evt
           job == [proc[p] EXCEPT !.pc = Change(e.target)]
<1>1. /\ proc[p].pc = "approval" /\ UNCHANGED <<log, index, audit, plans, next, abandons>>
      /\ index' \in [Targets -> Nat] /\ GoodJob(proc[p]) /\ proc[p] \in Job /\ e.kind = "version"
  BY DEF CheckApproval, Inv, Typed, GoodJob
<1>2. CASE Disposition(log, e.of) # "approve"
  <2>1. proc' = [proc EXCEPT ![p] = Idle]  BY <1>2 DEF CheckApproval, Goto
  <2>. QED  BY <1>1, <2>1, EndKeeps
<1>3. CASE Disposition(log, e.of) = "approve"
  <2>0. Change(e.target) \in {"reread", "load"}  BY DEF Change
  <2>1. proc' = [proc EXCEPT ![p] = job]  BY <1>3, <2>0 DEF CheckApproval, Goto
  <2>2. job \in Job /\ job.pc \in {"reread", "load"} /\ job.evt = e /\ job.seen = proc[p].seen
    BY <1>1, <2>0 DEF Job, Places
  <2> HIDE DEF job
  <2>3. GoodJob(job)  BY <1>1, <2>2 DEF GoodJob
  <2>4. Justified(job)
    <3>1. e.of # 0 => FoundBy(log, e.of, Len(log))
      BY <1>1 DEF Inv, Checked, Justified
    <3>2. Len(log) \in 0 .. Len(log) /\ Disposition(SubSeq(log, 1, Len(log)), e.of) = "approve"
      <4>1. log \in Seq(Line)  BY DEF Inv, Typed
      <4>2. Len(log) \in Nat /\ SubSeq(log, 1, Len(log)) = log
        BY <4>1, WholePrefix, LenProperties
      <4>3. Len(log) \in 0 .. Len(log)  BY <4>2
      <4>4. Disposition(SubSeq(log, 1, Len(log)), e.of) = "approve"  BY <1>3, <4>2, Zenon
      <4>. QED  BY <4>3, <4>4
    <3>3. e.of # 0 => ApprovedBy(log, e.of, Len(log))  BY <3>1, <3>2 DEF ApprovedBy
    <3>. QED  BY <2>2, <3>3 DEF Justified
  <2>. QED  BY <1>1, <2>1, <2>2, <2>3, <2>4, GoesOn DEF Active, Changing
<1>. QED  BY <1>2, <1>3

LEMMA LoadTargetKeeps ==
  ASSUME Inv, NEW p \in Procs, LoadTarget(p)
  PROVE  Inv'
<1> DEFINE e == proc[p].evt
           b == index[e.target]
           job == [proc[p] EXCEPT !.pc = "append", !.evt = [e EXCEPT !.base = b]]
<1>1. /\ proc[p].pc = "load" /\ UNCHANGED <<log, index, audit, plans, next, abandons>>
      /\ index' \in [Targets -> Nat] /\ GoodJob(proc[p]) /\ proc[p] \in Job
      /\ e.kind = "version" /\ e \in Line
  BY DEF LoadTarget, Inv, Typed, GoodJob
<1>2. b \in Nat  BY <1>1 DEF Line, Inv, Typed
<1>3. /\ [e EXCEPT !.base = b] \in Line /\ [e EXCEPT !.base = b].kind = "version"
      /\ [e EXCEPT !.base = b].id = e.id /\ [e EXCEPT !.base = b].of = e.of
  BY <1>1, <1>2 DEF Line
<1>4. proc' = [proc EXCEPT ![p] = job]
  BY <1>1 DEF LoadTarget
<1>5. job \in Job /\ job.pc = "append" /\ job.seen = proc[p].seen /\ job.evt = [e EXCEPT !.base = b]
  BY <1>1, <1>3 DEF Job, Places
<1> HIDE DEF job
<1>6. GoodJob(job)  BY <1>1, <1>3, <1>5 DEF GoodJob
<1>7. Justified(job)
  <2>1. e.of # 0 => ApprovedBy(log, e.of, Len(log))
    BY <1>1 DEF Inv, Checked, Justified, Changing
  <2>. QED  BY <1>3, <1>5, <2>1 DEF Justified
<1>. QED  BY <1>1, <1>3, <1>4, <1>5, <1>6, <1>7, GoesOn DEF Active, Changing

LEMMA ReadLogKeeps ==
  ASSUME Inv, NEW p \in Procs, ReadLog(p)
  PROVE  Inv'
<1> DEFINE e == proc[p].evt
           where == Following[proc[p].pc]
           job == [proc[p] EXCEPT !.pc = where, !.seen = Len(log)]
<1>1. /\ proc[p].pc \in {"reread", "read"} /\ UNCHANGED <<log, index, audit, plans, next, abandons>>
      /\ index' \in [Targets -> Nat] /\ GoodJob(proc[p]) /\ proc[p] \in Job
      /\ e \in Line /\ Len(log) \in Nat
  BY LenProperties DEF ReadLog, Inv, Typed, GoodJob
<1>2. (proc[p].pc = "reread" => where = "resave") /\ (proc[p].pc = "read" => where = "save")
  BY DEF Following
<1>3. proc' = [proc EXCEPT ![p] = job]
  BY <1>1 DEF ReadLog
<1>4. job \in Job /\ job.pc = where /\ job.seen = Len(log) /\ job.evt = e
  BY <1>1, <1>2 DEF Job, Places
<1> HIDE DEF job, where
<1>5. GoodJob(job)  BY <1>1, <1>2, <1>4 DEF GoodJob
<1>6. Justified(job)
  <2>1. e.kind = "version" /\ e.of # 0 /\ proc[p].pc = "reread" => ApprovedBy(log, e.of, Len(log))
    BY DEF Inv, Checked, Justified, Changing
  <2>. QED  BY <1>1, <1>2, <1>4, <2>1 DEF Justified, Changing
<1>. QED  BY <1>1, <1>2, <1>3, <1>4, <1>5, <1>6, GoesOn DEF Active, Changing

(* An index built from lines of the log shows versions of the log *)
LEMMA VersionsAreNumbers ==
  ASSUME log \in Seq(Line), NEW n \in 0 .. Len(log), NEW t
  PROVE  CurrentVersion(SubSeq(log, 1, n), t) \in Nat
<1> DEFINE lines == SubSeq(log, 1, n)
           is == {i \in 1 .. Len(lines) : lines[i].kind = "version" /\ lines[i].target = t}
<1>1. Len(log) \in Nat /\ \A i \in 1 .. n : log[i] \in Line  BY LenProperties
<1>2. lines \in Seq(Line)  BY <1>1, SubSeqProperties
<1>3. Len(lines) \in Nat /\ \A i \in 1 .. Len(lines) : lines[i] \in Line  BY <1>2, LenProperties
<1> HIDE DEF lines
<1>4. is # {} => Last(is) \in is  BY <1>3, Greatest
<1>5. is # {} => lines[Last(is)].id \in Nat  BY <1>3, <1>4 DEF Line
<1>. QED  BY <1>5 DEF CurrentVersion, lines

LEMMA SaveIndexKeeps ==
  ASSUME Inv, NEW p \in Procs, SaveIndex(p)
  PROVE  Inv'
<1> DEFINE e == proc[p].evt
           job == [proc[p] EXCEPT !.pc = "load"]
<1>1. /\ proc[p].pc \in {"resave", "save"} /\ UNCHANGED <<log, audit, plans, next, abandons>>
      /\ GoodJob(proc[p]) /\ proc[p] \in Job /\ e \in Line /\ log \in Seq(Line)
  BY DEF SaveIndex, Inv, Typed, GoodJob
<1>2. index' \in [Targets -> Nat]
  <2>1. proc[p].seen \in 0 .. Len(log)  BY <1>1, LenProperties DEF GoodJob, Job
  <2>2. \A t \in Targets : CurrentVersion(SubSeq(log, 1, proc[p].seen), t) \in Nat
    BY <1>1, <2>1, VersionsAreNumbers
  <2>. QED  BY <2>2 DEF SaveIndex
<1>3. CASE proc[p].pc = "save"
  <2>1. proc' = [proc EXCEPT ![p] = Idle]  BY <1>3 DEF SaveIndex, Goto, Following
  <2>. QED  BY <1>1, <1>2, <1>3, <2>1, EndKeeps
<1>4. CASE proc[p].pc = "resave"
  <2>1. proc' = [proc EXCEPT ![p] = job]  BY <1>4 DEF SaveIndex, Goto, Following
  <2>2. job \in Job /\ job.pc = "load" /\ job.evt = e /\ job.seen = proc[p].seen
    BY <1>1 DEF Job, Places
  <2> HIDE DEF job
  <2>3. GoodJob(job)  BY <1>1, <1>4, <2>2 DEF GoodJob
  <2>4. Justified(job)
    <3>1. e.kind = "version" /\ e.of # 0 => ApprovedBy(log, e.of, Len(log))
      BY <1>4 DEF Inv, Checked, Justified, Changing
    <3>. QED  BY <2>2, <3>1 DEF Justified
  <2>. QED  BY <1>1, <1>2, <1>4, <2>1, <2>2, <2>3, <2>4, GoesOn DEF Active, Changing
<1>. QED  BY <1>1, <1>3, <1>4

(* An operation that ends without its event leaves at most its own record *)
LEMMA AbandonKeeps ==
  ASSUME Inv, NEW p \in Procs, Abandon(p)
  PROVE  Inv'
<1>1. /\ proc' = [proc EXCEPT ![p] = Idle] /\ abandons' = abandons + 1
      /\ UNCHANGED <<log, index, audit, plans, next>> /\ Active(p)
  BY DEF Abandon, Goto, Active
<1>2. Idle.pc = "idle" /\ Moves(p, Idle)
  BY <1>1, IdleIsGood DEF Inv, Typed, Moves
<1>3. /\ proc' \in [Procs -> Job] /\ \A q \in Procs : GoodJob(proc[q])'
      /\ Checked' /\ ApplyWasJustified'
      /\ proc'[p] = Idle /\ \A q \in Procs : q # p => proc'[q] = proc[q]
  BY <1>2, MoveKeepsChecks
<1>4. Room'  BY <1>2, MoveKeepsRoom DEF Changing
<1>5. Typed'  BY <1>1, <1>3 DEF Inv, Typed
<1>6. \A q \in Procs : Active(q)' => q # p /\ Active(q) /\ proc'[q] = proc[q]
  BY <1>2, <1>3 DEF Active
<1>7. Numbered'
  BY <1>1, <1>6 DEF Inv, Numbered
<1>8. Lost' \subseteq Lost \cup {Record(proc[p].evt)} /\ Said' = Said
  <2>1. ASSUME NEW a \in Coming, a \notin Coming' PROVE a = Record(proc[p].evt)
    <3>1. PICK q \in Procs : proc[q].pc = "append" /\ proc[q].evt.id = a.id
      BY <2>1 DEF Coming
    <3>2. q = p  BY <1>1, <1>3, <2>1, <3>1 DEF Coming
    <3>. QED  BY <1>1, <2>1, <3>1, <3>2 DEF Inv, Numbered, Coming
  <2>. QED  BY <1>1, <2>1 DEF Lost, Said
<1>9. ReviewsAudited'
  <2>1. IsFiniteSet(Lost) /\ Cardinality(Lost) <= abandons /\ Cardinality(Lost) \in Nat
    <3>1. IsFiniteSet(Lost)  BY FS_Subset DEF Lost, Inv, Numbered
    <3>2. Cardinality(Lost) <= abandons  BY DEF Inv, ReviewsAudited, Lost, Said, Coming, Record
    <3>. QED  BY <3>1, <3>2, FS_CardinalityType
  <2> DEFINE r == Record(proc[p].evt)
  <2> HIDE DEF r
  <2>2. /\ IsFiniteSet(Lost \cup {r})
        /\ Cardinality(Lost \cup {r}) \in {Cardinality(Lost), Cardinality(Lost) + 1}
    BY <2>1, FS_AddElement
  <2>3. Cardinality(Lost') <= Cardinality(Lost \cup {r}) /\ Cardinality(Lost') \in Nat
    BY <1>8, <2>2, FS_Subset, FS_CardinalityType DEF r
  <2>4. Cardinality(Lost') <= abandons'
    BY <1>1, <2>1, <2>2, <2>3 DEF Inv, Typed
  <2>5. Said' \subseteq audit'  BY <1>1, <1>8 DEF Inv, ReviewsAudited, Said, Record
  <2>. QED  BY <2>4, <2>5 DEF ReviewsAudited, Lost, Said, Coming, Record
<1>. QED  BY <1>3, <1>4, <1>5, <1>7, <1>9 DEF Inv

(* The record is announced by the process that is about to append its review *)
LEMMA RecordAuditKeeps ==
  ASSUME Inv, NEW p \in Procs, RecordAudit(p)
  PROVE  Inv'
<1> DEFINE e == proc[p].evt
           job == [proc[p] EXCEPT !.pc = "append"]
<1>1. /\ proc[p].pc = "audit" /\ UNCHANGED <<log, index, plans, next, abandons>>
      /\ audit' = audit \cup {Record(e)} /\ proc' = [proc EXCEPT ![p] = job]
      /\ GoodJob(proc[p]) /\ proc[p] \in Job /\ e \in Line /\ e.kind = "review"
  BY DEF RecordAudit, Goto, Record, Inv, Typed, GoodJob
<1>2. job \in Job /\ job.pc = "append" /\ job.evt = e /\ job.seen = proc[p].seen
  BY <1>1 DEF Job, Places
<1> HIDE DEF job
<1>3. Moves(p, job)
  <2>1. GoodJob(job)  BY <1>1, <1>2 DEF GoodJob
  <2>2. Justified(job)  BY <1>1, <1>2 DEF Justified
  <2>. QED  BY <1>1, <2>1, <2>2 DEF Moves
<1>4. /\ proc' \in [Procs -> Job] /\ \A q \in Procs : GoodJob(proc[q])'
      /\ Checked' /\ ApplyWasJustified'
      /\ proc'[p] = job /\ \A q \in Procs : q # p => proc'[q] = proc[q]
  BY <1>3, MoveKeepsChecks
<1>5. Typed'  BY <1>1, <1>4 DEF Inv, Typed
<1>6. Room'  BY <1>1, <1>2, <1>3, MoveKeepsRoom
<1>7. \A a \in audit : a.id # e.id
  BY <1>1 DEF Inv, Numbered, Active
<1>8. e.id \in Nat /\ e.id < next /\ Record(e).id = e.id
  BY <1>1 DEF Inv, Numbered, Active, Line, Record
<1>9. Numbered'
  <2>1. ASSUME NEW q \in Procs, Active(q)'
        PROVE  /\ Active(q) /\ proc'[q].evt = proc[q].evt /\ proc[q].evt.id < next
               /\ \A r \in Procs : Active(r)' /\ proc'[r].evt.id = proc'[q].evt.id => r = q
               /\ \A a \in audit' : a.id = proc'[q].evt.id =>
                    proc'[q].pc = "append" /\ proc'[q].evt.kind = "review" /\ a = Record(proc'[q].evt)
               /\ proc'[q].pc = "append" /\ proc'[q].evt.kind = "review" => Record(proc'[q].evt) \in audit'
    <3>1. /\ Active(q) /\ proc'[q].evt = proc[q].evt
          /\ \A r \in Procs : Active(r)' => Active(r) /\ proc'[r].evt = proc[r].evt
      BY <1>1, <1>2, <1>4, <2>1 DEF Active
    <3>2. \A r \in Procs : Active(r)' /\ proc'[r].evt.id = proc'[q].evt.id => r = q
      BY <3>1 DEF Inv, Numbered
    <3>3. CASE q = p
      BY <1>1, <1>2, <1>4, <1>7, <1>8, <3>1, <3>2, <3>3
    <3>4. CASE q # p
      <4>1. proc'[q] = proc[q]  BY <1>4, <3>4
      <4>2. proc[q].evt.id # e.id  BY <1>1, <3>1, <3>4 DEF Inv, Numbered, Active
      <4>. QED  BY <1>1, <1>8, <3>1, <3>2, <4>1, <4>2 DEF Inv, Numbered
    <3>. QED  BY <3>3, <3>4
  <2>2. IsFiniteSet(audit')  BY <1>1, FS_AddElement DEF Inv, Numbered
  <2>3. \A a \in audit' : a.id \in Nat /\ a.id < next'  BY <1>1, <1>8 DEF Inv, Numbered
  <2>4. next' = next  BY <1>1
  <2>. QED  BY <2>1, <2>2, <2>3, <2>4 DEF Numbered
<1>10. ReviewsAudited'
  <2>1. Said' = Said /\ Said \subseteq audit'
    BY <1>1 DEF Said, Inv, ReviewsAudited, Record
  <2>2. Coming \subseteq Coming'
    BY <1>1, <1>4 DEF Coming
  <2>3. Record(e) \in Coming'
    BY <1>1, <1>2, <1>4, <1>8 DEF Coming
  <2>4. Lost' \subseteq Lost  BY <1>1, <2>1, <2>2, <2>3 DEF Lost
  <2>. QED  BY <1>1, <2>1, <2>4, AuditsStay DEF Inv, Typed
<1>. QED  BY <1>4, <1>5, <1>6, <1>9, <1>10 DEF Inv

(* The event becomes a line: what was looked up for it is of the past *)
LEMMA AppendKeepsChecks ==
  ASSUME Inv, NEW p \in Procs, AppendEvent(p)
  PROVE  Typed' /\ Checked' /\ ApplyWasJustified'
<1> DEFINE e == proc[p].evt
           job == [proc[p] EXCEPT !.pc = "read"]
<1>1. /\ proc[p].pc = "append" /\ UNCHANGED <<index, audit, plans, next, abandons>>
      /\ log' = Append(log, e) /\ GoodJob(proc[p]) /\ proc[p] \in Job /\ e \in Line
      /\ log \in Seq(Line)
  BY DEF AppendEvent, Inv, Typed, GoodJob
<1>2. /\ Len(log) \in Nat /\ Len(log') = Len(log) + 1 /\ log' \in Seq(Line)
      /\ \A i \in 1 .. Len(log) : i \in 1 .. Len(log') /\ log'[i] = log[i]
      /\ \A i \in 1 .. Len(log') : i \in 1 .. Len(log) \/ i = Len(log) + 1
      /\ log'[Len(log) + 1] = e
  BY <1>1, Growing
<1>3. job \in Job /\ job.pc = "read" /\ job.evt = e /\ job.seen = proc[p].seen
  BY <1>1 DEF Job, Places
<1>4. proc' = [proc EXCEPT ![p] = Idle] \/ proc' = [proc EXCEPT ![p] = job]
  BY DEF AppendEvent, Goto
<1> HIDE DEF job
<1>5. GoodJob(job) /\ GoodJob(Idle) /\ Justified(job) /\ Justified(Idle)
  <2>1. GoodJob(job)  BY <1>1, <1>3 DEF GoodJob
  <2>2. Justified(job)  BY <1>3 DEF Justified, Changing
  <2>. QED  BY <1>1, <2>1, <2>2, IdleIsGood
<1>6. /\ proc' \in [Procs -> Job]
      /\ \A q \in Procs : GoodJob(proc'[q]) /\ Justified(proc'[q])
  <2>1. job \in Job /\ Idle \in Job  BY <1>5 DEF GoodJob
  <2>2. \A q \in Procs : GoodJob(proc[q]) /\ Justified(proc[q])  BY DEF Inv, Typed, Checked
  <2>. QED  BY <1>4, <1>5, <2>1, <2>2 DEF Inv, Typed
<1>7. ASSUME NEW q \in Procs PROVE GoodJob(proc[q])' /\ Justified(proc[q])'
  <2>1. GoodJob(proc'[q]) /\ Justified(proc'[q])  BY <1>6
  <2>2. GoodJob(proc[q])'  BY <1>2, <2>1 DEF GoodJob, Job
  <2>3. ASSUME NEW x, Justified(x)
        PROVE /\ x.evt.kind = "version" /\ x.evt.of # 0 =>
                   /\ x.pc = "approval" => FoundBy(log', x.evt.of, Len(log'))
                   /\ x.pc \in Changing => ApprovedBy(log', x.evt.of, Len(log'))
    <3>1. Justified(x)'  BY <1>1, <2>3, JustifiedStays
    <3>2. Len(log) \in 0 .. Len(log)  BY <1>2
    <3>3. \A k : /\ FoundBy(log, k, Len(log)) => FoundBy(log', k, Len(log'))
                 /\ ApprovedBy(log, k, Len(log)) => ApprovedBy(log', k, Len(log'))
      BY <1>1, <3>2, LookedUp
    <3>. QED  BY <2>3, <3>3 DEF Justified
  <2>4. Justified(proc[q])'  BY <2>1, <2>3 DEF Justified
  <2>. QED  BY <2>2, <2>4
<1>8. Typed'  BY <1>1, <1>2, <1>6, <1>7 DEF Inv, Typed
<1>9. ASSUME NEW i \in 1 .. Len(log'), log'[i].kind = "version", log'[i].of # 0
      PROVE  ApprovedBy(log', log'[i].of, i - 1)
  <2>1. CASE i \in 1 .. Len(log)
    <3>1. ApprovedBy(log, log[i].of, i - 1)
      BY <1>2, <1>9, <2>1, JustifiedLines DEF Inv
    <3>2. i - 1 \in 0 .. Len(log)  BY <1>2, <2>1
    <3>. QED  BY <1>1, <1>2, <2>1, <3>1, <3>2, LookedUp
  <2>2. CASE i = Len(log) + 1
    <3>1. e.kind = "version" /\ e.of # 0 /\ i - 1 = Len(log)  BY <1>2, <1>9, <2>2
    <3>2. ApprovedBy(log, e.of, Len(log))
      BY <1>1, <3>1 DEF Inv, Checked, Justified, Changing
    <3>3. Len(log) \in 0 .. Len(log)  BY <1>2
    <3>. QED  BY <1>1, <1>2, <2>2, <3>1, <3>2, <3>3, LookedUp
  <2>. QED  BY <1>2, <2>1, <2>2
<1>10. ApplyWasJustified'
  BY <1>9 DEF ApplyWasJustified, ApprovedBy, FoundBy, Found, Prefix
<1>. QED  BY <1>7, <1>8, <1>10 DEF Checked

(* The place of the process becomes a line of its proposal or plan *)
LEMMA AppendKeepsRoom ==
  ASSUME Inv, NEW p \in Procs, AppendEvent(p)
  PROVE  Room'
<1> DEFINE e == proc[p].evt
<1>1. /\ proc[p].pc = "append" /\ proc'[p].pc \in {"idle", "read"} /\ log' = Append(log, e)
      /\ e \in Line /\ log \in Seq(Line)
      /\ \A q \in Procs : q # p => proc'[q] = proc[q]
  BY DEF AppendEvent, Goto, Idle, Inv, Typed, GoodJob, Job
<1>2. /\ Len(log) \in Nat /\ Len(log') = Len(log) + 1
      /\ \A i \in 1 .. Len(log) : i \in 1 .. Len(log') /\ log'[i] = log[i]
      /\ \A i \in 1 .. Len(log') : i \in 1 .. Len(log) \/ i = Len(log) + 1
      /\ log'[Len(log) + 1] = e /\ Len(log) + 1 \in 1 .. Len(log')
      /\ Len(log) + 1 \notin 1 .. Len(log)
  BY <1>1, Growing
<1> SUFFICES ASSUME NEW k \in Ids
             PROVE  /\ Cardinality(Applies(log', k)) + Cardinality(Applying(k)') <= Cardinality(Procs)
                    /\ Cardinality(Conversions(log', k)) + Cardinality(Converting(k)') <= Cardinality(Procs)
  BY DEF Room
<1>3. /\ Applying(k) \subseteq Procs /\ Converting(k) \subseteq Procs
      /\ Cardinality(Applies(log, k)) + Cardinality(Applying(k)) <= Cardinality(Procs)
      /\ Cardinality(Conversions(log, k)) + Cardinality(Converting(k)) <= Cardinality(Procs)
      /\ IsFiniteSet(Applies(log, k)) /\ IsFiniteSet(Conversions(log, k))
  BY <1>1, LinesFinite DEF Applying, Converting, Inv, Room
<1>4. Applying(k)' \subseteq Applying(k) \ {p} /\ Converting(k)' \subseteq Converting(k) \ {p}
  BY <1>1 DEF Applying, Converting, Changing
<1>5. Cardinality(Applies(log', k)) + Cardinality(Applying(k)') <= Cardinality(Procs)
  <2>1. CASE e.kind = "version" /\ e.of = k
    <3>1. Applies(log', k) = Applies(log, k) \cup {Len(log) + 1} /\ Len(log) + 1 \notin Applies(log, k)
      BY <1>2, <2>1 DEF Applies
    <3>2. p \in Applying(k)  BY <1>1, <2>1 DEF Applying, Changing
    <3>. QED  BY <1>3, <1>4, <3>1, <3>2, PlaceTaken
  <2>2. CASE ~(e.kind = "version" /\ e.of = k)
    <3>1. Applies(log', k) = Applies(log, k)  BY <1>2, <2>2 DEF Applies
    <3>2. Applying(k)' \subseteq Procs /\ Applying(k)' \subseteq Applying(k)  BY <1>3, <1>4
    <3>. QED  BY <1>3, <3>1, <3>2, NoNewPlace
  <2>. QED  BY <2>1, <2>2
<1>6. Cardinality(Conversions(log', k)) + Cardinality(Converting(k)') <= Cardinality(Procs)
  <2>1. CASE e.kind = "proposal" /\ e.of = k
    <3>1. /\ Conversions(log', k) = Conversions(log, k) \cup {Len(log) + 1}
          /\ Len(log) + 1 \notin Conversions(log, k)
      BY <1>2, <2>1 DEF Conversions
    <3>2. p \in Converting(k)  BY <1>1, <2>1 DEF Converting
    <3>. QED  BY <1>3, <1>4, <3>1, <3>2, PlaceTaken
  <2>2. CASE ~(e.kind = "proposal" /\ e.of = k)
    <3>1. Conversions(log', k) = Conversions(log, k)  BY <1>2, <2>2 DEF Conversions
    <3>2. Converting(k)' \subseteq Procs /\ Converting(k)' \subseteq Converting(k)  BY <1>3, <1>4
    <3>. QED  BY <1>3, <3>1, <3>2, NoNewPlace
  <2>. QED  BY <2>1, <2>2
<1>. QED  BY <1>5, <1>6

(* A review that is appended was announced, by its own record only *)
LEMMA AppendKeepsAudits ==
  ASSUME Inv, NEW p \in Procs, AppendEvent(p)
  PROVE  Numbered' /\ ReviewsAudited'
<1> DEFINE e == proc[p].evt
<1>1. /\ proc[p].pc = "append" /\ log' = Append(log, e) /\ UNCHANGED <<audit, next, abandons>>
      /\ e \in Line /\ log \in Seq(Line)
      /\ \/ proc'[p].pc = "idle"
         \/ proc'[p].pc = "read" /\ proc'[p].evt = e /\ e.kind # "review"
      /\ \A q \in Procs : q # p => proc'[q] = proc[q]
  <2>1. /\ proc[p].pc = "append" /\ log' = Append(log, e) /\ UNCHANGED <<audit, next, abandons>>
        /\ e \in Line /\ log \in Seq(Line) /\ proc[p] \in Job /\ proc \in [Procs -> Job]
    BY DEF AppendEvent, Inv, Typed, GoodJob
  <2>2. CASE e.kind = "review"
    <3>1. proc' = [proc EXCEPT ![p] = Idle]  BY <2>2 DEF AppendEvent, Goto
    <3>. QED  BY <2>1, <3>1 DEF Idle
  <2>3. CASE e.kind # "review"
    <3>1. proc' = [proc EXCEPT ![p] = [proc[p] EXCEPT !.pc = "read"]]
      BY <2>3 DEF AppendEvent, Goto
    <3>. QED  BY <2>1, <2>3, <3>1 DEF Job
  <2>. QED  BY <2>2, <2>3
<1>2. /\ Len(log) \in Nat /\ Len(log') = Len(log) + 1
      /\ \A i \in 1 .. Len(log) : i \in 1 .. Len(log') /\ log'[i] = log[i]
      /\ \A i \in 1 .. Len(log') : i \in 1 .. Len(log) \/ i = Len(log) + 1
      /\ log'[Len(log) + 1] = e /\ Len(log) + 1 \in 1 .. Len(log')
  BY <1>1, Growing
<1>3. \A q \in Procs : Active(q)' => Active(q) /\ proc'[q].evt = proc[q].evt
  BY <1>1 DEF Active
<1>4. Numbered'
  <2>1. ASSUME NEW q \in Procs, Active(q)'
        PROVE  /\ proc'[q].evt.id < next
               /\ \A r \in Procs : Active(r)' /\ proc'[r].evt.id = proc'[q].evt.id => r = q
               /\ \A a \in audit : a.id = proc'[q].evt.id =>
                    proc'[q].pc = "append" /\ proc'[q].evt.kind = "review" /\ a = Record(proc'[q].evt)
               /\ proc'[q].pc = "append" /\ proc'[q].evt.kind = "review" => Record(proc'[q].evt) \in audit
    <3>1. Active(q) /\ proc'[q].evt = proc[q].evt  BY <1>3, <2>1
    <3>2. proc[q].evt.id < next  BY <3>1 DEF Inv, Numbered
    <3>3. \A r \in Procs : Active(r)' /\ proc'[r].evt.id = proc'[q].evt.id => r = q
      BY <1>3, <3>1 DEF Inv, Numbered
    <3>4. CASE q = p
      <4>1. proc'[q].pc = "read" /\ e.kind # "review"  BY <1>1, <2>1, <3>4 DEF Active
      <4>2. \A a \in audit : a.id # proc[q].evt.id  BY <3>1, <3>4, <4>1 DEF Inv, Numbered
      <4>. QED  BY <3>1, <3>2, <3>3, <4>1, <4>2
    <3>5. CASE q # p
      <4>1. proc'[q] = proc[q]  BY <1>1, <3>5
      <4>. QED  BY <3>1, <3>2, <3>3, <4>1 DEF Inv, Numbered
    <3>. QED  BY <3>4, <3>5
  <2>. QED  BY <1>1, <2>1 DEF Inv, Numbered
<1>5. Said \subseteq Said' /\ (e.kind = "review" => Record(e) \in Said')
  <2>1. \A i \in {j \in 1 .. Len(log) : log[j].kind = "review"} :
          i \in {j \in 1 .. Len(log') : log'[j].kind = "review"} /\ log'[i] = log[i]
    BY <1>2
  <2>2. e.kind = "review" => Len(log) + 1 \in {j \in 1 .. Len(log') : log'[j].kind = "review"}
    BY <1>2
  <2>. QED  BY <1>2, <2>1, <2>2 DEF Said
<1>6. Said' \subseteq audit
  <2>1. Said \subseteq audit  BY DEF Inv, ReviewsAudited, Said, Record
  <2>2. e.kind = "review" => Record(e) \in audit  BY <1>1 DEF Inv, Numbered, Active
  <2>3. ASSUME NEW i \in 1 .. Len(log'), log'[i].kind = "review" PROVE Record(log'[i]) \in audit
    <3>1. CASE i \in 1 .. Len(log)  BY <1>2, <2>1, <2>3, <3>1 DEF Said
    <3>2. CASE i = Len(log) + 1  BY <1>2, <2>2, <2>3, <3>2
    <3>. QED  BY <1>2, <3>1, <3>2
  <2>. QED  BY <2>3 DEF Said
<1>7. Lost' \subseteq Lost
  <2>1. ASSUME NEW a \in Coming, a \notin Coming' PROVE a \in Said'
    <3>1. PICK q \in Procs : proc[q].pc = "append" /\ proc[q].evt.id = a.id /\ a \in audit
      BY <2>1 DEF Coming
    <3>2. q = p  BY <1>1, <2>1, <3>1 DEF Coming
    <3>3. e.kind = "review" /\ a = Record(e)  BY <3>1, <3>2 DEF Inv, Numbered, Active
    <3>. QED  BY <1>5, <3>3
  <2>. QED  BY <1>1, <1>5, <2>1 DEF Lost
<1>. QED  BY <1>1, <1>4, <1>6, <1>7, AuditsStay DEF Inv, Typed

----------------------------------------------------------------------------
(* The theorems *)

LEMMA Begins == Init => Inv
<1> SUFFICES ASSUME Init PROVE Inv  OBVIOUS
<1>1. /\ log = <<>> /\ Len(log) = 0 /\ log \in Seq(Line) /\ audit = {} /\ plans = {}
      /\ proc = [p \in Procs |-> Idle] /\ next = 1 /\ abandons = 0
      /\ index \in [Targets -> Nat]
  BY EmptySeq DEF Init
<1>2. /\ Idle \in Job /\ Idle.pc = "idle" /\ GoodJob(Idle) /\ Justified(Idle)
  BY <1>1, IdleIsGood
<1>3. \A p \in Procs : ~Active(p)  BY <1>1, <1>2 DEF Active
<1>4. Typed /\ Checked  BY <1>1, <1>2 DEF Typed, Checked, GoodPlans
<1>5. ApplyWasJustified  BY <1>1 DEF ApplyWasJustified
<1>6. Room
  <2>1. \A k : Applies(log, k) = {} /\ Conversions(log, k) = {} /\ Applying(k) = {} /\ Converting(k) = {}
    BY <1>1, <1>2 DEF Applies, Conversions, Applying, Converting, Changing
  <2>2. Cardinality(Procs) \in Nat /\ Cardinality({}) = 0
    BY ProcsAssumption, FS_CardinalityType, FS_EmptySet
  <2>. QED  BY <2>1, <2>2 DEF Room
<1>7. Numbered  BY <1>1, <1>3, FS_EmptySet DEF Numbered
<1>8. ReviewsAudited
  <2>1. Said = {} /\ Lost = {}  BY <1>1 DEF Said, Lost
  <2>2. Said \subseteq audit /\ Cardinality(Lost) <= abandons  BY <1>1, <2>1, FS_EmptySet
  <2>. QED  BY <2>2 DEF ReviewsAudited, Lost, Said, Coming, Record
<1>. QED  BY <1>4, <1>5, <1>6, <1>7, <1>8 DEF Inv

LEMMA NothingChanges ==
  ASSUME Inv, UNCHANGED vars
  PROVE  Inv'
<1>1. Typed' /\ Checked'  BY DEF vars, Inv, Typed, Checked, GoodJob, Justified
<1>2. ApplyWasJustified' /\ Room'
  BY DEF vars, Inv, ApplyWasJustified, Prefix, Room, Applying, Converting
<1>3. Numbered' /\ ReviewsAudited'
  BY DEF vars, Inv, Numbered, Active, ReviewsAudited
<1>. QED  BY <1>1, <1>2, <1>3 DEF Inv

LEMMA Keeps == Inv /\ [Next]_vars => Inv'
<1> SUFFICES ASSUME Inv, [Next]_vars PROVE Inv'  OBVIOUS
<1>1. ASSUME NEW p \in Procs, BeginOp(p) \/ Step(p) \/ Abandon(p) PROVE Inv'
  <2>1. CASE BeginOp(p)  BY <2>1, BeginOpKeeps
  <2>2. CASE CheckConverted(p)  BY <2>2, CheckConvertedKeeps
  <2>3. CASE CheckApproval(p)  BY <2>3, CheckApprovalKeeps
  <2>4. CASE LoadTarget(p)  BY <2>4, LoadTargetKeeps
  <2>5. CASE RecordAudit(p)  BY <2>5, RecordAuditKeeps
  <2>6. CASE AppendEvent(p)
    BY <2>6, AppendKeepsChecks, AppendKeepsRoom, AppendKeepsAudits DEF Inv
  <2>7. CASE ReadLog(p)  BY <2>7, ReadLogKeeps
  <2>8. CASE SaveIndex(p)  BY <2>8, SaveIndexKeeps
  <2>9. CASE Abandon(p)  BY <2>9, AbandonKeeps
  <2>. QED  BY <1>1, <2>1, <2>2, <2>3, <2>4, <2>5, <2>6, <2>7, <2>8, <2>9 DEF Step
<1>2. CASE UNCHANGED vars  BY <1>2, NothingChanges
<1>. QED  BY <1>1, <1>2 DEF Next

LEMMA Always == Spec => []Inv
BY Begins, Keeps, PTL DEF Spec

(* Whatever races, a change that applies a proposal was made after the log    *)
(* had shown it unapplied and, not before that, approved by its last review.  *)
THEOREM AppliesWereJustified == Spec => []ApplyWasJustified
<1>1. Inv => ApplyWasJustified  BY DEF Inv
<1>. QED  BY <1>1, Always, PTL

(* Every review is announced by an audit record that says the same, and each  *)
(* record without a review is paid for by an operation that ended early.      *)
THEOREM ReviewsAreAudited == Spec => []ReviewsAudited
<1>1. Inv => ReviewsAudited  BY DEF Inv
<1>. QED  BY <1>1, Always, PTL

(* A proposal is applied, and a plan converted, no more often than there are  *)
(* processes, however often it is tried and whatever fails.                   *)
THEOREM RepeatsAreBounded == Spec => []RepeatsBounded
<1>1. Inv => RepeatsBounded
  <2> SUFFICES ASSUME Inv, NEW k \in Ids
               PROVE  /\ Cardinality(Applies(log, k)) <= Cardinality(Procs)
                      /\ Cardinality(Conversions(log, k)) <= Cardinality(Procs)
    BY DEF RepeatsBounded
  <2>1. /\ Cardinality(Applies(log, k)) + Cardinality(Applying(k)) <= Cardinality(Procs)
        /\ Cardinality(Conversions(log, k)) + Cardinality(Converting(k)) <= Cardinality(Procs)
    BY DEF Inv, Room
  <2>2. Applying(k) \subseteq Procs /\ Converting(k) \subseteq Procs  BY DEF Applying, Converting
  <2>3. /\ Cardinality(Applying(k)) \in Nat /\ Cardinality(Converting(k)) \in Nat
        /\ Cardinality(Procs) \in Nat
    BY <2>2, ProcsAssumption, FS_Subset, FS_CardinalityType
  <2>4. Cardinality(Applies(log, k)) \in Nat /\ Cardinality(Conversions(log, k)) \in Nat
    BY LinesFinite, FS_CardinalityType DEF Inv, Typed
  <2>. QED  BY <2>1, <2>3, <2>4
<1>. QED  BY <1>1, Always, PTL

(* The log only grows, so what a plan's listing has read of it stays read.    *)
LEMMA LogGrows ==
  ASSUME Inv, [Next]_vars
  PROVE  UNCHANGED log \/ \E e \in Line : log' = Append(log, e)
<1>1. CASE UNCHANGED vars  BY <1>1 DEF vars
<1>2. ASSUME NEW p \in Procs, BeginOp(p) PROVE UNCHANGED log
  BY <1>2 DEF BeginOp, BeginPropose, BuildPlan, BeginConvert, BeginReview, BeginUiReview,
              BeginApply, BeginUpdate, Begin
<1>3. ASSUME NEW p \in Procs, Abandon(p) PROVE UNCHANGED log
  BY <1>3 DEF Abandon
<1>4. ASSUME NEW p \in Procs, Step(p), ~AppendEvent(p) PROVE UNCHANGED log
  BY <1>4 DEF Step, CheckConverted, CheckApproval, LoadTarget, RecordAudit, ReadLog, SaveIndex
<1>5. ASSUME NEW p \in Procs, AppendEvent(p) PROVE \E e \in Line : log' = Append(log, e)
  BY <1>5 DEF AppendEvent, Inv, Typed, GoodJob
<1>. QED  BY <1>1, <1>2, <1>3, <1>4, <1>5 DEF Next

(* A plan once listed as applied stays so, and one that has a proposal never  *)
(* goes back to a preview.                                                    *)
THEOREM PlansAdvance == Spec => PlanAdvances
<1> DEFINE Advance ==
      \A pl \in plans :
        LET before == PlanStatus(log, index["artifact"], pl.id, pl.base)
            after == PlanStatus(log', index'["artifact"], pl.id, pl.base)
        IN  /\ before = "applied" => after = "applied"
            /\ before \in {"stale_target", "ready_for_review"} =>
                 after \notin {"stale_preview", "preview_only"}
<1>1. ASSUME Inv, [Next]_vars PROVE Advance
  <2> SUFFICES ASSUME NEW pl \in plans
               PROVE  LET before == PlanStatus(log, index["artifact"], pl.id, pl.base)
                          after == PlanStatus(log', index'["artifact"], pl.id, pl.base)
                      IN  /\ before = "applied" => after = "applied"
                          /\ before \in {"stale_target", "ready_for_review"} =>
                               after \notin {"stale_preview", "preview_only"}
    OBVIOUS
  <2>1. \A i \in 1 .. Len(log) : i \in 1 .. Len(log') /\ log'[i] = log[i]
    BY <1>1, LogGrows, Growing DEF Inv, Typed
  <2>2. \A i \in Conversions(log, pl.id) : i \in Conversions(log', pl.id) /\ log'[i] = log[i]
    BY <2>1 DEF Conversions
  <2>3. \A k : AlreadyApplied(log, k) => AlreadyApplied(log', k)
    BY <2>1 DEF AlreadyApplied, Applies
  <2>4. PlanStatus(log, index["artifact"], pl.id, pl.base) = "applied" =>
          \E i \in Conversions(log, pl.id) : AlreadyApplied(log, log[i].id)
    BY DEF PlanStatus
  <2>5. PlanStatus(log, index["artifact"], pl.id, pl.base) \in {"stale_target", "ready_for_review"} =>
          Conversions(log, pl.id) # {}
    BY DEF PlanStatus
  <2>6. (\E i \in Conversions(log', pl.id) : AlreadyApplied(log', log'[i].id)) =>
          PlanStatus(log', index'["artifact"], pl.id, pl.base) = "applied"
    BY DEF PlanStatus
  <2>7. Conversions(log', pl.id) # {} =>
          PlanStatus(log', index'["artifact"], pl.id, pl.base) \notin {"stale_preview", "preview_only"}
    BY DEF PlanStatus
  <2>. QED  BY <2>2, <2>3, <2>4, <2>5, <2>6, <2>7
<1>2. Inv /\ [Next]_vars => [Advance]_vars  BY <1>1
<1>. QED  BY <1>2, Always, PTL DEF Spec, PlanAdvances

----------------------------------------------------------------------------
(* One command at a time                                                     *)

(* What the only process has looked up is still so when it appends. *)
StillSo(job) ==
  LET e == job.evt IN
  /\ e.kind = "version" /\ e.of # 0 =>
       /\ job.pc \in Changing \cup {"approval"} => ~AlreadyApplied(log, e.of)
       /\ job.pc \in Changing => Disposition(log, e.of) = "approve"
  /\ e.kind = "review" /\ e.ui = TRUE /\ job.pc \in {"audit", "append"} => Pending(log, e.of)
  /\ e.kind = "proposal" /\ e.of # 0 /\ job.pc = "append" => ~ProposalExists(log, e.of)

(* Unless a rebuild is due, the index shows the whole log, and the plan that   *)
(* becomes a proposal expects what it shows.                                   *)
ShownIn(job, shown) ==
  /\ job.pc \notin {"read", "save"} => \A t \in Targets : shown[t] = CurrentVersion(log, t)
  /\ job.pc \in {"resave", "save"} => job.seen = Len(log)
  /\ job.evt.kind = "proposal" /\ job.evt.of # 0 /\ job.pc \in {"exists", "append"} =>
       "artifact" \in Targets /\ job.evt.base = shown["artifact"]

(* What a line needs of the lines before it *)
LineFits(line, before) ==
  /\ line.kind = "version" /\ line.of # 0 =>
       ~AlreadyApplied(before, line.of) /\ Disposition(before, line.of) = "approve"
  /\ line.kind = "review" /\ line.ui = TRUE => Pending(before, line.of)

Converted(line, before) ==
  line.kind = "proposal" /\ line.of # 0 =>
    line.base = CurrentVersion(before, "artifact") /\ ~ProposalExists(before, line.of)

LinesFit ==
  \A i \in 1 .. Len(log) :
    /\ LineFits(log[i], Prefix(i - 1))
    /\ abandons = 0 => Converted(log[i], Prefix(i - 1))

Solo(p) ==
  /\ LinesFit
  /\ StillSo(proc[p])
  /\ abandons = 0 => ShownIn(proc[p], index)

(* A step that appends nothing *)
LEMMA SoloMoves ==
  ASSUME Inv, NEW p \in Procs, Solo(p), NEW job, proc'[p] = job, UNCHANGED log,
         StillSo(job), abandons' = 0 => abandons = 0 /\ ShownIn(job, index')
  PROVE  Solo(p)'
<1>1. LinesFit'
  BY DEF Solo, LinesFit, Prefix
<1>2. StillSo(proc[p])'
  BY DEF StillSo
<1>3. abandons' = 0 => ShownIn(proc[p], index)'
  BY DEF ShownIn
<1>. QED  BY <1>1, <1>2, <1>3 DEF Solo

(* A process that begins with an event, when nothing runs *)
LEMMA SoloBegins ==
  ASSUME Inv, NEW p \in Procs, Solo(p), NEW o, NEW where, NEW e, Begin(p, o, where, e),
         where \in {"idle", "append", "exists", "audit", "approval", "reread", "load"},
         e.kind = "version" /\ e.of # 0 => where = "approval" /\ ~AlreadyApplied(log, e.of),
         e.kind = "review" /\ e.ui = TRUE => Pending(log, e.of),
         e.kind = "proposal" /\ e.of # 0 =>
           where = "exists" /\ "artifact" \in Targets /\ e.base = index["artifact"]
  PROVE  Solo(p)'
<1> DEFINE job == [Idle EXCEPT !.pc = where, !.evt = e]
<1>1. proc[p].pc = "idle" /\ UNCHANGED <<log, index, abandons>> /\ proc \in [Procs -> Job]
      /\ proc' = [proc EXCEPT ![p] = job]
  BY DEF Begin, Inv, Typed
<1>2. proc'[p] = job  BY <1>1
<1>3. job.pc = where /\ job.evt = e  BY DEF Idle
<1> HIDE DEF job
<1>4. StillSo(job)  BY <1>3 DEF StillSo, Changing
<1>5. abandons' = 0 => abandons = 0 /\ ShownIn(job, index')
  BY <1>1, <1>3 DEF Solo, ShownIn
<1>. QED  BY <1>1, <1>2, <1>4, <1>5, SoloMoves

(* The events an operation begins with *)
LEMMA SoloBeginOp ==
  ASSUME Inv, NEW p \in Procs, Solo(p), BeginOp(p)
  PROVE  Solo(p)'
<1>0. next \in Nat /\ GoodPlans(plans) /\ log \in Seq(Line)
  BY DEF Inv, Typed
<1>1. CASE BeginPropose(p)
  <2>1. PICK t \in Targets : Begin(p, "propose", "append", New("proposal", t))
    BY <1>1 DEF BeginPropose
  <2>2. PICK e : e = New("proposal", t)  OBVIOUS
  <2>3. e.kind = "proposal" /\ e.of = 0  BY <1>0, <2>2, NewLine
  <2>. QED  BY <2>1, <2>2, <2>3, SoloBegins
<1>2. CASE BuildPlan(p)
  <2>1. PICK e : e = [New("plan", "artifact") EXCEPT !.base = index["artifact"]]  OBVIOUS
  <2>2. e.kind = "plan"  BY <2>1 DEF New, NoEvent
  <2>3. NoEvent.kind = "plan"  BY DEF NoEvent
  <2>4. CASE Begin(p, "plan", "append", e)
    BY <2>2, <2>4, SoloBegins
  <2>5. CASE Begin(p, "plan", "idle", NoEvent)
    BY <2>3, <2>5, SoloBegins
  <2>. QED  BY <1>2, <2>1, <2>4, <2>5 DEF BuildPlan
<1>3. CASE BeginConvert(p)
  <2>1. PICK pl \in plans :
          /\ index["artifact"] = pl.base
          /\ Begin(p, "convert", "exists",
                   [New("proposal", "artifact") EXCEPT !.of = pl.id, !.base = pl.base])
    BY <1>3 DEF BeginConvert
  <2>2. PICK e : e = [New("proposal", "artifact") EXCEPT !.of = pl.id, !.base = pl.base]  OBVIOUS
  <2>3. e.kind = "proposal" /\ e.base = pl.base  BY <2>2 DEF New, NoEvent
  <2>4. "artifact" \in Targets  BY <1>0 DEF GoodPlans
  <2>. QED  BY <2>1, <2>2, <2>3, <2>4, SoloBegins
<1>5. CASE BeginReview(p)
  <2>1. PICK x \in Proposals(log), d \in Dispositions :
          Begin(p, "review", "audit", [New("review", x.target) EXCEPT !.of = x.id, !.disp = d])
    BY <1>5 DEF BeginReview
  <2>2. PICK e : e = [New("review", x.target) EXCEPT !.of = x.id, !.disp = d]  OBVIOUS
  <2>3. e.kind = "review" /\ e.ui = FALSE  BY <2>2 DEF New, NoEvent
  <2>. QED  BY <2>1, <2>2, <2>3, SoloBegins
<1>6. CASE BeginUiReview(p)
  <2>1. PICK x \in Proposals(log), d \in Dispositions :
          /\ Pending(log, x.id)
          /\ Begin(p, "ui_review", "audit",
                   [New("review", x.target) EXCEPT !.of = x.id, !.disp = d, !.ui = TRUE])
    BY <1>6 DEF BeginUiReview
  <2>2. PICK e : e = [New("review", x.target) EXCEPT !.of = x.id, !.disp = d, !.ui = TRUE]  OBVIOUS
  <2>3. e.kind = "review" /\ e.of = x.id  BY <2>2 DEF New, NoEvent
  <2>. QED  BY <2>1, <2>2, <2>3, SoloBegins
<1>7. CASE BeginApply(p)
  <2>1. PICK x \in Proposals(log) :
          /\ ~AlreadyApplied(log, x.id)
          /\ Begin(p, "apply", "approval", [New("version", x.target) EXCEPT !.of = x.id])
    BY <1>7 DEF BeginApply
  <2>2. PICK e : e = [New("version", x.target) EXCEPT !.of = x.id]  OBVIOUS
  <2>3. e.kind = "version" /\ e.of = x.id  BY <2>2 DEF New, NoEvent
  <2>. QED  BY <2>1, <2>2, <2>3, SoloBegins
<1>8. CASE BeginUpdate(p)
  <2>1. PICK t \in Targets : Begin(p, "update", Change(t), New("version", t))
    BY <1>8 DEF BeginUpdate
  <2>2. PICK e, where : e = New("version", t) /\ where = Change(t)  OBVIOUS
  <2>3. e.kind = "version" /\ e.of = 0  BY <1>0, <2>2, NewLine
  <2>4. where \in {"reread", "load"}  BY <2>2 DEF Change
  <2>. QED  BY <2>1, <2>2, <2>3, <2>4, SoloBegins
<1>. QED  BY <1>1, <1>2, <1>3, <1>5, <1>6, <1>7, <1>8 DEF BeginOp

(* The steps of an operation that append nothing *)
LEMMA SoloSteps ==
  ASSUME Inv, NEW p \in Procs, Solo(p), Step(p), ~AppendEvent(p)
  PROVE  Solo(p)'
<1> DEFINE e == proc[p].evt
<1>1. /\ proc \in [Procs -> Job] /\ proc[p] \in Job /\ Len(log) \in Nat /\ log \in Seq(Line)
      /\ GoodJob(proc[p])
  BY LenProperties DEF Inv, Typed
<1>2. StillSo(proc[p]) /\ (abandons = 0 => ShownIn(proc[p], index))
  BY DEF Solo
<1>3. Idle.pc = "idle" /\ Idle.evt.kind = "plan"  BY DEF Idle, NoEvent
<1>4. ASSUME NEW where \in {"append", "reread", "load", "idle"}, Goto(p, where), UNCHANGED <<log, index, abandons>>,
             where = "idle" => proc[p].pc \notin {"read", "save"},
             where # "idle" => /\ proc[p].pc \in {"exists", "approval", "audit"}
                               /\ StillSo([proc[p] EXCEPT !.pc = where])
      PROVE  Solo(p)'
  <2>1. CASE where = "idle"
    <3>1. proc'[p] = Idle  BY <1>1, <1>4, <2>1 DEF Goto
    <3>2. StillSo(Idle)  BY <1>3 DEF StillSo, Changing
    <3>3. abandons' = 0 => abandons = 0 /\ ShownIn(Idle, index')
      BY <1>2, <1>3, <1>4, <2>1 DEF ShownIn
    <3>. QED  BY <1>4, <3>1, <3>2, <3>3, SoloMoves
  <2>2. CASE where # "idle"
    <3>1. PICK job : job = [proc[p] EXCEPT !.pc = where]  OBVIOUS
    <3>2. job.pc = where /\ job.evt = e /\ job.seen = proc[p].seen
      BY <1>1, <3>1 DEF Job
    <3>3. proc'[p] = job  BY <1>1, <1>4, <2>2, <3>1 DEF Goto
    <3>4. StillSo(job)  BY <1>4, <2>2, <3>1
    <3>5. proc[p].pc \in {"exists", "approval", "audit"}  BY <1>4, <2>2
    <3>6. e.kind = "proposal" /\ where = "append" => proc[p].pc = "exists"
      BY <1>1, <3>5 DEF GoodJob
    <3>7. job.pc = "exists" => FALSE  BY <3>2
    <3>8. abandons' = 0 => abandons = 0 /\ ShownIn(job, index')
      BY <1>2, <1>4, <3>2, <3>5, <3>6, <3>7 DEF ShownIn
    <3>. QED  BY <1>4, <3>3, <3>4, <3>8, SoloMoves
  <2>. QED  BY <2>1, <2>2
<1>5. CASE CheckConverted(p)
  <2>1. proc[p].pc = "exists" /\ UNCHANGED <<log, index, abandons>>  BY <1>5 DEF CheckConverted
  <2>2. CASE ProposalExists(log, e.of)
    <3>1. Goto(p, "idle")  BY <1>5, <2>2 DEF CheckConverted
    <3>. QED  BY <1>4, <2>1, <3>1
  <2>3. CASE ~ProposalExists(log, e.of)
    <3>1. Goto(p, "append")  BY <1>5, <2>3 DEF CheckConverted
    <3>2. PICK job : job = [proc[p] EXCEPT !.pc = "append"]  OBVIOUS
    <3>3. job.pc = "append" /\ job.evt = e  BY <1>1, <3>2 DEF Job
    <3>4. e.kind = "proposal"  BY <1>1, <2>1 DEF GoodJob
    <3>5. StillSo(job)  BY <2>3, <3>3, <3>4 DEF StillSo
    <3>. QED  BY <1>4, <2>1, <3>1, <3>2, <3>5
  <2>. QED  BY <2>2, <2>3
<1>6. CASE CheckApproval(p)
  <2>1. proc[p].pc = "approval" /\ UNCHANGED <<log, index, abandons>>  BY <1>6 DEF CheckApproval
  <2>2. CASE Disposition(log, e.of) # "approve"
    <3>1. Goto(p, "idle")  BY <1>6, <2>2 DEF CheckApproval
    <3>. QED  BY <1>4, <2>1, <3>1
  <2>3. CASE Disposition(log, e.of) = "approve"
    <3>1. PICK where : where = Change(e.target)  OBVIOUS
    <3>2. Goto(p, where) /\ where \in {"reread", "load"}
      BY <1>6, <2>3, <3>1 DEF CheckApproval, Change
    <3>3. PICK job : job = [proc[p] EXCEPT !.pc = where]  OBVIOUS
    <3>4. job.pc = where /\ job.evt = e  BY <1>1, <3>3 DEF Job
    <3>5. e.kind = "version"  BY <1>1, <2>1 DEF GoodJob
    <3>6. e.of # 0 => ~AlreadyApplied(log, e.of)  BY <1>2, <2>1, <3>5 DEF StillSo
    <3>7. StillSo(job)  BY <2>3, <3>4, <3>5, <3>6 DEF StillSo
    <3>. QED  BY <1>4, <2>1, <3>2, <3>3, <3>7
  <2>. QED  BY <2>2, <2>3
<1>7. CASE LoadTarget(p)
  <2>1. PICK b : b = index[e.target]  OBVIOUS
  <2>2. PICK job : job = [proc[p] EXCEPT !.pc = "append", !.evt = [e EXCEPT !.base = b]]  OBVIOUS
  <2>3. /\ proc[p].pc = "load" /\ UNCHANGED <<log, index, abandons>>
        /\ e.kind = "version" /\ e \in Line /\ proc'[p] = job
    BY <1>1, <1>7, <2>1, <2>2 DEF LoadTarget, GoodJob
  <2>4. PICK x : x = [e EXCEPT !.base = b]  OBVIOUS
  <2>5. x.kind = "version" /\ x.of = e.of  BY <2>3, <2>4 DEF Line
  <2>6. job.pc = "append" /\ job.evt = x  BY <1>1, <2>2, <2>4 DEF Job
  <2>7. StillSo(job)  BY <1>2, <2>3, <2>5, <2>6 DEF StillSo, Changing
  <2>8. abandons' = 0 => abandons = 0 /\ ShownIn(job, index')
    BY <1>2, <2>3, <2>5, <2>6 DEF ShownIn
  <2>. QED  BY <2>3, <2>7, <2>8, SoloMoves
<1>8. CASE RecordAudit(p)
  <2>1. /\ proc[p].pc = "audit" /\ UNCHANGED <<log, index, abandons>> /\ Goto(p, "append")
        /\ e.kind = "review"
    BY <1>1, <1>8 DEF RecordAudit, GoodJob
  <2>2. PICK job : job = [proc[p] EXCEPT !.pc = "append"]  OBVIOUS
  <2>3. job.pc = "append" /\ job.evt = e  BY <1>1, <2>2 DEF Job
  <2>4. StillSo(job)  BY <1>2, <2>1, <2>3 DEF StillSo
  <2>. QED  BY <1>4, <2>1, <2>2, <2>4
<1>9. CASE ReadLog(p)
  <2>1. PICK where : where = Following[proc[p].pc]  OBVIOUS
  <2>2. PICK job : job = [proc[p] EXCEPT !.pc = where, !.seen = Len(log)]  OBVIOUS
  <2>3. proc'[p] = job /\ UNCHANGED <<log, index, abandons>> /\ proc[p].pc \in {"reread", "read"}
    BY <1>1, <1>9, <2>1, <2>2 DEF ReadLog
  <2>4. where = IF proc[p].pc = "reread" THEN "resave" ELSE "save"
    BY <2>1, <2>3 DEF Following
  <2>5. job.pc = where /\ job.evt = e /\ job.seen = Len(log)  BY <1>1, <2>2 DEF Job
  <2>6. StillSo(job)  BY <1>2, <2>3, <2>4, <2>5 DEF StillSo, Changing
  <2>7. abandons' = 0 => abandons = 0 /\ ShownIn(job, index')
    BY <1>2, <2>3, <2>4, <2>5 DEF ShownIn
  <2>. QED  BY <2>3, <2>6, <2>7, SoloMoves
<1>10. CASE SaveIndex(p)
  <2>1. PICK where : where = Following[proc[p].pc]  OBVIOUS
  <2>2. /\ proc[p].pc \in {"resave", "save"} /\ UNCHANGED <<log, abandons>> /\ Goto(p, where)
        /\ index' = [t \in Targets |-> CurrentVersion(SubSeq(log, 1, proc[p].seen), t)]
    BY <1>10, <2>1 DEF SaveIndex
  <2>3. where = IF proc[p].pc = "resave" THEN "load" ELSE "idle"
    BY <2>1, <2>2 DEF Following
  <2>4. abandons = 0 => \A t \in Targets : index'[t] = CurrentVersion(log, t)
    <3>1. SUFFICES ASSUME abandons = 0 PROVE \A t \in Targets : index'[t] = CurrentVersion(log, t)
      OBVIOUS
    <3>2. proc[p].seen = Len(log)  BY <1>2, <2>2, <3>1 DEF ShownIn
    <3>3. SubSeq(log, 1, proc[p].seen) = log  BY <1>1, <3>2, WholePrefix
    <3>. QED  BY <2>2, <3>3, Zenon
  <2>5. PICK job : job = IF where = "idle" THEN Idle ELSE [proc[p] EXCEPT !.pc = where]  OBVIOUS
  <2>6. proc'[p] = job  BY <1>1, <2>2, <2>5 DEF Goto
  <2>7. CASE proc[p].pc = "resave"
    <3>1. job.pc = "load" /\ job.evt = e  BY <1>1, <2>3, <2>5, <2>7 DEF Job
    <3>2. StillSo(job)  BY <1>2, <2>7, <3>1 DEF StillSo, Changing
    <3>3. abandons' = 0 => abandons = 0 /\ ShownIn(job, index')
      BY <2>2, <2>4, <3>1 DEF ShownIn
    <3>. QED  BY <2>2, <2>6, <3>2, <3>3, SoloMoves
  <2>8. CASE proc[p].pc = "save"
    <3>1. job.pc = "idle" /\ job.evt.kind = "plan"  BY <1>3, <2>3, <2>5, <2>8
    <3>2. StillSo(job)  BY <3>1 DEF StillSo, Changing
    <3>3. abandons' = 0 => abandons = 0 /\ ShownIn(job, index')
      BY <2>2, <2>4, <3>1 DEF ShownIn
    <3>. QED  BY <2>2, <2>6, <3>2, <3>3, SoloMoves
  <2>. QED  BY <2>2, <2>7, <2>8
<1>. QED  BY <1>5, <1>6, <1>7, <1>8, <1>9, <1>10 DEF Step

(* A line that is no version leaves the current version as it is *)
LEMMA VersionStays ==
  ASSUME log \in Seq(Line), NEW e \in Line, e.kind # "version", log' = Append(log, e), NEW t
  PROVE  CurrentVersion(log', t) = CurrentVersion(log, t)
<1> DEFINE is(lines) == {i \in 1 .. Len(lines) : lines[i].kind = "version" /\ lines[i].target = t}
<1>1. /\ Len(log) \in Nat /\ log'[Len(log) + 1] = e
      /\ \A i \in 1 .. Len(log) : i \in 1 .. Len(log') /\ log'[i] = log[i]
      /\ \A i \in 1 .. Len(log') : i \in 1 .. Len(log) \/ i = Len(log) + 1
  BY Growing
<1>2. is(log') = is(log)  BY <1>1
<1>3. is(log) # {} => Last(is(log)) \in is(log)
  <2>1. is(log) \in SUBSET (1 .. Len(log))  OBVIOUS
  <2>. QED  BY <1>1, <2>1, Greatest
<1>4. is(log) # {} => log'[Last(is(log))].id = log[Last(is(log))].id  BY <1>1, <1>3
<1>5. CurrentVersion(log, t) = IF is(log) = {} THEN 0 ELSE log[Last(is(log))].id
  BY DEF CurrentVersion
<1>6. CurrentVersion(log', t) = IF is(log') = {} THEN 0 ELSE log'[Last(is(log'))].id
  BY DEF CurrentVersion
<1> HIDE DEF is
<1>. QED  BY <1>2, <1>4, <1>5, <1>6

(* The appended line finds the log as it was looked up *)
LEMMA SoloAppends ==
  ASSUME Inv, NEW p \in Procs, Solo(p), AppendEvent(p)
  PROVE  Solo(p)'
<1>1. PICK e : e = proc[p].evt  OBVIOUS
<1>2. PICK where : where = IF e.kind = "review" THEN "idle" ELSE "read"  OBVIOUS
<1>3. PICK job : job = IF where = "idle" THEN Idle ELSE [proc[p] EXCEPT !.pc = where]  OBVIOUS
<1>4. /\ proc[p].pc = "append" /\ log' = Append(log, e) /\ UNCHANGED <<index, abandons>>
      /\ e \in Line /\ log \in Seq(Line) /\ proc[p] \in Job /\ proc'[p] = job
  BY <1>1, <1>2, <1>3 DEF AppendEvent, Goto, Inv, Typed, GoodJob
<1>5. /\ Len(log) \in Nat /\ Len(log') = Len(log) + 1 /\ log'[Len(log) + 1] = e
      /\ \A i \in 1 .. Len(log) : i \in 1 .. Len(log') /\ log'[i] = log[i]
      /\ \A i \in 1 .. Len(log') : i \in 1 .. Len(log) \/ i = Len(log) + 1
      /\ \A n \in 0 .. Len(log) : SubSeq(log', 1, n) = SubSeq(log, 1, n)
  BY <1>4, Growing
<1>6. StillSo(proc[p]) /\ (abandons = 0 => ShownIn(proc[p], index)) /\ LinesFit
  BY DEF Solo
<1>7. LineFits(e, log) /\ (abandons = 0 => Converted(e, log))
  <2>1. LineFits(e, log)  BY <1>1, <1>4, <1>6 DEF LineFits, StillSo, Changing
  <2>2. ASSUME abandons = 0, e.kind = "proposal", e.of # 0
        PROVE  e.base = CurrentVersion(log, "artifact") /\ ~ProposalExists(log, e.of)
    <3>1. "artifact" \in Targets /\ e.base = index["artifact"]
      BY <1>1, <1>4, <1>6, <2>2 DEF ShownIn
    <3>2. index["artifact"] = CurrentVersion(log, "artifact")
      BY <1>4, <1>6, <2>2, <3>1 DEF ShownIn
    <3>3. ~ProposalExists(log, e.of)  BY <1>1, <1>4, <1>6, <2>2 DEF StillSo
    <3>. QED  BY <3>1, <3>2, <3>3
  <2>. QED  BY <2>1, <2>2 DEF Converted
<1>8. LinesFit'
  <2>1. ASSUME NEW i \in 1 .. Len(log')
        PROVE  /\ LineFits(log'[i], SubSeq(log', 1, i - 1))
               /\ abandons' = 0 => Converted(log'[i], SubSeq(log', 1, i - 1))
    <3>1. CASE i \in 1 .. Len(log)
      <4>1. i - 1 \in 0 .. Len(log)  BY <1>5, <3>1
      <4>2. SubSeq(log', 1, i - 1) = SubSeq(log, 1, i - 1) /\ log'[i] = log[i]
        BY <1>5, <3>1, <4>1
      <4>3. /\ LineFits(log[i], SubSeq(log, 1, i - 1))
            /\ abandons = 0 => Converted(log[i], SubSeq(log, 1, i - 1))
        BY <1>6, <3>1 DEF LinesFit, Prefix
      <4>. QED  BY <1>4, <4>2, <4>3
    <3>2. CASE i = Len(log) + 1
      <4>1. i - 1 = Len(log) /\ Len(log) \in 0 .. Len(log)  BY <1>5, <3>2
      <4>2. SubSeq(log', 1, i - 1) = SubSeq(log, 1, Len(log))  BY <1>5, <4>1
      <4>3. SubSeq(log', 1, i - 1) = log /\ log'[i] = e  BY <1>4, <1>5, <3>2, <4>2, WholePrefix
      <4>. QED  BY <1>4, <1>7, <4>3
    <3>. QED  BY <1>5, <3>1, <3>2
  <2>. QED  BY <2>1 DEF LinesFit, Prefix
<1>9. CASE e.kind = "review"
  <2>1. job = Idle  BY <1>2, <1>3, <1>9
  <2>2. job.pc = "idle" /\ job.evt.kind = "plan"  BY <2>1 DEF Idle, NoEvent
  <2>3. StillSo(proc[p])'  BY <1>4, <2>2 DEF StillSo, Changing
  <2>4. \A t \in Targets : CurrentVersion(log', t) = CurrentVersion(log, t)
    BY <1>4, <1>9, VersionStays
  <2>5. abandons = 0 => \A t \in Targets : index[t] = CurrentVersion(log, t)
    BY <1>4, <1>6 DEF ShownIn
  <2>6. abandons' = 0 => ShownIn(proc[p], index)'
    BY <1>4, <2>2, <2>4, <2>5 DEF ShownIn
  <2>. QED  BY <1>8, <2>3, <2>6 DEF Solo
<1>10. CASE e.kind # "review"
  <2>1. job.pc = "read" /\ job.evt = e  BY <1>1, <1>2, <1>3, <1>4, <1>10 DEF Job
  <2>2. StillSo(proc[p])'  BY <1>4, <2>1, <1>10 DEF StillSo, Changing
  <2>3. abandons' = 0 => ShownIn(proc[p], index)'  BY <1>4, <2>1 DEF ShownIn
  <2>. QED  BY <1>8, <2>2, <2>3 DEF Solo
<1>. QED  BY <1>9, <1>10

(* Every step of the only process *)
LEMMA SoloKeeps ==
  ASSUME NEW p, Procs = {p}
  PROVE  Inv /\ Solo(p) /\ [Next]_vars => Solo(p)'
<1> SUFFICES ASSUME Inv, Solo(p), [Next]_vars PROVE Solo(p)'
  OBVIOUS
<1>0. p \in Procs  OBVIOUS
<1>1. CASE UNCHANGED vars
  <2>1. /\ log' = log /\ proc' = proc /\ index' = index /\ abandons' = abandons
    BY <1>1 DEF vars
  <2>2. StillSo(proc[p]) /\ (abandons = 0 => ShownIn(proc[p], index))  BY DEF Solo
  <2>3. abandons' = 0 => abandons = 0 /\ ShownIn(proc[p], index')  BY <2>1, <2>2
  <2>4. PICK job : job = proc[p]  OBVIOUS
  <2>. QED  BY <1>0, <2>1, <2>2, <2>3, <2>4, SoloMoves
<1>2. CASE BeginOp(p)  BY <1>0, <1>2, SoloBeginOp
<1>3. CASE Step(p) /\ ~AppendEvent(p)  BY <1>0, <1>3, SoloSteps
<1>4. CASE AppendEvent(p)  BY <1>0, <1>4, SoloAppends
<1>5. CASE Abandon(p)
  <2>1. /\ proc \in [Procs -> Job] /\ abandons \in Nat  BY DEF Inv, Typed
  <2>2. proc'[p] = Idle /\ UNCHANGED log /\ abandons' # 0
    BY <1>0, <1>5, <2>1 DEF Abandon, Goto
  <2>3. Idle.pc = "idle"  BY DEF Idle
  <2>4. StillSo(Idle)  BY <2>3 DEF StillSo, Changing
  <2>. QED  BY <1>0, <2>2, <2>4, SoloMoves
<1>. QED  BY <1>1, <1>2, <1>3, <1>4, <1>5 DEF Next

(* One command at a time, in any order and however many: what is applied was   *)
(* reviewed and not applied before, what is converted was current and not      *)
(* converted before (unless an operation ended half-way), and the UI decides   *)
(* what is pending.                                                            *)
THEOREM OneAtATime ==
  ASSUME NEW p, Procs = {p}
  PROVE  Spec => []SequentialReviews
<1>1. Init => Solo(p)
  <2> SUFFICES ASSUME Init PROVE Solo(p)
    OBVIOUS
  <2>1. log = <<>> /\ Len(log) = 0 /\ proc[p] = Idle /\ index = [t \in Targets |-> 0]
    BY DEF Init
  <2>2. Idle.pc = "idle" /\ Idle.evt.kind = "plan"  BY DEF Idle, NoEvent
  <2>3. LinesFit  BY <2>1 DEF LinesFit
  <2>4. StillSo(proc[p])  BY <2>1, <2>2 DEF StillSo, Changing
  <2>5. \A t \in Targets : CurrentVersion(log, t) = 0  BY <2>1 DEF CurrentVersion
  <2>6. ShownIn(proc[p], index)  BY <2>1, <2>2, <2>5 DEF ShownIn
  <2>. QED  BY <2>3, <2>4, <2>6 DEF Solo
<1>2. Solo(p) => SequentialReviews
  <2> SUFFICES ASSUME LinesFit PROVE SequentialReviews
    BY DEF Solo
  <2>1. SequentialApply  BY DEF LinesFit, LineFits, SequentialApply
  <2>2. SequentialConvert  BY DEF LinesFit, Converted, SequentialConvert
  <2>3. UiResolvesOnce
    <3>1. ASSUME NEW i \in 1 .. Len(log), log[i].kind = "review", log[i].ui
          PROVE  Pending(Prefix(i - 1), log[i].of)
      <4>1. LineFits(log[i], Prefix(i - 1))  BY DEF LinesFit
      <4>. QED  BY <3>1, <4>1 DEF LineFits
    <3>. QED  BY <3>1 DEF UiResolvesOnce
  <2>. QED  BY <2>1, <2>2, <2>3 DEF SequentialReviews
<1>3. Inv /\ Solo(p) /\ [Next]_vars => Solo(p)'
  BY SoloKeeps
<1>. QED  BY <1>1, <1>2, <1>3, Always, PTL DEF Spec
=============================================================================
