---------------------------- MODULE CommandProofs ----------------------------
(***************************************************************************)
(* The commands and the views they print.  Exports: what a view hides and  *)
(* shows, for any number of writers, exporters, events and marks.          *)
(* CommandLine: what a command that fails leaves and what the next one     *)
(* finds, for any number of processes, commands and kills.                 *)
(***************************************************************************)
EXTENDS CommandLine, Exports, SequenceTheorems, TLAPS

----------------------------------------------------------------------------
(* Exports: the invariant                                                    *)

Places == {"none", "log", "index", "manifest", "done"}

View ==
  [pc : Places, format : AllFormats, option : Options, old : SUBSET Mark, read : Nat,
   got : [FileNames -> Nat], seen : SUBSET Mark, todo : Nat]

Work == [pc : {"rest", "read", "save"}, snap : Nat, todo : 1 .. Len(Files)]

Counts(lines) == 0 .. Len(lines)

(* An event says of its object's secrecy what the event that created it said  *)
LinesAgree ==
  \A i \in 1 .. Len(log) :
    log[i].obj \in 1 .. Len(log) /\ log[log[i].obj].secret = log[i].secret

(* What a view has read was there *)
Taken(v) ==
  /\ v \in View /\ v.old \subseteq marks
  /\ v.read \in Counts(log) /\ \A f \in FileNames : v.got[f] \in Counts(log)

(* The marks there were at the start are among those that are looked at once   *)
(* the fourth file, which is the marks', has been read.                        *)
GoodView(v) ==
  /\ Taken(v)
  /\ v.pc = "log" => v.todo = 1
  /\ v.pc = "index" => v.todo \in 1 .. Len(Reads(v.format))
  /\ v.format # "search" /\ (v.pc \in {"manifest", "done"} \/ (v.pc = "index" /\ v.todo > 4)) =>
       v.old \subseteq v.seen

GoodWork(work) == work \in Work /\ work.snap \in Counts(log)

ViewInv ==
  /\ log \in Seq(Event) /\ LinesAgree
  /\ idx \in [FileNames -> Nat] /\ \A f \in FileNames : idx[f] \in Counts(log)
  /\ marks \subseteq Mark
  /\ writer \in [Writers -> Work] /\ \A w \in Writers : GoodWork(writer[w])
  /\ view \in [Exporters -> View] /\ \A x \in Exporters : GoodView(view[x])

----------------------------------------------------------------------------
(* Exports: the files                                                        *)

(* The four index files and what they show *)
LEMMA FourFiles ==
  /\ Len(Files) = 4
  /\ FileNames = {"artifacts", "contexts", "decisions", "rde"}
  /\ \A t \in 1 .. 4 : Files[t] \in FileNames
<1>1. /\ Files[1] = "artifacts" /\ Files[2] = "contexts" /\ Files[3] = "decisions" /\ Files[4] = "rde"
      /\ Len(Files) = 4
  BY DEF Files
<1>2. \A i \in 1 .. 4 : i = 1 \/ i = 2 \/ i = 3 \/ i = 4  OBVIOUS
<1>3. FileNames = {"artifacts", "contexts", "decisions", "rde"}
  BY <1>1, <1>2 DEF FileNames
<1>. QED  BY <1>1, <1>3 DEF FileNames

(* The files of a format, with the marks read fourth *)
LEMMA FilesRead ==
  ASSUME NEW format \in AllFormats, NEW t \in 1 .. Len(Reads(format))
  PROVE  /\ Len(Reads(format)) \in {4, 5}
         /\ Reads(format)[t] # "marks" => Reads(format)[t] \in FileNames
         /\ format # "search" => (t = 4 <=> Reads(format)[t] = "marks")
<1>1. CASE format = "search"
  <2>1. /\ Len(Reads(format)) = 4 /\ Reads(format)[1] = "artifacts" /\ Reads(format)[2] = "decisions"
        /\ Reads(format)[3] = "contexts" /\ Reads(format)[4] = "rde"
    BY <1>1 DEF Reads
  <2>2. t = 1 \/ t = 2 \/ t = 3 \/ t = 4  BY <2>1
  <2>. QED  BY <1>1, <2>1, <2>2, FourFiles
<1>2. CASE format = "html"
  <2>1. /\ Len(Reads(format)) = 5 /\ Reads(format)[1] = "artifacts" /\ Reads(format)[2] = "contexts"
        /\ Reads(format)[3] = "decisions" /\ Reads(format)[4] = "marks" /\ Reads(format)[5] = "rde"
    BY <1>2 DEF Reads
  <2>2. t = 1 \/ t = 2 \/ t = 3 \/ t = 4 \/ t = 5  BY <2>1
  <2>. QED  BY <1>2, <2>1, <2>2, FourFiles
<1>3. CASE format \notin {"search", "html"}
  <2>1. /\ Len(Reads(format)) = 4 /\ Reads(format)[1] = "artifacts" /\ Reads(format)[2] = "contexts"
        /\ Reads(format)[3] = "decisions" /\ Reads(format)[4] = "marks"
    BY <1>3 DEF Reads
  <2>2. t = 1 \/ t = 2 \/ t = 3 \/ t = 4  BY <2>1
  <2>. QED  BY <1>3, <2>1, <2>2, FourFiles
<1>. QED  BY <1>1, <1>2, <1>3

(* A view that has read nothing *)
LEMMA NothingRead ==
  ASSUME ViewInv
  PROVE  NoView \in View /\ GoodView(NoView) /\ NoView.pc = "none" /\ NoView.todo = 1
<1>1. NoView \in View  BY DEF NoView, View, Places, AllFormats, Options
<1>2. /\ NoView.pc = "none" /\ NoView.old = {} /\ NoView.read = 0 /\ NoView.todo = 1
      /\ \A f \in FileNames : NoView.got[f] = 0
  BY DEF NoView
<1>3. 0 \in Counts(log)  BY LenProperties DEF ViewInv, Counts
<1>. QED  BY <1>1, <1>2, <1>3 DEF GoodView, Taken

----------------------------------------------------------------------------
(* Exports: the steps                                                        *)

(* A step of an exporter gives it another view and touches nothing else *)
LEMMA ViewMoves ==
  ASSUME ViewInv, NEW x \in Exporters, NEW v, GoodView(v), view' = [view EXCEPT ![x] = v],
         UNCHANGED <<log, idx, marks, writer>>
  PROVE  ViewInv'
<1>1. view' \in [Exporters -> View]  BY DEF ViewInv, GoodView, Taken
<1>2. ASSUME NEW y \in Exporters PROVE GoodView(view'[y])
  BY DEF ViewInv
<1>3. (\A y \in Exporters : GoodView(view[y]))'
  BY <1>2 DEF GoodView, Taken
<1>4. LinesAgree'  BY DEF ViewInv, LinesAgree
<1>5. (\A w \in Writers : GoodWork(writer[w]))'  BY DEF ViewInv, GoodWork
<1>. QED  BY <1>1, <1>3, <1>4, <1>5 DEF ViewInv

(* One more file read *)
LEMMA AdvanceIsGood ==
  ASSUME ViewInv, NEW v, Taken(v), v.pc = "index",
         v.todo \in 1 .. Len(Reads(v.format)),
         v.format # "search" /\ v.todo > 3 => v.old \subseteq v.seen
  PROVE  GoodView(Advance(v))
<1>1. Len(Reads(v.format)) \in {4, 5} /\ v.todo \in Nat /\ v \in View
  BY FilesRead DEF View, Taken
<1>3. CASE v.todo < Len(Reads(v.format))
  <2>1. PICK u : u = [v EXCEPT !.todo = v.todo + 1]  OBVIOUS
  <2>2. /\ u \in View /\ u.pc = "index" /\ u.format = v.format /\ u.old = v.old /\ u.seen = v.seen
        /\ u.read = v.read /\ u.got = v.got /\ u.todo = v.todo + 1
    BY <1>1, <2>1 DEF View
  <2>3. Advance(v) = u  BY <1>3, <2>1 DEF Advance
  <2>4. u.todo \in 1 .. Len(Reads(u.format))  BY <1>1, <1>3, <2>2
  <2>5. u.todo > 4 => v.todo > 3  BY <1>1, <2>2
  <2>6. u.format # "search" /\ u.todo > 4 => u.old \subseteq u.seen  BY <2>2, <2>5
  <2>. QED  BY <2>2, <2>3, <2>4, <2>6 DEF GoodView, Taken
<1>4. CASE ~(v.todo < Len(Reads(v.format)))
  <2>1. PICK u : u = [v EXCEPT !.pc = "manifest"]  OBVIOUS
  <2>2. /\ u \in View /\ u.pc = "manifest" /\ u.format = v.format /\ u.old = v.old /\ u.seen = v.seen
        /\ u.read = v.read /\ u.got = v.got
    BY <1>1, <2>1 DEF View, Places
  <2>3. Advance(v) = u  BY <1>4, <2>1 DEF Advance
  <2>4. v.todo > 3
    <3>1. PICK n : n = Len(Reads(v.format))  OBVIOUS
    <3>2. n \in {4, 5} /\ ~(v.todo < n) /\ v.todo \in Nat  BY <1>1, <1>4, <3>1
    <3>. QED  BY <3>2
  <2>5. u.format # "search" => u.old \subseteq u.seen  BY <2>2, <2>4
  <2>. QED  BY <2>2, <2>3, <2>5 DEF GoodView, Taken
<1>. QED  BY <1>3, <1>4

(* The steps of an exporter *)
LEMMA ExporterKeeps ==
  ASSUME ViewInv, NEW x \in Exporters, Export(x)
  PROVE  ViewInv'
<1>1. /\ view \in [Exporters -> View] /\ view[x] \in View /\ GoodView(view[x])
      /\ Len(log) \in Nat /\ Len(log) \in Counts(log) /\ 0 \in Counts(log)
  BY LenProperties DEF ViewInv, Counts
<1>2. CASE Begin(x)
  <2>1. PICK format \in Formats, option \in Options :
          view' = [view EXCEPT ![x] = [NoView EXCEPT !.pc = "log", !.format = format,
                                                     !.option = option, !.old = marks]]
    BY <1>2 DEF Begin
  <2>2. PICK v : v = [NoView EXCEPT !.pc = "log", !.format = format, !.option = option, !.old = marks]
    OBVIOUS
  <2>3. NoView \in View /\ GoodView(NoView) /\ NoView.todo = 1  BY NothingRead
  <2>4. /\ v \in View /\ v.pc = "log" /\ v.old = marks /\ v.read = NoView.read /\ v.got = NoView.got
        /\ v.todo = NoView.todo
    BY <2>2, <2>3, FormatsAssumption DEF View, Places, ViewInv
  <2>5. GoodView(v)  BY <1>1, <2>3, <2>4 DEF GoodView, Taken
  <2>6. UNCHANGED <<log, idx, marks, writer>>  BY <1>2 DEF Begin
  <2>. QED  BY <2>1, <2>2, <2>5, <2>6, ViewMoves
<1>3. CASE ReadLog(x)
  <2>1. PICK v : v = [view[x] EXCEPT !.pc = "index", !.read = Len(log)]  OBVIOUS
  <2>2. view[x].pc = "log" /\ view' = [view EXCEPT ![x] = v] /\ UNCHANGED <<log, idx, marks, writer>>
    BY <1>1, <1>3, <2>1 DEF ReadLog
  <2>3. /\ v \in View /\ v.pc = "index" /\ v.read = Len(log) /\ v.old = view[x].old
        /\ v.got = view[x].got /\ v.todo = view[x].todo /\ v.format = view[x].format
    BY <1>1, <2>1 DEF View, Places
  <2>4. 1 \in 1 .. Len(Reads(v.format)) /\ v.todo = 1
    <3>1. Len(Reads(v.format)) \in {4, 5}  BY <2>3 DEF View, Reads
    <3>. QED  BY <1>1, <2>2, <2>3, <3>1 DEF GoodView
  <2>5. GoodView(v)  BY <1>1, <2>3, <2>4 DEF GoodView, Taken
  <2>. QED  BY <2>2, <2>5, ViewMoves
<1>4. CASE ReadIndex(x)
  <2>1. PICK f : f = Reads(view[x].format)[view[x].todo]  OBVIOUS
  <2>2. PICK v : v = [view[x] EXCEPT !.got[f] = idx[f]]  OBVIOUS
  <2>3. /\ view[x].pc = "index" /\ f # "marks" /\ view' = [view EXCEPT ![x] = Advance(v)]
        /\ UNCHANGED <<log, idx, marks, writer>>
    BY <1>4, <2>1, <2>2 DEF ReadIndex
  <2>4. view[x].format \in AllFormats /\ view[x].todo \in 1 .. Len(Reads(view[x].format))
    BY <1>1, <2>3 DEF View, GoodView
  <2>5. f \in FileNames /\ (view[x].format # "search" => view[x].todo # 4)
    BY <2>1, <2>3, <2>4, FilesRead
  <2>6. view[x].got \in [FileNames -> Nat] /\ idx[f] \in Counts(log) /\ idx[f] \in Nat
    BY <1>1, <2>5 DEF View, ViewInv
  <2>7. PICK got : got = [view[x].got EXCEPT ![f] = idx[f]]  OBVIOUS
  <2>8. got \in [FileNames -> Nat] /\ \A g \in FileNames : got[g] \in Counts(log)
    BY <1>1, <2>5, <2>6, <2>7 DEF GoodView, Taken
  <2>9. /\ v \in View /\ v.pc = "index" /\ v.got = got /\ v.read = view[x].read
        /\ v.old = view[x].old /\ v.seen = view[x].seen /\ v.todo = view[x].todo
        /\ v.format = view[x].format
    BY <1>1, <2>2, <2>3, <2>7, <2>8 DEF View
  <2>10. Taken(v)  BY <1>1, <2>8, <2>9 DEF GoodView, Taken
  <2>11. v.format # "search" /\ v.todo > 3 => v.old \subseteq v.seen
    BY <1>1, <2>3, <2>4, <2>5, <2>9 DEF GoodView
  <2>12. GoodView(Advance(v))
    BY <2>4, <2>9, <2>10, <2>11, AdvanceIsGood
  <2>. QED  BY <2>3, <2>12, ViewMoves
<1>5. CASE ReadMarks(x)
  <2>1. PICK v : v = [view[x] EXCEPT !.seen = marks]  OBVIOUS
  <2>2. /\ view[x].pc = "index" /\ view' = [view EXCEPT ![x] = Advance(v)]
        /\ UNCHANGED <<log, idx, marks, writer>>
    BY <1>5, <2>1 DEF ReadMarks
  <2>3. /\ v \in View /\ v.pc = "index" /\ v.got = view[x].got /\ v.read = view[x].read
        /\ v.old = view[x].old /\ v.seen = marks /\ v.todo = view[x].todo
        /\ v.format = view[x].format
    BY <1>1, <2>1, <2>2 DEF View, ViewInv
  <2>4. Taken(v) /\ v.old \subseteq v.seen  BY <1>1, <2>3 DEF GoodView, Taken
  <2>5. v.todo \in 1 .. Len(Reads(v.format))  BY <1>1, <2>2, <2>3 DEF GoodView
  <2>6. GoodView(Advance(v))  BY <2>3, <2>4, <2>5, AdvanceIsGood
  <2>. QED  BY <2>2, <2>6, ViewMoves
<1>6. CASE LoadFails(x)
  <2>1. view' = [view EXCEPT ![x] = NoView] /\ UNCHANGED <<log, idx, marks, writer>>
    BY <1>6 DEF LoadFails
  <2>. QED  BY <2>1, NothingRead, ViewMoves
<1>7. CASE Finish(x)
  <2>1. PICK v : v = [view[x] EXCEPT !.pc = "done"]  OBVIOUS
  <2>2. view[x].pc = "manifest" /\ view' = [view EXCEPT ![x] = v] /\ UNCHANGED <<log, idx, marks, writer>>
    BY <1>1, <1>7, <2>1 DEF Finish
  <2>3. /\ v \in View /\ v.pc = "done" /\ v.got = view[x].got /\ v.read = view[x].read
        /\ v.old = view[x].old /\ v.seen = view[x].seen /\ v.format = view[x].format
    BY <1>1, <2>1 DEF View, Places
  <2>4. GoodView(v)  BY <1>1, <2>2, <2>3 DEF GoodView, Taken
  <2>. QED  BY <2>2, <2>4, ViewMoves
<1>. QED  BY <1>2, <1>3, <1>4, <1>5, <1>6, <1>7 DEF Export

----------------------------------------------------------------------------
(* Exports: the writers                                                      *)

(* Writing adds a line that agrees with the line that created its object *)
LEMMA AddKeeps ==
  ASSUME ViewInv, NEW w \in Writers, NEW e \in Event, Add(w, e),
         \/ e.obj = Len(log) + 1
         \/ e.obj \in 1 .. Len(log) /\ log[e.obj].secret = e.secret
  PROVE  ViewInv'
<1>1. /\ Len(log) \in Nat /\ Len(log') = Len(log) + 1 /\ log' \in Seq(Event)
      /\ log'[Len(log) + 1] = e /\ \A i \in 1 .. Len(log) : log'[i] = log[i]
      /\ UNCHANGED <<idx, marks, view>>
  BY LenProperties, AppendProperties DEF ViewInv, Add
<1>2. \A n : n \in Counts(log) => n \in Counts(log)'  BY <1>1 DEF Counts
<1>3. LinesAgree'
  <2>1. ASSUME NEW i \in 1 .. Len(log')
        PROVE  log'[i].obj \in 1 .. Len(log') /\ log'[log'[i].obj].secret = log'[i].secret
    <3>1. CASE i \in 1 .. Len(log)
      <4>1. log[i].obj \in 1 .. Len(log) /\ log[log[i].obj].secret = log[i].secret
        BY <3>1 DEF ViewInv, LinesAgree
      <4>. QED  BY <1>1, <3>1, <4>1
    <3>2. CASE i = Len(log) + 1
      <4>1. CASE e.obj = Len(log) + 1  BY <1>1, <3>2, <4>1
      <4>2. CASE e.obj \in 1 .. Len(log) /\ log[e.obj].secret = e.secret  BY <1>1, <3>2, <4>2
      <4>. QED  BY <4>1, <4>2
    <3>. QED  BY <1>1, <3>1, <3>2
  <2>. QED  BY <2>1 DEF LinesAgree
<1>4. writer' \in [Writers -> Work] /\ (\A u \in Writers : GoodWork(writer[u]))'
  <2>1. PICK job : job = [writer[w] EXCEPT !.pc = "read"]  OBVIOUS
  <2>2. writer \in [Writers -> Work] /\ writer' = [writer EXCEPT ![w] = job] /\ GoodWork(writer[w])
    BY <2>1 DEF Add, ViewInv
  <2>3. job \in Work /\ job.snap = writer[w].snap  BY <2>1, <2>2 DEF GoodWork, Work
  <2>4. \A u \in Writers : writer'[u] \in Work /\ writer'[u].snap \in Counts(log)
    BY <2>2, <2>3 DEF GoodWork, ViewInv
  <2>. QED  BY <1>2, <2>2, <2>3, <2>4 DEF GoodWork
<1>5. (\A x \in Exporters : GoodView(view[x]))'
  <2>1. ASSUME NEW x \in Exporters PROVE GoodView(view[x])'
    <3>1. GoodView(view[x]) /\ view' = view /\ marks' = marks  BY <1>1 DEF ViewInv
    <3>2. Taken(view[x])'  BY <1>2, <3>1 DEF GoodView, Taken
    <3>. QED  BY <3>1, <3>2 DEF GoodView
  <2>. QED  BY <2>1
<1>6. idx' \in [FileNames -> Nat] /\ (\A f \in FileNames : idx[f] \in Counts(log))'
  BY <1>1, <1>2 DEF ViewInv
<1>. QED  BY <1>1, <1>3, <1>4, <1>5, <1>6 DEF ViewInv

(* The snapshots an index shows are lines of the log *)
LEMMA LatestAreLines ==
  ASSUME ViewInv, NEW k, NEW n \in Counts(log), NEW i \in Latest(k, n)
  PROVE  i \in 1 .. Len(log) /\ i \in 1 .. n /\ log[i] \in Event /\ log[i].kind = k
<1>1. Len(log) \in Nat  BY LenProperties DEF ViewInv
<1>2. i \in 1 .. n /\ log[i].kind = k  BY DEF Latest
<1>3. i \in 1 .. Len(log)  BY <1>1, <1>2 DEF Counts
<1>. QED  BY <1>2, <1>3 DEF ViewInv

(* A step of a writer's rebuild *)
LEMMA WorkMoves ==
  ASSUME ViewInv, NEW w \in Writers, NEW job, GoodWork(job), writer' = [writer EXCEPT ![w] = job],
         idx' \in [FileNames -> Nat], \A f \in FileNames : idx'[f] \in Counts(log),
         UNCHANGED <<log, marks, view>>
  PROVE  ViewInv'
<1>1. writer' \in [Writers -> Work] /\ \A u \in Writers : GoodWork(writer'[u])
  BY DEF ViewInv, GoodWork
<1>2. (\A u \in Writers : GoodWork(writer[u]))'  BY <1>1 DEF GoodWork
<1>3. (\A x \in Exporters : GoodView(view[x]))'  BY DEF ViewInv, GoodView, Taken
<1>4. LinesAgree'  BY DEF ViewInv, LinesAgree
<1>. QED  BY <1>1, <1>2, <1>3, <1>4 DEF ViewInv

(* The steps of a writer *)
LEMMA WriterKeeps ==
  ASSUME ViewInv, NEW w \in Writers, Write(w)
  PROVE  ViewInv'
<1>1. /\ Len(log) \in Nat /\ Len(log) \in Counts(log) /\ 0 \in Counts(log)
      /\ writer \in [Writers -> Work] /\ writer[w] \in Work /\ writer[w].snap \in Counts(log)
      /\ Resting \in Work /\ Resting.snap = 0
  <2>1. Len(log) \in Nat  BY LenProperties DEF ViewInv
  <2>2. Resting \in Work /\ Resting.snap = 0  BY FourFiles DEF Resting, Work
  <2>. QED  BY <2>1, <2>2 DEF ViewInv, Counts, GoodWork
<1>2. ASSUME NEW kind \in Kinds, NEW secret \in BOOLEAN, NEW about \in 0 .. MaxEvents,
             Add(w, New(kind, secret, about))
      PROVE  ViewInv'
  <2>1. PICK e : e = New(kind, secret, about)  OBVIOUS
  <2>2. Len(log) + 1 \in Positions  BY <1>1, <1>2, ViewBoundsAssumption DEF Add, Positions
  <2>3. e \in Event /\ e.obj = Len(log) + 1  BY <2>1, <2>2 DEF New, Event
  <2>. QED  BY <1>2, <2>1, <2>3, AddKeeps
<1>3. CASE Create(w)
  <2>1. PICK kind \in {"context", "artifact"}, secret \in BOOLEAN : Add(w, New(kind, secret, 0))
    BY <1>3 DEF Create
  <2>2. kind \in Kinds /\ 0 \in 0 .. MaxEvents
    BY ViewBoundsAssumption DEF Kinds, Recorded
  <2>. QED  BY <1>2, <2>1, <2>2
<1>4. CASE Update(w)
  <2>1. PICK f \in {"contexts", "artifacts"} : \E i \in Latest(KindOf[f], idx[f]) : Add(w, log[i])
    BY <1>4 DEF Update
  <2>2. PICK i \in Latest(KindOf[f], idx[f]) : Add(w, log[i])  BY <2>1
  <2>3. idx[f] \in Counts(log)  BY FourFiles DEF ViewInv
  <2>4. i \in 1 .. Len(log) /\ log[i] \in Event  BY <2>3, LatestAreLines
  <2>5. log[i].obj \in 1 .. Len(log) /\ log[log[i].obj].secret = log[i].secret
    BY <2>4 DEF ViewInv, LinesAgree
  <2>. QED  BY <2>2, <2>4, <2>5, AddKeeps
<1>5. CASE Refer(w)
  <2>1. PICK f \in {"artifacts", "contexts"} : \E kind \in Kinds, a \in Listed(f) : Add(w, New(kind, FALSE, a))
    BY <1>5 DEF Refer, Kinds, Recorded
  <2>2. PICK kind \in Kinds, a \in Listed(f) : Add(w, New(kind, FALSE, a))  BY <2>1
  <2>3. PICK i \in Latest(KindOf[f], idx[f]) : a = log[i].obj  BY DEF Listed
  <2>4. idx[f] \in Counts(log)  BY FourFiles DEF ViewInv
  <2>5. log[i] \in Event  BY <2>4, LatestAreLines
  <2>6. a \in 0 .. MaxEvents  BY <2>3, <2>5 DEF Event, Positions
  <2>. QED  BY <1>2, <2>2, <2>6
<1>6. CASE ReadForRebuild(w)
  <2>1. PICK job : /\ job \in {[pc |-> "save", snap |-> Len(log), todo |-> 1], Resting}
                   /\ writer' = [writer EXCEPT ![w] = job]
    BY <1>6 DEF ReadForRebuild
  <2>2. [pc |-> "save", snap |-> Len(log), todo |-> 1] \in Work  BY <1>1, FourFiles DEF Work
  <2>3. GoodWork(job)  BY <1>1, <2>1, <2>2 DEF GoodWork
  <2>4. UNCHANGED <<log, idx, marks, view>>  BY <1>6 DEF ReadForRebuild
  <2>. QED  BY <2>1, <2>3, <2>4, WorkMoves DEF ViewInv
<1>7. CASE SaveIndex(w)
  <2>1. PICK t : t = writer[w].todo  OBVIOUS
  <2>2. PICK job : job = IF t < Len(Files) THEN [writer[w] EXCEPT !.todo = t + 1] ELSE Resting
    OBVIOUS
  <2>3. /\ idx' = [idx EXCEPT ![Files[t]] = writer[w].snap]
        /\ writer' = [writer EXCEPT ![w] = job] /\ UNCHANGED <<log, marks, view>>
    BY <1>1, <1>7, <2>1, <2>2 DEF SaveIndex
  <2>4. t \in 1 .. 4 /\ Files[t] \in FileNames  BY <1>1, <2>1, FourFiles DEF Work
  <2>5. GoodWork(job)
    <3>1. CASE t < Len(Files)
      <4>1. t + 1 \in 1 .. Len(Files)  BY <2>4, <3>1, FourFiles
      <4>2. job = [writer[w] EXCEPT !.todo = t + 1]  BY <2>2, <3>1
      <4>3. job \in Work /\ job.snap = writer[w].snap  BY <1>1, <4>1, <4>2 DEF Work
      <4>. QED  BY <1>1, <4>3 DEF GoodWork
    <3>2. CASE ~(t < Len(Files))  BY <1>1, <2>2, <3>2 DEF GoodWork
    <3>. QED  BY <3>1, <3>2
  <2>6. writer[w].snap \in Nat  BY <1>1 DEF Work
  <2>7. idx' \in [FileNames -> Nat] /\ \A f \in FileNames : idx'[f] \in Counts(log)
    BY <1>1, <2>3, <2>4, <2>6 DEF ViewInv
  <2>. QED  BY <2>3, <2>5, <2>7, WorkMoves
<1>8. CASE Record(w)
  <2>1. marks \subseteq marks' /\ marks' \subseteq Mark /\ UNCHANGED <<log, idx, writer, view>>
    BY <1>8 DEF Record, ViewInv
  <2>2. (\A x \in Exporters : GoodView(view[x]))'
    BY <2>1 DEF ViewInv, GoodView, Taken
  <2>3. LinesAgree' /\ (\A u \in Writers : GoodWork(writer[u]))'
    BY <2>1 DEF ViewInv, LinesAgree, GoodWork
  <2>. QED  BY <2>1, <2>2, <2>3 DEF ViewInv
<1>. QED  BY <1>3, <1>4, <1>5, <1>6, <1>7, <1>8 DEF Write

(* Whatever the writers and the exporters do *)
LEMMA ViewsAlways == ExportSpec => []ViewInv
<1>1. ExportInit => ViewInv
  <2> SUFFICES ASSUME ExportInit PROVE ViewInv
    OBVIOUS
  <2>1. /\ log = <<>> /\ Len(log) = 0 /\ log \in Seq(Event) /\ marks = {} /\ 0 \in Counts(log)
    BY EmptySeq DEF ExportInit, Counts
  <2>2. Resting \in Work /\ Resting.snap = 0  BY FourFiles DEF Resting, Work
  <2>3. NoView \in View  BY DEF NoView, View, Places, AllFormats, Options
  <2>4. /\ NoView.pc = "none" /\ NoView.old = {} /\ NoView.read = 0
        /\ \A f \in FileNames : NoView.got[f] = 0
    BY DEF NoView
  <2>5. GoodView(NoView)  BY <2>1, <2>3, <2>4 DEF GoodView, Taken
  <2>6. LinesAgree  BY <2>1 DEF LinesAgree
  <2>. QED  BY <2>1, <2>2, <2>3, <2>5, <2>6 DEF ExportInit, ViewInv, GoodWork
<1>2. ViewInv /\ [ExportNext]_vars => ViewInv'
  <2> SUFFICES ASSUME ViewInv, [ExportNext]_vars PROVE ViewInv'
    OBVIOUS
  <2>1. CASE UNCHANGED vars
    <3>1. LinesAgree' /\ (\A u \in Writers : GoodWork(writer[u]))'
      BY <2>1 DEF vars, ViewInv, LinesAgree, GoodWork
    <3>2. (\A x \in Exporters : GoodView(view[x]))'
      BY <2>1 DEF vars, ViewInv, GoodView, Taken
    <3>. QED  BY <2>1, <3>1, <3>2 DEF vars, ViewInv
  <2>. QED  BY <2>1, WriterKeeps, ExporterKeeps DEF ExportNext
<1>. QED  BY <1>1, <1>2, PTL DEF ExportSpec

----------------------------------------------------------------------------
(* Exports: what a view hides                                                *)

(* The documents' notion of marked is the code's *)
LEMMA HiddenIsOmitted ==
  ASSUME NEW t, NEW ms
  PROVE  Hidden(t, ms) <=> Omitted(t, ms)
<1> DEFINE actions == {m.action : m \in {n \in ms : n.target = t}}
<1>1. Hidden(t, ms) <=> \E a \in {"tombstone", "hard_delete"} : a \in actions
  BY DEF Hidden
<1>2. \A a : a \in actions <=> \E m \in ms : m.target = t /\ m.action = a
  OBVIOUS
<1> HIDE DEF actions
<1>. QED  BY <1>1, <1>2 DEF Omitted

(* What is shown in the timeline is a line that was read *)
LEMMA EventsShown ==
  ASSUME ViewInv, NEW v, Taken(v), NEW i \in ShownEvents(v)
  PROVE  /\ i \in 1 .. Len(log) /\ i \in 1 .. v.read
         /\ ~(v.option = "exclude" /\ Sensitive(log[i]))
         /\ v.format # "search" => ~ReferencesOmitted(log[i], v.format, v.seen)
<1>1. Len(log) \in Nat /\ v.read \in Counts(log)
  BY LenProperties DEF ViewInv, Taken
<1>2. /\ i \in 1 .. v.read /\ ~(v.option = "exclude" /\ Sensitive(log[i]))
      /\ v.format # "search" => ~ReferencesOmitted(log[i], v.format, v.seen)
  BY DEF ShownEvents, Left
<1>3. i \in 1 .. Len(log)  BY <1>1, <1>2 DEF Counts
<1>. QED  BY <1>2, <1>3

(* What is shown as a record is the line of a snapshot that an index lists *)
LEMMA RecordsShown ==
  ASSUME ViewInv, NEW v, Taken(v), NEW i \in ShownRecords(v)
  PROVE  /\ i \in 1 .. Len(log)
         /\ ~(v.option = "exclude" /\ Sensitive(log[i]))
         /\ ~(Marked(v.format, log[i].kind) /\ Omitted(log[i].obj, v.seen))
         /\ \E f \in FileNames : (f = "rde" => ShowsRde(v.format)) /\ log[i].kind = KindOf[f]
<1> DEFINE read == FileNames \ (IF ShowsRde(v.format) THEN {} ELSE {"rde"})
           all == UNION {Latest(KindOf[f], v.got[f]) : f \in read}
<1>1. /\ i \in all /\ ~(v.option = "exclude" /\ Sensitive(log[i]))
      /\ ~(Marked(v.format, log[i].kind) /\ Omitted(log[i].obj, v.seen))
  BY DEF ShownRecords, Left
<1>2. PICK f \in read : i \in Latest(KindOf[f], v.got[f])  BY <1>1
<1>3. f \in FileNames /\ (f = "rde" => ShowsRde(v.format))  BY <1>2
<1>4. v.got[f] \in Counts(log)  BY <1>3 DEF Taken
<1>5. i \in 1 .. Len(log) /\ log[i].kind = KindOf[f]  BY <1>2, <1>4, LatestAreLines
<1>. QED  BY <1>1, <1>3, <1>5

(* What a view says is a part of something it shows *)
LEMMA SaidOfShown ==
  ASSUME NEW v, NEW s \in Said(v)
  PROVE  \E i \in ShownEvents(v) \cup ShownRecords(v) :
           s[1] = i /\ (s[2] \in EventParts(v.format, log[i]) \/ s[2] \in RecordParts(v.format, log[i]))
<1>1. CASE \E i \in ShownEvents(v) : s \in {i} \X EventParts(v.format, log[i])
  BY <1>1
<1>2. CASE \E i \in ShownRecords(v) : s \in {i} \X RecordParts(v.format, log[i])
  BY <1>2
<1>. QED  BY <1>1, <1>2 DEF Said

(* docs/observation-e2e-gate and docs/redaction-aware-export, for any number   *)
(* of writers, exporters and marks: no snapshot of a context or an artifact    *)
(* that was marked when the command started is in an export, and one that      *)
(* redacts or excludes shows none in clear of an object created as sensitive,  *)
(* nor, when it excludes, where it comes from.                                 *)
THEOREM ViewsHide == ExportSpec => []ExportsHide
<1>1. ViewInv => ExportsHide
  <2> SUFFICES ASSUME ViewInv, NEW x \in Exporters, Done(x)
               PROVE  /\ view[x].format # "search" =>
                           \A i \in ShownEvents(view[x]) \cup ShownRecords(view[x]) :
                             Body(i) => ~Hidden(log[i].obj, view[x].old)
                      /\ view[x].option # "plain" =>
                           \A s \in Clear(view[x]) :
                             Body(s[1]) /\ log[log[s[1]].obj].secret =>
                               s[2] = "origin" /\ view[x].option = "redact"
    BY DEF ExportsHide
  <2>1. PICK v : v = view[x]  OBVIOUS
  <2>2. /\ v \in View /\ Taken(v) /\ (v.format # "search" => v.old \subseteq v.seen)
    BY <2>1 DEF ViewInv, GoodView, Done
  <2>3. ASSUME v.format # "search", NEW i \in ShownEvents(v) \cup ShownRecords(v), Body(i)
        PROVE  ~Hidden(log[i].obj, v.old)
    <3>1. log[i].kind \in {"artifact", "context"}  BY <2>3 DEF Body
    <3>2. ~Omitted(log[i].obj, v.seen)
      <4>1. CASE i \in ShownEvents(v)
        <5>1. ~ReferencesOmitted(log[i], v.format, v.seen)  BY <2>2, <2>3, <4>1, EventsShown
        <5>2. log[i].obj \in PayloadIds(log[i])  BY <3>1 DEF PayloadIds
        <5>. QED  BY <5>1, <5>2 DEF ReferencesOmitted
      <4>2. CASE i \in ShownRecords(v)
        <5>1. ~(Marked(v.format, log[i].kind) /\ Omitted(log[i].obj, v.seen))
          BY <2>2, <4>2, RecordsShown
        <5>2. Marked(v.format, log[i].kind)  BY <2>3, <3>1 DEF Marked
        <5>. QED  BY <5>1, <5>2
      <4>. QED  BY <2>3, <4>1, <4>2
    <3>3. ~Omitted(log[i].obj, v.old)  BY <2>2, <2>3, <3>2 DEF Omitted
    <3>. QED  BY <3>3, HiddenIsOmitted
  <2>4. ASSUME v.option # "plain", NEW s \in Clear(v), Body(s[1]), log[log[s[1]].obj].secret
        PROVE  s[2] = "origin" /\ v.option = "redact"
    <3>1. PICK i \in ShownEvents(v) \cup ShownRecords(v) :
            s[1] = i /\ (s[2] \in EventParts(v.format, log[i]) \/ s[2] \in RecordParts(v.format, log[i]))
      BY SaidOfShown DEF Clear
    <3>2. i \in 1 .. Len(log) /\ ~(v.option = "exclude" /\ Sensitive(log[i]))
      <4>1. CASE i \in ShownEvents(v)  BY <2>2, <4>1, EventsShown
      <4>2. CASE i \in ShownRecords(v)  BY <2>2, <4>2, RecordsShown
      <4>. QED  BY <4>1, <4>2
    <3>3. v.option \in {"redact", "exclude"}  BY <2>2, <2>4 DEF View, Options
    <3>4. log[i].kind \in {"artifact", "context"}  BY <2>4, <3>1 DEF Body
    <3>5. log[i].secret  BY <2>4, <3>1, <3>2 DEF ViewInv, LinesAgree
    <3>6. Sensitive(log[i])  BY <3>4, <3>5, Zenon DEF Sensitive
    <3>7. v.option = "redact"  BY <3>2, <3>3, <3>6
    <3>8. s[2] # "snapshot"  BY <2>4, <3>1, <3>6, <3>7 DEF Clear, Redacted
    <3>9. s[2] \in {"snapshot", "origin"}
      BY <3>1, <3>4 DEF EventParts, RecordParts, Recorded
    <3>. QED  BY <3>7, <3>8, <3>9
  <2>. QED  BY <2>1, <2>3, <2>4
<1>. QED  BY <1>1, ViewsAlways, PTL

(* Although log and indexes are read at different moments and filtered by      *)
(* different tests: a record that a view shows has its event in the view,      *)
(* unless it was recorded after the log was read, or it is a decision that is  *)
(* marked or about something marked.                                           *)
THEOREM RecordsKeepEvents == ExportSpec => []RecordsHaveEvents
<1>1. ViewInv => RecordsHaveEvents
  <2> SUFFICES ASSUME ViewInv, NEW x \in Exporters, NEW i \in ShownRecords(view[x]),
                      i \notin ShownEvents(view[x]), ~(i > view[x].read)
               PROVE  /\ log[i].kind = "decision"
                      /\ \E t \in {log[i].obj, log[i].about} : Hidden(t, view[x].seen)
    BY DEF RecordsHaveEvents
  <2>1. PICK v : v = view[x]  OBVIOUS
  <2>2. v \in View /\ Taken(v) /\ v.read \in Nat  BY <2>1 DEF ViewInv, GoodView, Taken, View
  <2>3. /\ i \in 1 .. Len(log) /\ ~(v.option = "exclude" /\ Sensitive(log[i]))
        /\ ~(Marked(v.format, log[i].kind) /\ Omitted(log[i].obj, v.seen))
    BY <2>1, <2>2, RecordsShown
  <2>4. PICK f \in FileNames : (f = "rde" => ShowsRde(v.format)) /\ log[i].kind = KindOf[f]
    BY <2>1, <2>2, RecordsShown
  <2>5. i \in 1 .. v.read  BY <2>1, <2>2, <2>3, LenProperties DEF ViewInv
  <2>6. v.format # "search" /\ ReferencesOmitted(log[i], v.format, v.seen)
    BY <2>1, <2>3, <2>5 DEF ShownEvents, Left
  <2>7. PICK t \in PayloadIds(log[i]) \cup (IF v.format = "graph" THEN FieldIds(log[i]) ELSE {}) :
          Omitted(t, v.seen)
    BY <2>6 DEF ReferencesOmitted
  <2>8. log[i].kind \in {"artifact", "context", "decision", "rde"}
    BY <2>4, FourFiles DEF KindOf
  <2>9. log[i].kind \notin {"artifact", "context"}
    <3> SUFFICES ASSUME log[i].kind \in {"artifact", "context"} PROVE FALSE
      OBVIOUS
    <3>1. t = log[i].obj  BY <2>7 DEF PayloadIds, FieldIds
    <3>2. Marked(v.format, log[i].kind)  BY <2>6 DEF Marked
    <3>. QED  BY <2>3, <2>7, <3>1, <3>2
  <2>10. log[i].kind # "rde"
    <3> SUFFICES ASSUME log[i].kind = "rde" PROVE FALSE
      OBVIOUS
    <3>1. f = "rde"  BY <2>4, FourFiles DEF KindOf
    <3>2. v.format = "html"  BY <2>4, <2>6, <3>1 DEF ShowsRde
    <3>3. PayloadIds(log[i]) = {}  BY DEF PayloadIds
    <3>. QED  BY <2>7, <3>2, <3>3
  <2>11. log[i].kind = "decision"  BY <2>8, <2>9, <2>10
  <2>12. t \in {log[i].obj, log[i].about}  BY <2>7, <2>11 DEF PayloadIds, FieldIds
  <2>13. Hidden(t, v.seen)  BY <2>7, HiddenIsOmitted
  <2>. QED  BY <2>1, <2>11, <2>12, <2>13
<1>. QED  BY <1>1, ViewsAlways, PTL

----------------------------------------------------------------------------
(* CommandLine: the kinds of step sequence that the commands are made of      *)

Steps ==
  {Need, Load, Ask, Call, Out, Rebuild, Make}
    \cup {Find(k) : k \in Indexed} \cup {FindLog(k) : k \in RecordKinds}
    \cup {FindFile(k) : k \in StoredKinds}
    \cup {Put(k) : k \in RecordKinds} \cup {Save(k) : k \in StoredKinds}

Choosy == {"load", "find", "search", "open", "ask"}    \* may refuse what it is given
Writing == {"put", "save", "make"}
Opening == {"need", "make", "find", "search", "open"}  \* passed only on a root
FoundKinds == Indexed \ {"rde"}

StepNames == {"need", "load", "find", "search", "open", "ask", "call", "out", "put", "save", "rebuild", "make"}

(* A step by its name and what it is about                                   *)
Formed(s) ==
  /\ s.do \in StepNames
  /\ s.do = "find" => s.of \in Indexed
  /\ s.do \in {"put", "search"} => s.of \in RecordKinds
  /\ s.do = "save" => s.of \in StoredKinds

Writeless(s) == \A i \in 1 .. Len(s) : s[i].do \notin Writing
Choiceless(s) == \A i \in 1 .. Len(s) : s[i].do \notin Choosy
Opens(s) == \E i \in 1 .. Len(s) : s[i].do \in Opening

(* What is given is checked before anything is written                       *)
Ordered(s) ==
  \A i, j \in 1 .. Len(s) : i < j /\ s[i].do \in Writing => s[j].do \notin Choosy

(* Nothing is written before it is known that there is a root                *)
Guarded(s) ==
  \A j \in 1 .. Len(s) : s[j].do \in {"put", "save"} =>
    \E i \in 1 .. Len(s) : i < j /\ s[i].do \in Opening

(* An indexed record is followed by a rebuild                                *)
Settled(s) ==
  \A i \in 1 .. Len(s) : s[i].do = "put" /\ s[i].of \in FoundKinds =>
    i < Len(s) /\ s[i + 1].do = "rebuild"

Checks == {s \in Seq(Steps) : Writeless(s)}
Openings == {s \in Checks : Opens(s)}
Halves == {s \in Seq(Steps) : Ordered(s) /\ Settled(s)}
Sounds == {s \in Halves : Guarded(s)}
Keeps == {s \in Sounds : Choiceless(s)}

(* Every step is well formed                                                 *)
LEMMA StepsFormed ==
  ASSUME NEW s \in Steps
  PROVE  Formed(s)
BY DEF Steps, Formed, StepNames, Need, Load, Ask, Call, Out, Rebuild, Make, Find, FindLog, FindFile,
       Put, Save, Step, RecordKinds

(* What writes nothing has nothing to be guarded or settled *)
LEMMA ChecksAreSound == Checks \subseteq Sounds
BY DEF Checks, Sounds, Halves, Writeless, Ordered, Settled, Guarded, Writing

(* What may come before and after what *)
LEMMA ChecksFirst ==
  ASSUME NEW s \in Checks, NEW t \in Seq(Steps)
  PROVE  /\ t \in Checks => s \o t \in Checks
         /\ t \in Halves => s \o t \in Halves
         /\ t \in Sounds => s \o t \in Sounds
         /\ s \in Openings /\ t \in Checks => s \o t \in Openings
         /\ s \in Openings /\ t \in Halves => s \o t \in Sounds
<1>. DEFINE c == s \o t
<1>1. s \in Seq(Steps)  BY DEF Checks
<1>2. /\ c \in Seq(Steps) /\ Len(c) = Len(s) + Len(t)
      /\ \A i \in 1 .. Len(s) : c[i] = s[i]
      /\ \A i \in 1 .. Len(t) : c[i + Len(s)] = t[i]
      /\ \A i \in 1 .. Len(c) : i \in 1 .. Len(s) \/ (i - Len(s) \in 1 .. Len(t) /\ c[i] = t[i - Len(s)])
      /\ Len(s) \in Nat /\ Len(t) \in Nat
  BY <1>1, ConcatProperties, LenProperties
<1>. HIDE DEF c
<1>3. \A i \in 1 .. Len(s) : s[i].do \notin Writing  BY DEF Checks, Writeless
<1>4. ASSUME t \in Checks PROVE c \in Checks
  BY <1>2, <1>3, <1>4 DEF Checks, Writeless
<1>5. ASSUME t \in Halves PROVE c \in Halves
  <2>1. Ordered(c)
    <3>1. ASSUME NEW i \in 1 .. Len(c), NEW j \in 1 .. Len(c), i < j, c[i].do \in Writing PROVE c[j].do \notin Choosy
      <4>1. i - Len(s) \in 1 .. Len(t) /\ c[i] = t[i - Len(s)]  BY <1>2, <1>3, <3>1
      <4>2. j - Len(s) \in 1 .. Len(t) /\ c[j] = t[j - Len(s)]  BY <1>2, <3>1, <4>1
      <4>3. i - Len(s) < j - Len(s)  BY <1>2, <3>1
      <4>. QED  BY <1>5, <3>1, <4>1, <4>2, <4>3 DEF Halves, Ordered
    <3>. QED  BY <3>1 DEF Ordered
  <2>2. Settled(c)
    <3>1. ASSUME NEW i \in 1 .. Len(c), c[i].do = "put", c[i].of \in FoundKinds
          PROVE  i < Len(c) /\ c[i + 1].do = "rebuild"
      <4>1. PICK k \in 1 .. Len(t) : k = i - Len(s) /\ c[i] = t[k]
        BY <1>2, <1>3, <3>1 DEF Writing
      <4>2. k < Len(t) /\ t[k + 1].do = "rebuild"  BY <1>5, <3>1, <4>1 DEF Halves, Settled
      <4>3. k + 1 \in 1 .. Len(t) /\ i + 1 = (k + 1) + Len(s)  BY <1>2, <4>1, <4>2
      <4>. QED  BY SMTT(60), <1>2, <4>1, <4>2, <4>3
    <3>. QED  BY <3>1 DEF Settled
  <2>. QED  BY <1>2, <2>1, <2>2 DEF Halves
<1>6. ASSUME NEW j \in 1 .. Len(c), c[j].do \in {"put", "save"} PROVE j - Len(s) \in 1 .. Len(t) /\ c[j] = t[j - Len(s)]
  BY <1>2, <1>3, <1>6 DEF Writing
<1>7. ASSUME t \in Sounds PROVE c \in Sounds
  <2>1. c \in Halves  BY <1>5, <1>7 DEF Sounds
  <2>2. ASSUME NEW j \in 1 .. Len(c), c[j].do \in {"put", "save"}
        PROVE  \E i \in 1 .. Len(c) : i < j /\ c[i].do \in Opening
    <3>1. PICK k \in 1 .. Len(t) : k = j - Len(s) /\ c[j] = t[k]  BY <1>6, <2>2
    <3>2. PICK i \in 1 .. Len(t) : i < k /\ t[i].do \in Opening  BY <1>7, <2>2, <3>1 DEF Sounds, Guarded
    <3>3. i + Len(s) \in 1 .. Len(c) /\ i + Len(s) < j /\ c[i + Len(s)] = t[i]  BY <1>2, <3>1, <3>2
    <3>. QED  BY <3>2, <3>3
  <2>. QED  BY <2>1, <2>2 DEF Sounds, Guarded
<1>8. ASSUME s \in Openings PROVE \E i \in 1 .. Len(s) : i \in 1 .. Len(c) /\ c[i].do \in Opening
  BY <1>2, <1>8 DEF Openings, Opens
<1>9. ASSUME s \in Openings, t \in Checks PROVE c \in Openings
  BY <1>4, <1>8, <1>9 DEF Openings, Opens
<1>10. ASSUME s \in Openings, t \in Halves PROVE c \in Sounds
  <2>1. c \in Halves  BY <1>5, <1>10
  <2>2. PICK i \in 1 .. Len(s) : i \in 1 .. Len(c) /\ c[i].do \in Opening  BY <1>8, <1>10
  <2>3. \A j \in 1 .. Len(c) : c[j].do \in {"put", "save"} => i < j  BY <1>2, <1>6, <2>2
  <2>. QED  BY <2>1, <2>2, <2>3 DEF Sounds, Guarded
<1>. QED  BY <1>4, <1>5, <1>7, <1>9, <1>10 DEF c

(* A part that chooses nothing may follow whatever is sound *)
LEMMA KeepsLast ==
  ASSUME NEW s \in Seq(Steps), NEW t \in Keeps
  PROVE  /\ s \in Halves => s \o t \in Halves
         /\ s \in Sounds => s \o t \in Sounds
         /\ s \in Keeps => s \o t \in Keeps
<1>. DEFINE c == s \o t
<1>1. t \in Seq(Steps) /\ t \in Halves /\ t \in Sounds  BY DEF Keeps, Sounds, Halves
<1>2. /\ c \in Seq(Steps) /\ Len(c) = Len(s) + Len(t)
      /\ \A i \in 1 .. Len(s) : c[i] = s[i]
      /\ \A i \in 1 .. Len(t) : c[i + Len(s)] = t[i]
      /\ \A i \in 1 .. Len(c) : i \in 1 .. Len(s) \/ (i - Len(s) \in 1 .. Len(t) /\ c[i] = t[i - Len(s)])
      /\ Len(s) \in Nat /\ Len(t) \in Nat
  BY <1>1, ConcatProperties, LenProperties
<1>. HIDE DEF c
<1>3. \A i \in 1 .. Len(t) : t[i].do \notin Choosy  BY DEF Keeps, Choiceless
<1>4. ASSUME s \in Halves PROVE c \in Halves
  <2>1. Ordered(c)
    <3>1. ASSUME NEW i \in 1 .. Len(c), NEW j \in 1 .. Len(c), i < j, c[i].do \in Writing PROVE c[j].do \notin Choosy
      <4>1. CASE j \in 1 .. Len(s)
        <5>1. i \in 1 .. Len(s)  BY <1>2, <3>1, <4>1
        <5>. QED  BY <1>2, <1>4, <3>1, <4>1, <5>1 DEF Halves, Ordered
      <4>2. CASE j \notin 1 .. Len(s)
        BY <1>2, <1>3, <4>2
      <4>. QED  BY <4>1, <4>2
    <3>. QED  BY <3>1 DEF Ordered
  <2>2. Settled(c)
    <3>1. ASSUME NEW i \in 1 .. Len(c), c[i].do = "put", c[i].of \in FoundKinds
          PROVE  i < Len(c) /\ c[i + 1].do = "rebuild"
      <4>1. CASE i \in 1 .. Len(s)
        <5>1. i < Len(s) /\ s[i + 1].do = "rebuild"  BY <1>2, <1>4, <3>1, <4>1 DEF Halves, Settled
        <5>2. i + 1 \in 1 .. Len(s)  BY <1>2, <4>1, <5>1
        <5>. QED  BY <1>2, <5>1, <5>2
      <4>2. CASE i \notin 1 .. Len(s)
        <5>1. PICK k \in 1 .. Len(t) : k = i - Len(s) /\ c[i] = t[k]  BY <1>2, <4>2
        <5>2. k < Len(t) /\ t[k + 1].do = "rebuild"  BY <1>1, <3>1, <5>1 DEF Halves, Settled
        <5>3. k + 1 \in 1 .. Len(t) /\ i + 1 = (k + 1) + Len(s)  BY <1>2, <5>1, <5>2
        <5>. QED  BY <1>2, <5>1, <5>2, <5>3
      <4>. QED  BY <4>1, <4>2
    <3>. QED  BY <3>1 DEF Settled
  <2>. QED  BY <1>2, <2>1, <2>2 DEF Halves
<1>5. ASSUME s \in Sounds PROVE c \in Sounds
  <2>1. c \in Halves  BY <1>4, <1>5 DEF Sounds
  <2>2. ASSUME NEW j \in 1 .. Len(c), c[j].do \in {"put", "save"}
        PROVE  \E i \in 1 .. Len(c) : i < j /\ c[i].do \in Opening
    <3>1. CASE j \in 1 .. Len(s)
      <4>1. PICK i \in 1 .. Len(s) : i < j /\ s[i].do \in Opening  BY <1>2, <1>5, <2>2, <3>1 DEF Sounds, Guarded
      <4>. QED  BY <1>2, <4>1
    <3>2. CASE j \notin 1 .. Len(s)
      <4>1. PICK k \in 1 .. Len(t) : k = j - Len(s) /\ c[j] = t[k]  BY <1>2, <3>2
      <4>2. PICK i \in 1 .. Len(t) : i < k /\ t[i].do \in Opening  BY <1>1, <2>2, <4>1 DEF Sounds, Guarded
      <4>3. i + Len(s) \in 1 .. Len(c) /\ i + Len(s) < j /\ c[i + Len(s)] = t[i]  BY <1>2, <4>1, <4>2
      <4>. QED  BY <4>2, <4>3
    <3>. QED  BY <3>1, <3>2
  <2>. QED  BY <2>1, <2>2 DEF Sounds, Guarded
<1>6. ASSUME s \in Keeps PROVE c \in Keeps
  <2>1. c \in Sounds  BY <1>5, <1>6 DEF Keeps
  <2>2. \A i \in 1 .. Len(c) : c[i].do \notin Choosy  BY <1>2, <1>3, <1>6 DEF Keeps, Choiceless
  <2>. QED  BY <2>1, <2>2 DEF Keeps, Choiceless
<1>. QED  BY <1>4, <1>5, <1>6 DEF c

----------------------------------------------------------------------------
(* CommandLine: every program is a sound sequence                             *)

(* Programs that do one part of a command after another *)
LEMMA Joined ==
  /\ \A P, Q : P \subseteq Checks /\ Q \subseteq Checks => Then(P, Q) \subseteq Checks
  /\ \A P, Q : P \subseteq Checks /\ Q \subseteq Halves => Then(P, Q) \subseteq Halves
  /\ \A P, Q : P \subseteq Checks /\ Q \subseteq Sounds => Then(P, Q) \subseteq Sounds
  /\ \A P, Q : P \subseteq Openings /\ Q \subseteq Checks => Then(P, Q) \subseteq Openings
  /\ \A P, Q : P \subseteq Openings /\ Q \subseteq Halves => Then(P, Q) \subseteq Sounds
  /\ \A P, Q : P \subseteq Sounds /\ Q \subseteq Keeps => Then(P, Q) \subseteq Sounds
  /\ \A P, Q : P \subseteq Keeps /\ Q \subseteq Keeps => Then(P, Q) \subseteq Keeps
<1>1. Openings \subseteq Checks /\ Checks \subseteq Seq(Steps) /\ Keeps \subseteq Sounds /\ Sounds \subseteq Halves
      /\ Halves \subseteq Seq(Steps)
  BY DEF Openings, Checks, Keeps, Sounds, Halves
<1>2. /\ \A a \in Checks, b \in Checks : a \o b \in Checks
      /\ \A a \in Checks, b \in Halves : a \o b \in Halves
      /\ \A a \in Checks, b \in Sounds : a \o b \in Sounds
      /\ \A a \in Openings, b \in Checks : a \o b \in Openings
      /\ \A a \in Openings, b \in Halves : a \o b \in Sounds
  BY <1>1, ChecksFirst
<1>3. /\ \A a \in Sounds, b \in Keeps : a \o b \in Sounds
      /\ \A a \in Keeps, b \in Keeps : a \o b \in Keeps
  BY <1>1, KeepsLast
<1>4. ASSUME NEW P, NEW Q, P \subseteq Checks, Q \subseteq Checks PROVE Then(P, Q) \subseteq Checks
  <2>1. ASSUME NEW s \in Then(P, Q) PROVE s \in Checks
    <3>1. PICK p \in P, q \in Q : s = p \o q  BY DEF Then
    <3>. QED  BY <1>2, <1>4, <3>1
  <2>. QED  BY <2>1
<1>5. ASSUME NEW P, NEW Q, P \subseteq Checks, Q \subseteq Halves PROVE Then(P, Q) \subseteq Halves
  <2>1. ASSUME NEW s \in Then(P, Q) PROVE s \in Halves
    <3>1. PICK p \in P, q \in Q : s = p \o q  BY DEF Then
    <3>. QED  BY <1>2, <1>5, <3>1
  <2>. QED  BY <2>1
<1>6. ASSUME NEW P, NEW Q, P \subseteq Checks, Q \subseteq Sounds PROVE Then(P, Q) \subseteq Sounds
  <2>1. ASSUME NEW s \in Then(P, Q) PROVE s \in Sounds
    <3>1. PICK p \in P, q \in Q : s = p \o q  BY DEF Then
    <3>. QED  BY <1>2, <1>6, <3>1
  <2>. QED  BY <2>1
<1>7. ASSUME NEW P, NEW Q, P \subseteq Openings, Q \subseteq Checks PROVE Then(P, Q) \subseteq Openings
  <2>1. ASSUME NEW s \in Then(P, Q) PROVE s \in Openings
    <3>1. PICK p \in P, q \in Q : s = p \o q  BY DEF Then
    <3>. QED  BY <1>2, <1>7, <3>1
  <2>. QED  BY <2>1
<1>8. ASSUME NEW P, NEW Q, P \subseteq Openings, Q \subseteq Halves PROVE Then(P, Q) \subseteq Sounds
  <2>1. ASSUME NEW s \in Then(P, Q) PROVE s \in Sounds
    <3>1. PICK p \in P, q \in Q : s = p \o q  BY DEF Then
    <3>. QED  BY <1>2, <1>8, <3>1
  <2>. QED  BY <2>1
<1>9. ASSUME NEW P, NEW Q, P \subseteq Sounds, Q \subseteq Keeps PROVE Then(P, Q) \subseteq Sounds
  <2>1. ASSUME NEW s \in Then(P, Q) PROVE s \in Sounds
    <3>1. PICK p \in P, q \in Q : s = p \o q  BY DEF Then
    <3>. QED  BY <1>3, <1>9, <3>1
  <2>. QED  BY <2>1
<1>10. ASSUME NEW P, NEW Q, P \subseteq Keeps, Q \subseteq Keeps PROVE Then(P, Q) \subseteq Keeps
  <2>1. ASSUME NEW s \in Then(P, Q) PROVE s \in Keeps
    <3>1. PICK p \in P, q \in Q : s = p \o q  BY DEF Then
    <3>. QED  BY <1>3, <1>10, <3>1
  <2>. QED  BY <2>1
<1>. QED  BY <1>4, <1>5, <1>6, <1>7, <1>8, <1>9, <1>10

(* Programs that are written out *)
LEMMA PlainPrograms ==
  UNION {RootCommands, RecordCommands, ReadCommands, ArtifactCommands, RdeRecordCommand,
         ReactionCommands, BoundaryCommands, IndexCommands, DoctorCommand, DaemonCommands,
         ContractCommands, FederationPackageRead, FederationBoundary, ServerCommands, AuditCommands,
         LifecycleCommands, ContextCheck, GraphCommands, PlanReadCommands, ReviewQueue,
         TrialCommands, PackageReviewCommand, PackageReadCommands, CapabilityCommands,
         RuntimeConfigCommands} \subseteq Sounds
<1>. USE DEF Sounds, Halves, Guarded, Ordered, Settled, Steps, RecordKinds, Indexed, Logged, StoredKinds,
             Opening, Writing, Choosy, FoundKinds, Need, Load, Ask, Call, Out, Rebuild, Make, Find, FindLog,
             FindFile, Put, Save, Step
<1>1. RootCommands \subseteq Sounds  BY DEF RootCommands
<1>2. RecordCommands \subseteq Sounds  BY DEF RecordCommands
<1>3. ReadCommands \subseteq Sounds  BY DEF ReadCommands
<1>4. CreateArtifact \in Sounds /\ UpdateArtifact \in Sounds  BY DEF CreateArtifact, UpdateArtifact
<1>5. <<Load, Find("artifact")>> \in Sounds /\ <<Need, Load>> \in Sounds  OBVIOUS
<1>6. RdeRecordCommand \subseteq Sounds  BY DEF RdeRecordCommand, RecordRde
<1>7. <<Ask>> \in Checks /\ RecordReaction \in Sounds /\ <<Need>> \in Sounds /\ GetReaction \in Sounds
  BY DEF Checks, Writeless, RecordReaction, GetReaction
<1>8. BoundaryCommands \subseteq Sounds  BY DEF BoundaryCommands
<1>9. IndexCommands \subseteq Sounds  BY DEF IndexCommands
<1>10. DoctorCommand \subseteq Sounds  BY DEF DoctorCommand
<1>11. DaemonCommands \subseteq Sounds  BY DEF DaemonCommands
<1>12. ContractCommands \subseteq Sounds  BY DEF ContractCommands
<1>13. FederationPackageRead \subseteq Sounds  BY DEF FederationPackageRead
<1>14. Audit \in Sounds  BY DEF Audit
<1>15. ServerCommands \subseteq Sounds  BY DEF ServerCommands
<1>16. AuditCommands \subseteq Sounds  BY DEF AuditCommands, Audit
<1>17. LifecycleCommands \subseteq Sounds  BY DEF LifecycleCommands
<1>18. ContextCheck \subseteq Sounds  BY DEF ContextCheck
<1>19. GraphCommands \subseteq Sounds  BY DEF GraphCommands
<1>20. PlanReadCommands \subseteq Sounds  BY DEF PlanReadCommands
<1>21. ReviewQueue \subseteq Sounds  BY DEF ReviewQueue
<1>22. TrialCommands \subseteq Sounds  BY DEF TrialCommands
<1>23. PackageReviewCommand \subseteq Sounds  BY DEF PackageReviewCommand
<1>24. PackageReadCommands \subseteq Sounds  BY DEF PackageReadCommands
<1>25. CapabilityCommands \subseteq Sounds  BY DEF CapabilityCommands
<1>26. RuntimeConfigCommands \subseteq Sounds  BY DEF RuntimeConfigCommands
<1>. HIDE DEF Sounds, Halves, Guarded, Ordered, Settled, Steps, RecordKinds, Indexed, Logged, StoredKinds,
             Opening, Writing, Choosy, FoundKinds, Need, Load, Ask, Call, Out, Rebuild, Make, Find, FindLog,
             FindFile, Put, Save, Step
<1>27. /\ ArtifactCommands \subseteq Sounds /\ ReactionCommands \subseteq Sounds
       /\ FederationBoundary \subseteq Sounds
  <2>1. \A s \in Checks, t \in Sounds : s \o t \in Sounds  BY ChecksFirst DEF Sounds, Halves
  <2>. QED  BY <1>4, <1>5, <1>7, <1>14, <2>1 DEF ArtifactCommands, ReactionCommands, FederationBoundary
<1>. QED
  BY <1>1, <1>2, <1>3, <1>6, <1>7, <1>8, <1>9, <1>10, <1>11, <1>12, <1>13, <1>14, <1>15, <1>16, <1>17,
     <1>18, <1>19, <1>20, <1>21, <1>22, <1>23, <1>24, <1>25, <1>26, <1>27

(* What a service does as a part of several programs *)
LEMMA Pieces ==
  /\ {<<>>, <<Need>>, <<Ask>>, <<Load, Find("artifact")>>, <<Need, Load>>, <<Out>>, <<Ask, Call>>,
      <<Need, FindLog("proposal"), Need, FindLog("proposal"), Ask>>, <<Need, Load, Need, Load>>,
      <<Ask, Need, Load>>, <<Need, FindFile("job"), Call>>, <<Need, FindFile("job")>>,
      <<Need, Load, Ask>>, <<FindLog("invocation"), Ask, Call>>, BuildPlan, ListObjects,
      <<Need, Load, Need, Out, Out, Out, Ask, Out>>} \subseteq Checks
  /\ {<<Need>>, <<Ask, Need>>, <<Ask, Need, Load>>, <<Need, Ask>>, LookupContext} \subseteq Openings
  /\ {<<Put("decision"), Rebuild>>, <<Put("entry")>>, <<Save("other")>>, <<Put("entry"), Rebuild>>,
      <<Put("context"), Rebuild>>} \subseteq Halves
  /\ {RecordRde, UpdateArtifact, <<Ask, Need, Save("relation")>>, <<Need, Ask, Save("message")>>,
      <<FindFile("relation"), Save("relation")>>} \subseteq Sounds
  /\ {<<>>, RecordObject, Audit, StoreText, <<Need>>, <<Out>>, <<Call, Call>>, <<Need, Put("entry")>>,
      <<Need, Put("plan"), Rebuild>>, <<Need, Put("invocation")>>, <<Need, Save("package")>>,
      <<Need, Call, Save("other"), Save("other")>>, <<Need, Put("entry"), Rebuild, Save("job")>>} \subseteq Keeps
<1>. USE DEF Steps, RecordKinds, Indexed, Logged, StoredKinds, Opening, Writing, Choosy, FoundKinds, Need, Load,
             Ask, Call, Out, Rebuild, Make, Find, FindLog, FindFile, Put, Save, Step
<1>. USE DEF Checks, Writeless, Openings, Opens, Keeps, Choiceless, Sounds, Halves, Guarded, Ordered, Settled
<1>1. /\ <<>> \in Checks /\ <<Need>> \in Checks /\ <<Ask>> \in Checks /\ <<Load, Find("artifact")>> \in Checks
      /\ <<Need, Load>> \in Checks /\ <<Out>> \in Checks /\ <<Ask, Call>> \in Checks
  OBVIOUS
<1>2. /\ <<Need, FindLog("proposal"), Need, FindLog("proposal"), Ask>> \in Checks
      /\ <<Need, Load, Need, Load>> \in Checks
  OBVIOUS
<1>3. /\ <<Ask, Need, Load>> \in Checks /\ <<Need, FindFile("job"), Call>> \in Checks
      /\ <<Need, FindFile("job")>> \in Checks /\ <<Need, Load, Ask>> \in Checks
      /\ <<FindLog("invocation"), Ask, Call>> \in Checks
  OBVIOUS
<1>4. BuildPlan \in Checks /\ ListObjects \in Checks  BY DEF BuildPlan, ListObjects
<1>5. <<Need, Load, Need, Out, Out, Out, Ask, Out>> \in Checks  OBVIOUS
<1>6. /\ <<Need>> \in Openings /\ <<Ask, Need>> \in Openings /\ <<Ask, Need, Load>> \in Openings
      /\ <<Need, Ask>> \in Openings
  OBVIOUS
<1>7. LookupContext \in Openings  BY DEF LookupContext
<1>8. /\ <<Put("decision"), Rebuild>> \in Halves /\ <<Put("entry")>> \in Halves /\ <<Save("other")>> \in Halves
      /\ <<Put("entry"), Rebuild>> \in Halves /\ <<Put("context"), Rebuild>> \in Halves
  OBVIOUS
<1>9. RecordRde \in Sounds /\ UpdateArtifact \in Sounds  BY DEF RecordRde, UpdateArtifact
<1>10. /\ <<Ask, Need, Save("relation")>> \in Sounds /\ <<FindFile("relation"), Save("relation")>> \in Sounds
       /\ <<Need, Ask, Save("message")>> \in Sounds
  OBVIOUS
<1>11. <<>> \in Keeps /\ RecordObject \in Keeps /\ Audit \in Keeps /\ StoreText \in Keeps
  BY DEF RecordObject, Audit, StoreText
<1>12. /\ <<Need>> \in Keeps /\ <<Out>> \in Keeps /\ <<Call, Call>> \in Keeps /\ <<Need, Put("entry")>> \in Keeps
       /\ <<Need, Put("plan"), Rebuild>> \in Keeps /\ <<Need, Put("invocation")>> \in Keeps
  OBVIOUS
<1>13. /\ <<Need, Save("package")>> \in Keeps /\ <<Need, Call, Save("other"), Save("other")>> \in Keeps
       /\ <<Need, Put("entry"), Rebuild, Save("job")>> \in Keeps
  OBVIOUS
<1>. HIDE DEF Steps, RecordKinds, Indexed, Logged, StoredKinds, Opening, Writing, Choosy, FoundKinds, Need, Load,
             Ask, Call, Out, Rebuild, Make, Find, FindLog, FindFile, Put, Save, Step
<1>. HIDE DEF Checks, Writeless, Openings, Opens, Keeps, Choiceless, Sounds, Halves, Guarded, Ordered, Settled
<1>. QED
  BY <1>1, <1>2, <1>3, <1>4, <1>5, <1>6, <1>7, <1>8, <1>9, <1>10, <1>11, <1>12, <1>13

(* Which kinds of sequence are kinds of which *)
LEMMA KindsNest ==
  /\ Openings \subseteq Checks /\ Checks \subseteq Sounds /\ Keeps \subseteq Sounds
  /\ Sounds \subseteq Halves /\ Halves \subseteq Seq(Steps)
BY ChecksAreSound DEF Openings, Keeps, Sounds, Halves

(* The same for sequences written out with \o *)
LEMMA SequencesJoin ==
  /\ \A s \in Checks, t \in Checks : s \o t \in Checks
  /\ \A s \in Checks, t \in Sounds : s \o t \in Sounds
  /\ \A s \in Openings, t \in Checks : s \o t \in Openings
  /\ \A s \in Openings, t \in Halves : s \o t \in Sounds
  /\ \A s \in Halves, t \in Keeps : s \o t \in Halves
  /\ \A s \in Sounds, t \in Keeps : s \o t \in Sounds
  /\ \A s \in Keeps, t \in Keeps : s \o t \in Keeps
<1>1. Openings \subseteq Checks /\ Checks \subseteq Seq(Steps) /\ Keeps \subseteq Seq(Steps)
      /\ Sounds \subseteq Seq(Steps) /\ Halves \subseteq Seq(Steps)
  BY KindsNest
<1>2. /\ \A s \in Checks, t \in Checks : s \o t \in Checks
      /\ \A s \in Checks, t \in Sounds : s \o t \in Sounds
      /\ \A s \in Openings, t \in Checks : s \o t \in Openings
      /\ \A s \in Openings, t \in Halves : s \o t \in Sounds
  BY <1>1, ChecksFirst
<1>3. /\ \A s \in Halves, t \in Keeps : s \o t \in Halves
      /\ \A s \in Sounds, t \in Keeps : s \o t \in Sounds
      /\ \A s \in Keeps, t \in Keeps : s \o t \in Keeps
  BY <1>1, KeepsLast
<1>. QED  BY <1>2, <1>3

(* A part that a command may leave out *)
LEMMA MaybeNothing ==
  /\ \A P : P \subseteq Checks => Maybe(P) \subseteq Checks
  /\ \A P : P \subseteq Keeps => Maybe(P) \subseteq Keeps
  /\ \A P : P \subseteq Sounds => Maybe(P) \subseteq Sounds
  /\ \A P : P \subseteq Halves => Maybe(P) \subseteq Halves
<1>1. <<>> \in Checks /\ <<>> \in Keeps /\ <<>> \in Sounds /\ <<>> \in Halves
  BY Pieces, KindsNest
<1>. QED  BY <1>1 DEF Maybe

(* The provers do not see this of three steps that are written out *)
LEMMA TwoAndOne ==
  ASSUME NEW a, NEW b, NEW c
  PROVE  <<a, b>> \o <<c>> = <<a, b, c>>
<1>. DEFINE S == {a, b, c}
<1>1. <<a, b>> \in Seq(S) /\ <<c>> \in Seq(S) /\ <<a, b, c>> \in Seq(S)  OBVIOUS
<1>. HIDE DEF S
<1>. DEFINE both == <<a, b>> \o <<c>>
<1>2. both \in Seq(S) /\ Len(both) = 3 /\ both[1] = a /\ both[2] = b /\ both[3] = c
  <2>1. Len(<<a, b>>) = 2 /\ Len(<<c>>) = 1  OBVIOUS
  <2>2. both \in Seq(S) /\ Len(both) = 3
        /\ \A i \in 1 .. 3 : both[i] = IF i <= 2 THEN <<a, b>>[i] ELSE <<c>>[i - 2]
    BY <1>1, <2>1, ConcatProperties
  <2>. QED  BY <2>2
<1>. HIDE DEF both
<1>3. \A i \in 1 .. 3 : both[i] = <<a, b, c>>[i]  BY <1>2
<1>4. both = <<a, b, c>>  BY <1>1, <1>2, <1>3, SeqEqual
<1>. QED  BY <1>4 DEF both

(* Looking an id up *)
LEMMA LookupsCheck ==
  /\ \A k \in Indexed : <<Find(k)>> \in Checks
  /\ \A k \in RecordKinds : <<FindLog(k)>> \in Checks /\ <<Need, FindLog(k), Need>> \in Openings
<1>1. ASSUME NEW k \in Indexed PROVE <<Find(k)>> \in Checks
  BY <1>1 DEF Checks, Writeless, Steps, Writing, Find, Step
<1>2. ASSUME NEW k \in RecordKinds PROVE <<FindLog(k)>> \in Checks
  BY <1>2 DEF Checks, Writeless, Steps, Writing, FindLog, Step
<1>3. ASSUME NEW k \in RecordKinds PROVE <<Need, FindLog(k), Need>> \in Openings
  <2>1. Need \in Steps /\ FindLog(k) \in Steps  BY DEF Steps
  <2>2. Need.do = "need" /\ FindLog(k).do = "search"  BY DEF Need, FindLog, Step
  <2>. QED  BY <2>1, <2>2 DEF Openings, Opens, Checks, Writeless, Writing, Opening
<1>. QED  BY <1>1, <1>2, <1>3

(* Commands on artifacts, decisions, objects and contexts *)
LEMMA RecordPrograms ==
  UNION {ArtifactProposals, DecisionCommands, RdeDraftCommand, ObjectCommands, InjectionCommands,
         AiBoundaryCommands, ClassificationCommands, ContextProposals} \subseteq Sounds
<1>1. ArtifactProposals \subseteq Sounds
  <2>1. <<Need, Load, Find("artifact"), Ask, Put("proposal"), Rebuild>> \in Sounds
    BY DEF Sounds, Halves, Guarded, Ordered, Settled, Steps, RecordKinds, Indexed, Logged, StoredKinds, Opening,
           Writing, Choosy, FoundKinds, Need, Load, Ask, Call, Out, Rebuild, Make, Find, FindLog, FindFile, Put,
           Save, Step
  <2>. QED  BY <2>1, Pieces, SequencesJoin DEF ArtifactProposals
<1>2. DecisionCommands \subseteq Sounds
  <2>1. Maybe({<<Load, Find("artifact")>>}) \subseteq Checks /\ {<<Put("decision"), Rebuild>>} \subseteq Halves
        /\ {<<Need>>} \subseteq Openings
    BY Pieces, MaybeNothing
  <2>. QED  BY <2>1, Joined DEF DecisionCommands
<1>3. RdeDraftCommand \subseteq Sounds
  <2>1. Maybe({RecordObject}) \subseteq Keeps /\ {RecordRde} \subseteq Sounds /\ {<<Need>>} \subseteq Checks
    BY Pieces, MaybeNothing
  <2>2. Maybe(Then({RecordRde}, Maybe({RecordObject}))) \subseteq Sounds
    BY <2>1, Joined, MaybeNothing
  <2>. QED  BY <2>1, <2>2, Joined DEF RdeDraftCommand
<1>4. ObjectCommands \subseteq Sounds
  <2>1. /\ {<<Find(k)>> : k \in {"artifact", "context", "decision", "rde"}} \subseteq Checks
        /\ <<FindLog("object")>> \in Checks
    BY LookupsCheck DEF RecordKinds, Indexed, Logged
  <2>2. {ListObjects} \subseteq Checks  BY Pieces
  <2>3. DerivedObjects \subseteq Checks  BY <2>1, <2>2, Joined DEF DerivedObjects
  <2>4. One(ListObjects \o <<FindLog("object")>>) \subseteq Checks
    BY <2>1, <2>2, SequencesJoin DEF One
  <2>. QED  BY <2>2, <2>3, <2>4, Pieces, KindsNest DEF ObjectCommands, GetObject
<1>5. InjectionCommands \subseteq Sounds
  <2>1. {<<Need, Load, Need, Load>>} \subseteq Checks /\ Maybe({<<Need, Put("entry")>>}) \subseteq Keeps
    BY Pieces, MaybeNothing
  <2>. QED  BY <2>1, Joined, KindsNest DEF InjectionCommands
<1>6. AiBoundaryCommands \subseteq Sounds
  <2>1. {<<Ask, Need>>} \subseteq Openings /\ Maybe({<<Put("entry")>>}) \subseteq Halves
    BY Pieces, MaybeNothing
  <2>. QED  BY <2>1, Joined DEF AiBoundaryCommands
<1>7. UpdateContext \in Sounds  BY Pieces, SequencesJoin DEF UpdateContext
<1>8. ClassificationCommands \subseteq Sounds
  <2>1. <<Need, Rebuild, Load>> \in Checks
    BY DEF Checks, Writeless, Steps, Writing, Need, Rebuild, Load, Step
  <2>2. <<Ask>> \o UpdateContext \in Sounds  BY <1>7, Pieces, SequencesJoin
  <2>. QED  BY <2>1, <2>2, Pieces, KindsNest DEF ClassificationCommands
<1>9. ContextProposals \subseteq Sounds
  <2>1. <<Need, Load, Find("context"), Ask, Put("proposal"), Rebuild>> \in Sounds
    BY DEF Sounds, Halves, Guarded, Ordered, Settled, Steps, RecordKinds, Indexed, Logged, StoredKinds, Opening,
           Writing, Choosy, FoundKinds, Need, Load, Ask, Call, Out, Rebuild, Make, Find, FindLog, FindFile, Put,
           Save, Step
  <2>. QED  BY <1>7, <2>1, Pieces, SequencesJoin DEF ContextProposals
<1>. QED  BY <1>1, <1>2, <1>3, <1>4, <1>5, <1>6, <1>8, <1>9

(* Commands on packages, trust, the daemon and the views *)
LEMMA ExchangePrograms ==
  UNION {TrustCommands, ExportCommand, SimulateCommand, FederationPackageCreate, FederationMessages,
         AiIndexCommands, ProfileCommand, ContextPackageCommand, QueryEngineAdapter,
         QueryEngineBundle} \subseteq Sounds
<1>1. TrustCommands \subseteq Sounds
  <2>1. <<Need, Save("other")>> \in Sounds /\ <<Need>> \in Sounds
    BY DEF Sounds, Halves, Guarded, Ordered, Settled, Steps, StoredKinds, Opening, Writing, Choosy, Need, Save, Step
  <2>. QED  BY <2>1, Pieces, SequencesJoin DEF TrustCommands
<1>2. ExportCommand \subseteq Sounds
  <2>1. {<<Ask, Need, Load>>} \subseteq Checks /\ Maybe({<<Out>>}) \subseteq Checks
    BY Pieces, MaybeNothing
  <2>. QED  BY <2>1, Joined, KindsNest DEF ExportCommand
<1>3. SimulateCommand \subseteq Sounds
  <2>1. Maybe({<<Put("entry"), Rebuild>> \o Audit}) \subseteq Halves /\ {<<Need, Ask>>} \subseteq Openings
    BY Pieces, SequencesJoin, MaybeNothing
  <2>. QED  BY <2>1, Joined DEF SimulateCommand
<1>4. FederationPackageCreate \subseteq Sounds
  <2>1. CreatePackage \in Sounds  BY Pieces, KindsNest, SequencesJoin DEF CreatePackage
  <2>. QED  BY <2>1, Pieces, SequencesJoin DEF FederationPackageCreate
<1>5. FederationMessages \subseteq Sounds
  <2>1. <<Need, FindFile("message")>> \in Checks /\ Audit \o <<Save("message")>> \in Keeps
    <3>1. <<Need, FindFile("message")>> \in Checks
      BY DEF Checks, Writeless, Steps, StoredKinds, Writing, Need, FindFile, Step
    <3>2. Audit \o <<Save("message")>> = <<Need, Save("audit"), Save("message")>>  BY TwoAndOne DEF Audit
    <3>3. <<Need, Save("audit"), Save("message")>> \in Keeps
      BY DEF Keeps, Choiceless, Sounds, Halves, Guarded, Ordered, Settled, Steps, StoredKinds, Opening, Writing,
             Choosy, Need, Save, Step
    <3>. QED  BY <3>1, <3>2, <3>3
  <2>2. Maybe({Audit \o <<Save("message")>>}) \subseteq Keeps  BY <2>1, MaybeNothing
  <2>3. {<<Need, Ask, Save("message")>>} \subseteq Sounds  BY Pieces
  <2>4. Then({<<Need, Ask, Save("message")>>}, Maybe({Audit \o <<Save("message")>>})) \subseteq Sounds
    BY <2>2, <2>3, Joined
  <2>. QED  BY <2>1, <2>4, Pieces, KindsNest DEF FederationMessages
<1>6. AiIndexCommands \subseteq Sounds
  <2>. DEFINE Known == {<<FindLog("entry")>>} \cup {<<Find(k)>> : k \in Indexed}
  <2>1. Known \subseteq Checks
    BY LookupsCheck DEF RecordKinds, Indexed, Logged
  <2>2. {<<Ask, Need, Load>>} \subseteq Openings /\ Maybe({<<Save("other")>>}) \subseteq Halves
    BY Pieces, MaybeNothing
  <2>. HIDE DEF Known
  <2>3. Then({<<Ask, Need, Load>>}, Known) \subseteq Openings  BY <2>1, <2>2, Joined
  <2>4. Then(Then({<<Ask, Need, Load>>}, Known), Maybe({<<Save("other")>>})) \subseteq Sounds
    BY <2>2, <2>3, Joined
  <2>5. One(<<Need>>) \subseteq Sounds  BY Pieces, KindsNest DEF One
  <2>. QED  BY <2>4, <2>5 DEF AiIndexCommands, Known
<1>7. ProfileCommand \subseteq Sounds
  <2>1. {<<Need, Load>>} \subseteq Checks /\ Maybe({<<Out>>}) \subseteq Checks /\ Maybe({Audit}) \subseteq Keeps
    BY Pieces, MaybeNothing
  <2>2. Then({<<Need, Load>>}, Maybe({<<Out>>})) \subseteq Sounds  BY <2>1, Joined, KindsNest
  <2>. QED  BY <2>1, <2>2, Joined DEF ProfileCommand
<1>8. ContextPackageCommand \subseteq Sounds
  <2>1. {<<Need, Load>>} \subseteq Sounds /\ Maybe({<<Out>>}) \subseteq Keeps
        /\ Maybe({<<Need, Save("package")>> \o Audit}) \subseteq Keeps
    BY Pieces, KindsNest, SequencesJoin, MaybeNothing
  <2>2. Then({<<Need, Load>>}, Maybe({<<Need, Save("package")>> \o Audit})) \subseteq Sounds  BY <2>1, Joined
  <2>. QED  BY <2>1, <2>2, Joined DEF ContextPackageCommand
<1>9. QueryEngineAdapter \subseteq Sounds
  <2>1. {<<Need, Load, Ask>>} \subseteq Checks /\ Maybe({<<Out>>}) \subseteq Checks
    BY Pieces, MaybeNothing
  <2>. QED  BY <2>1, Joined, KindsNest DEF QueryEngineAdapter
<1>10. QueryEngineBundle \subseteq Sounds
  <2>1. <<Need, Load, Ask, Need, Load, Out, Out, Need, Load, Out, Out, Out, Out>> \in Checks
    BY DEF Checks, Writeless, Steps, Writing, Need, Load, Ask, Out, Step
  <2>. QED  BY <2>1, KindsNest DEF QueryEngineBundle
<1>. QED  BY <1>1, <1>2, <1>3, <1>4, <1>5, <1>6, <1>7, <1>8, <1>9, <1>10

(* Commands on plans, reviews, jobs and the runtime *)
LEMMA RuntimePrograms ==
  UNION {PlanPreviewCommand, PlanProposalCommand, ReviewDecisions, SummaryCommands, SummaryRun, SummaryPlan,
         GraphRagCommands, SummarizeCommand, RetrievePlanCommand, InvokePlanCommand, ExecutePlanCommand,
         InvokeCommand} \subseteq Sounds
<1>1. PlanPreviewCommand \subseteq Sounds
  <2>1. {BuildPlan} \subseteq Sounds /\ Maybe({<<Need, Put("plan"), Rebuild>>}) \subseteq Keeps
    BY Pieces, KindsNest, MaybeNothing
  <2>. QED  BY <2>1, Joined DEF PlanPreviewCommand
<1>2. PlanProposalCommand \subseteq Sounds
  <2>1. <<Ask, Need, Load, Find("artifact"), Ask, Put("proposal"), Rebuild>> \in Sounds
    BY DEF Sounds, Halves, Guarded, Ordered, Settled, Steps, RecordKinds, Indexed, Logged, StoredKinds, Opening,
           Writing, Choosy, FoundKinds, Need, Load, Ask, Call, Out, Rebuild, Make, Find, FindLog, FindFile, Put,
           Save, Step
  <2>2. BuildPlan \o BuildPlan \in Checks  BY Pieces, SequencesJoin
  <2>. QED  BY <2>1, <2>2, SequencesJoin DEF PlanProposalCommand
<1>3. ReviewDecisions \subseteq Sounds
  <2>1. ASSUME NEW k \in {"proposal", "plan", "invocation"}
        PROVE  <<Need, FindLog(k), Need>> \o Audit \o <<Put("entry")>> \in Sounds
    <3>1. <<Need, FindLog(k), Need>> \in Openings
      BY LookupsCheck DEF RecordKinds, Logged
    <3>2. Audit \in Seq(Steps) /\ <<Put("entry")>> \in Seq(Steps) /\ <<Need, FindLog(k), Need>> \in Seq(Steps)
      BY <3>1, Pieces, KindsNest
    <3>3. Audit \o <<Put("entry")>> \in Halves
      <4>1. Audit \o <<Put("entry")>> = <<Need, Save("audit"), Put("entry")>>  BY TwoAndOne DEF Audit
      <4>2. <<Need, Save("audit"), Put("entry")>> \in Halves
        BY DEF Halves, Ordered, Settled, Steps, StoredKinds, RecordKinds, Indexed, Logged, FoundKinds, Writing,
               Choosy, Need, Save, Put, Step
      <4>. QED  BY <4>1, <4>2
    <3>4. <<Need, FindLog(k), Need>> \o Audit \o <<Put("entry")>>
            = <<Need, FindLog(k), Need>> \o (Audit \o <<Put("entry")>>)
      BY <3>2, ConcatAssociative
    <3>. QED  BY <3>1, <3>3, <3>4, SequencesJoin
  <2>. QED  BY <2>1 DEF ReviewDecisions
<1>4. DraftJob \in Keeps
  <2>1. <<Need>> \o StoreText \in Keeps  BY Pieces, SequencesJoin
  <2>. QED  BY <2>1, Pieces, SequencesJoin DEF DraftJob
<1>5. KeepAnswer \subseteq Keeps
  <2>1. Maybe({DraftJob}) \subseteq Keeps /\ Maybe({StoreText}) \subseteq Keeps
        /\ Maybe({<<Need, Put("entry")>>}) \subseteq Keeps
    BY <1>4, Pieces, MaybeNothing
  <2>2. Then(Maybe({StoreText}), Maybe({<<Need, Put("entry")>>})) \subseteq Keeps  BY <2>1, Joined
  <2>. QED  BY <2>1, <2>2, Joined DEF KeepAnswer
<1>6. SummaryCommands \subseteq Sounds
  <2>1. <<Ask>> \o DraftJob \in Sounds  BY <1>4, Pieces, KindsNest, SequencesJoin
  <2>. QED  BY <2>1, Pieces, KindsNest DEF SummaryCommands
<1>7. SummaryRun \subseteq Sounds /\ SummarizeCommand \subseteq Sounds /\ ExecutePlanCommand \subseteq Sounds
      /\ InvokeCommand \subseteq Sounds
  <2>1. {<<Need, FindFile("job"), Call>>} \subseteq Sounds /\ {<<Ask, Call>>} \subseteq Sounds
        /\ {<<FindLog("invocation"), Ask, Call>>} \subseteq Sounds
    BY Pieces, KindsNest
  <2>. QED  BY <1>5, <2>1, Joined DEF SummaryRun, SummarizeCommand, ExecutePlanCommand, InvokeCommand
<1>8. SummaryPlan \subseteq Sounds /\ InvokePlanCommand \subseteq Sounds /\ RetrievePlanCommand \subseteq Sounds
  <2>1. {<<Need, FindFile("job")>>} \subseteq Sounds /\ {<<Ask>>} \subseteq Sounds /\ {<<Need, Load>>} \subseteq Sounds
        /\ Maybe({<<Need, Put("invocation")>>}) \subseteq Keeps /\ Maybe({<<Need, Put("entry")>>}) \subseteq Keeps
    BY Pieces, KindsNest, MaybeNothing
  <2>. QED  BY <2>1, Joined DEF SummaryPlan, InvokePlanCommand, RetrievePlanCommand
<1>9. GraphRagCommands \subseteq Sounds
  <2>. DEFINE Replace == <<Need, Call, Save("other"), Save("other")>>
  <2>1. Replace \in Keeps /\ {<<Ask>>} \subseteq Sounds /\ {<<Call, Call>>} \subseteq Keeps /\ <<>> \in Keeps
    BY Pieces, KindsNest
  <2>. HIDE DEF Replace
  <2>2. Then({<<Ask>>}, Maybe({Replace})) \subseteq Sounds  BY <2>1, MaybeNothing, Joined
  <2>3. Then(Then({<<Ask>>}, Maybe({Replace})), {<<Call, Call>>}) \subseteq Sounds  BY <2>1, <2>2, Joined
  <2>. QED  BY <2>1, <2>3, KindsNest DEF GraphRagCommands, Replace
<1>. QED  BY <1>1, <1>2, <1>3, <1>6, <1>7, <1>8, <1>9

(* Every command of the line is a sound sequence *)
LEMMA ProgramsAreSound == Programs \subseteq Sounds
BY PlainPrograms, RecordPrograms, ExchangePrograms, RuntimePrograms DEF Programs

----------------------------------------------------------------------------
(* CommandLine: the invariant                                                 *)

Refusals == {"uninitialised", "unreadable", "missed", "unknown", "refused"}
Ends == Refusals \cup {"idle", "run", "ok", "killed", "outside", "unbuildable"}

Command ==
  [rest : Seq(Steps), new : SUBSET (RecordKinds \cup StoredKinds \cup {"root"}),
   snap : [Indexed -> Nat], saving : BOOLEAN, end : Ends]

CommandTypes ==
  /\ ready \in BOOLEAN /\ torn \in BOOLEAN /\ overlapped \in BOOLEAN
  /\ recorded \in [RecordKinds -> Nat] /\ index \in [Indexed -> Nat]
  /\ files \subseteq StoredKinds /\ cmd \in [Procs -> Command]
  /\ started \in Nat /\ killed \in Nat

(* Without a root there is nothing to find                                   *)
NothingYet ==
  ~ready =>
    /\ recorded = None /\ index = NoIndex /\ files = {}
    /\ \A p \in Procs : cmd[p].snap = NoIndex

(* What a command has left to do: it has not written on a guess, and once it   *)
(* has written there is nothing left that can refuse                          *)
Careful(p) ==
  Running(p) =>
    /\ Ordered(cmd[p].rest) /\ Settled(cmd[p].rest)
    /\ ready \/ Guarded(cmd[p].rest)
    /\ cmd[p].new # {} => ready /\ Choiceless(cmd[p].rest)

(* What an error left: nothing, or an event that a rebuild could not read *)
Harmless(p) ==
  /\ cmd[p].end \in Refusals => cmd[p].new = {}
  /\ cmd[p].end = "unbuildable" /\ cmd[p].new # {} => Due(p).do = "rebuild" /\ spoilt # "no"

Rebuilding(p) == Running(p) /\ cmd[p].rest # <<>> /\ Due(p).do = "rebuild"

(* As long as commands run one after another and none is killed, the indexes  *)
(* are behind the log only until the rebuild that the command does next       *)
Followed ==
  /\ torn = FALSE
  /\ \A p, q \in Procs : Running(p) /\ Running(q) => p = q
  /\ (\A p \in Procs : ~Rebuilding(p)) => \A k \in FoundKinds : index[k] = recorded[k]
  /\ \A p \in Procs : cmd[p].saving = TRUE => \A k \in Indexed : cmd[p].snap[k] = recorded[k]
  /\ \A p \in Procs : Missed(p) => Due(p).of = "rde"

CommandInv ==
  /\ CommandTypes /\ NothingYet
  /\ \A p \in Procs : Careful(p) /\ Harmless(p) /\ (cmd[p].saving = TRUE => Rebuilding(p))
  /\ ~overlapped /\ killed = 0 /\ spoilt = "no" => Followed

----------------------------------------------------------------------------
(* CommandLine: what a step leaves to do                                      *)

(* What of a sound sequence is left sound when its first step is done *)
LEMMA StepDone ==
  ASSUME NEW s \in Seq(Steps), s # <<>>
  PROVE  /\ Tail(s) \in Seq(Steps) /\ Head(s) \in Steps /\ Formed(Head(s))
         /\ Ordered(s) => Ordered(Tail(s))
         /\ Settled(s) => Settled(Tail(s))
         /\ Choiceless(s) => Choiceless(Tail(s)) /\ Head(s).do \notin Choosy
         /\ Guarded(s) => Head(s).do \notin {"put", "save"}
         /\ Guarded(s) /\ Head(s).do \notin Opening => Guarded(Tail(s))
         /\ Ordered(s) /\ Head(s).do \in Writing => Choiceless(Tail(s))
         /\ Settled(s) /\ Head(s).do = "put" /\ Head(s).of \in FoundKinds =>
              Tail(s) # <<>> /\ Head(Tail(s)).do = "rebuild"
<1>1. PICK t : t = Tail(s)  OBVIOUS
<1>2. /\ t \in Seq(Steps) /\ Head(s) \in Steps /\ Len(s) = Len(t) + 1 /\ Len(t) \in Nat /\ Head(s) = s[1]
      /\ \A i \in 1 .. Len(t) : t[i] = s[i + 1] /\ i + 1 \in 1 .. Len(s)
      /\ 1 \in 1 .. Len(s)
  BY <1>1, HeadTailProperties, LenProperties
<1>3. \A i \in 1 .. Len(s) : i = 1 \/ (i - 1 \in 1 .. Len(t) /\ t[i - 1] = s[i])
  BY <1>2
<1>4. Formed(Head(s))  BY <1>2, StepsFormed
<1>5. Ordered(s) => Ordered(t)
  <2>1. ASSUME Ordered(s), NEW i \in 1 .. Len(t), NEW j \in 1 .. Len(t), i < j, t[i].do \in Writing
        PROVE  t[j].do \notin Choosy
    <3>1. i + 1 \in 1 .. Len(s) /\ j + 1 \in 1 .. Len(s) /\ i + 1 < j + 1 /\ t[i] = s[i + 1] /\ t[j] = s[j + 1]
      BY <1>2, <2>1
    <3>. QED  BY <2>1, <3>1 DEF Ordered
  <2>. QED  BY <2>1 DEF Ordered
<1>6. Settled(s) => Settled(t)
  <2>1. ASSUME Settled(s), NEW i \in 1 .. Len(t), t[i].do = "put", t[i].of \in FoundKinds
        PROVE  i < Len(t) /\ t[i + 1].do = "rebuild"
    <3>1. PICK k \in 1 .. Len(s) : k = i + 1 /\ t[i] = s[k]  BY <1>2
    <3>2. k < Len(s) /\ s[k + 1].do = "rebuild"  BY <2>1, <3>1 DEF Settled
    <3>3. i < Len(t) /\ i + 1 \in 1 .. Len(t)  BY <1>2, <3>1, <3>2
    <3>. QED  BY <1>2, <3>1, <3>2, <3>3
  <2>. QED  BY <2>1 DEF Settled
<1>7. Choiceless(s) => Choiceless(t) /\ Head(s).do \notin Choosy
  BY <1>2 DEF Choiceless
<1>8. Guarded(s) => Head(s).do \notin {"put", "save"}
  BY <1>2 DEF Guarded
<1>9. ASSUME Guarded(s), Head(s).do \notin Opening PROVE Guarded(t)
  <2>1. ASSUME NEW j \in 1 .. Len(t), t[j].do \in {"put", "save"}
        PROVE  \E i \in 1 .. Len(t) : i < j /\ t[i].do \in Opening
    <3>1. PICK k \in 1 .. Len(s) : k = j + 1 /\ t[j] = s[k]  BY <1>2
    <3>2. PICK i \in 1 .. Len(s) : i < k /\ s[i].do \in Opening  BY <1>9, <2>1, <3>1 DEF Guarded
    <3>3. i # 1  BY <1>2, <1>9, <3>2
    <3>4. i - 1 \in 1 .. Len(t) /\ t[i - 1] = s[i] /\ i - 1 < j  BY <1>3, <3>1, <3>2, <3>3
    <3>. QED  BY <3>2, <3>4
  <2>. QED  BY <2>1 DEF Guarded
<1>10. Ordered(s) /\ Head(s).do \in Writing => Choiceless(t)
  <2>1. ASSUME Ordered(s), Head(s).do \in Writing, NEW i \in 1 .. Len(t) PROVE t[i].do \notin Choosy
    <3>1. 1 < i + 1 /\ i + 1 \in 1 .. Len(s) /\ s[i + 1] = t[i]  BY <1>2
    <3>. QED  BY <1>2, <2>1, <3>1 DEF Ordered
  <2>. QED  BY <2>1 DEF Choiceless
<1>11. Settled(s) /\ Head(s).do = "put" /\ Head(s).of \in FoundKinds => t # <<>> /\ Head(t).do = "rebuild"
  <2>1. ASSUME Settled(s), Head(s).do = "put", Head(s).of \in FoundKinds PROVE t # <<>> /\ Head(t).do = "rebuild"
    <3>1. 1 < Len(s) /\ s[1 + 1].do = "rebuild"  BY <1>2, <2>1 DEF Settled
    <3>2. t # <<>> /\ 1 \in 1 .. Len(t)  BY <1>2, <3>1, EmptySeq
    <3>. QED  BY <1>2, <3>1, <3>2
  <2>. QED  BY <2>1
<1>. QED  BY <1>1, <1>2, <1>4, <1>5, <1>6, <1>7, <1>8, <1>9, <1>10, <1>11

(* One command goes on, the others stay as they are *)
LEMMA CommandMoves ==
  ASSUME CommandTypes, NEW p \in Procs, NEW c \in Command, cmd' = [cmd EXCEPT ![p] = c]
  PROVE  /\ cmd' \in [Procs -> Command] /\ cmd'[p] = c
         /\ \A q \in Procs : q # p => cmd'[q] = cmd[q]
BY DEF CommandTypes

(* The parts of a command, and changing one of them *)
LEMMA CommandFields ==
  ASSUME NEW c \in Command
  PROVE  /\ \A s \in Seq(Steps) : [c EXCEPT !.rest = s] \in Command
         /\ \A e \in Ends : [c EXCEPT !.end = e] \in Command
         /\ c.rest \in Seq(Steps) /\ c.new \subseteq RecordKinds \cup StoredKinds \cup {"root"}
         /\ c.snap \in [Indexed -> Nat] /\ c.saving \in BOOLEAN /\ c.end \in Ends
BY DEF Command

(* A command that the step is not of is as careful as before *)
LEMMA OthersStay ==
  ASSUME NEW q \in Procs, cmd'[q] = cmd[q], ready => ready', spoilt # "no" => spoilt' # "no",
         Careful(q), Harmless(q), cmd[q].saving = TRUE => Rebuilding(q)
  PROVE  Careful(q)' /\ Harmless(q)' /\ (cmd[q].saving = TRUE => Rebuilding(q))'
<1>1. Careful(q)'  BY DEF Careful, Running
<1>2. Harmless(q)'  BY DEF Harmless, Due
<1>3. (cmd[q].saving = TRUE => Rebuilding(q))'  BY DEF Rebuilding, Running, Due
<1>. QED  BY <1>1, <1>2, <1>3

(* A step that is passed and changes nothing but the command *)
LEMMA Passing ==
  ASSUME CommandInv, NEW p \in Procs, Running(p), cmd[p].rest # <<>>, Due(p).do # "rebuild",
         Due(p).do \in Opening => ready, Passed(p), UNCHANGED <<root, counters>>
  PROVE  CommandInv'
<1>. USE DEF root, counters
<1>1. CommandTypes /\ Careful(p) /\ Harmless(p)  BY DEF CommandInv
<1>2. PICK old \in Command : old = cmd[p]  BY <1>1 DEF CommandTypes
<1>3. PICK c : c = [old EXCEPT !.rest = Tail(old.rest)]  OBVIOUS
<1>4. old.rest \in Seq(Steps) /\ Tail(old.rest) \in Seq(Steps)  BY <1>2, CommandFields, StepDone
<1>5. c \in Command  BY <1>2, <1>3, <1>4, CommandFields
<1>6. cmd' = [cmd EXCEPT ![p] = c]  BY <1>2, <1>3 DEF Passed
<1>7. cmd' \in [Procs -> Command] /\ cmd'[p] = c /\ \A q \in Procs : q # p => cmd'[q] = cmd[q]
  BY <1>1, <1>5, <1>6, CommandMoves
<1>8. c.rest = Tail(old.rest) /\ c.new = old.new /\ c.snap = old.snap /\ c.saving = old.saving /\ c.end = old.end
  BY <1>2, <1>3 DEF Command
<1>9. old.end = "run" /\ old.saving # TRUE
  BY <1>2 DEF CommandInv, Running, Rebuilding
<1>10. CommandTypes'  BY <1>1, <1>7 DEF CommandTypes
<1>11. NothingYet'
  BY <1>2, <1>7, <1>8 DEF CommandInv, NothingYet, None, NoIndex
<1>12. ASSUME NEW q \in Procs PROVE Careful(q)' /\ Harmless(q)' /\ (cmd[q].saving = TRUE => Rebuilding(q))'
  <2>1. CASE q # p
    BY <1>7, <2>1, OthersStay DEF CommandInv
  <2>2. CASE q = p
    <3>1. Careful(p)'
      <4>1. Ordered(old.rest) /\ Settled(old.rest) /\ (ready \/ Guarded(old.rest))
            /\ (old.new # {} => ready /\ Choiceless(old.rest))
        BY <1>1, <1>2 DEF Careful
      <4>2. Ordered(c.rest) /\ Settled(c.rest) /\ (old.new # {} => ready /\ Choiceless(c.rest))
        BY <1>2, <1>4, <1>8, <4>1, StepDone
      <4>3. ready \/ Guarded(c.rest)
        BY <1>2, <1>4, <1>8, <4>1, StepDone DEF Due
      <4>. QED  BY <1>7, <1>8, <4>2, <4>3 DEF Careful
    <3>2. Harmless(p)'  BY <1>7, <1>8, <1>9 DEF Harmless, Refusals
    <3>3. cmd'[p].saving # TRUE  BY <1>7, <1>8, <1>9
    <3>. QED  BY <2>2, <3>1, <3>2, <3>3
  <2>. QED  BY <2>1, <2>2
<1>13. ASSUME ~overlapped, killed = 0, spoilt = "no" PROVE Followed'
  <2>1. Followed  BY <1>13 DEF CommandInv
  <2>2. \A q \in Procs : Running(q)' <=> Running(q)  BY <1>2, <1>7, <1>8 DEF Running
  <2>3. \A q \in Procs : ~Rebuilding(q)  BY <2>1 DEF Followed, Rebuilding
  <2>4. \A k \in FoundKinds : index[k] = recorded[k]  BY <2>1, <2>3 DEF Followed
  <2>5. (\A q, r \in Procs : Running(q) /\ Running(r) => q = r)'  BY <2>1, <2>2 DEF Followed
  <2>6. (\A q \in Procs : cmd[q].saving = TRUE => \A k \in Indexed : cmd[q].snap[k] = recorded[k])'
    BY ZenonT(60), <1>7, <1>8, <1>9, <2>1 DEF Followed
  <2>7. (\A q \in Procs : Missed(q) => Due(q).of = "rde")'
    BY <1>7, <1>8, <1>9, <2>1 DEF Followed, Missed, Due
  <2>8. torn' = FALSE  BY <2>1 DEF Followed
  <2>. QED  BY <2>4, <2>5, <2>6, <2>7, <2>8 DEF Followed
<1>. QED  BY <1>10, <1>11, <1>12, <1>13 DEF CommandInv

(* A step that raises *)
LEMMA Raising ==
  ASSUME CommandInv, NEW p \in Procs, NEW why \in Refusals \cup {"outside", "unbuildable"},
         Running(p), cmd[p].rest # <<>>, cmd[p].saving # TRUE,
         why # "unbuildable" => Due(p).do # "rebuild",
         why = "unbuildable" => spoilt # "no" /\ (cmd[p].new = {} \/ Due(p).do = "rebuild"),
         why \in Refusals => cmd[p].new = {},
         ~overlapped /\ killed = 0 /\ spoilt = "no" /\ why \in {"missed", "unreadable"} => Due(p).of = "rde",
         Raised(p, why), UNCHANGED <<root, counters>>
  PROVE  CommandInv'
<1>. USE DEF root, counters
<1>1. CommandTypes /\ Careful(p) /\ Harmless(p)  BY DEF CommandInv
<1>2. PICK old \in Command : old = cmd[p]  BY <1>1 DEF CommandTypes
<1>3. PICK c : c = [old EXCEPT !.end = why]  OBVIOUS
<1>4. why \in Ends /\ why # "run"  BY DEF Ends, Refusals
<1>5. c \in Command  BY <1>2, <1>3, <1>4, CommandFields
<1>6. cmd' = [cmd EXCEPT ![p] = c]  BY <1>2, <1>3 DEF Raised
<1>7. cmd' \in [Procs -> Command] /\ cmd'[p] = c /\ \A q \in Procs : q # p => cmd'[q] = cmd[q]
  BY <1>1, <1>5, <1>6, CommandMoves
<1>8. c.rest = old.rest /\ c.new = old.new /\ c.snap = old.snap /\ c.saving = old.saving /\ c.end = why
  BY <1>2, <1>3 DEF Command
<1>9. old.saving # TRUE  BY <1>2
<1>10. CommandTypes'  BY <1>1, <1>7 DEF CommandTypes
<1>11. NothingYet'
  BY <1>2, <1>7, <1>8 DEF CommandInv, NothingYet, None, NoIndex
<1>12. ASSUME NEW q \in Procs PROVE Careful(q)' /\ Harmless(q)' /\ (cmd[q].saving = TRUE => Rebuilding(q))'
  <2>1. CASE q # p
    BY <1>7, <2>1, OthersStay DEF CommandInv
  <2>2. CASE q = p
    <3>1. Careful(p)'  BY <1>4, <1>7, <1>8 DEF Careful, Running
    <3>2. Harmless(p)'  BY <1>2, <1>7, <1>8 DEF Harmless, Due, Refusals
    <3>3. cmd'[p].saving # TRUE  BY <1>7, <1>8, <1>9
    <3>. QED  BY <2>2, <3>1, <3>2, <3>3
  <2>. QED  BY <2>1, <2>2
<1>13. ASSUME ~overlapped, killed = 0, spoilt = "no" PROVE Followed'
  <2>1. Followed  BY <1>13 DEF CommandInv
  <2>2. \A q \in Procs : Running(q)' => Running(q)  BY <1>4, <1>7, <1>8 DEF Running
  <2>3. \A q \in Procs : ~Rebuilding(q)  BY <1>13, <2>1 DEF Followed, Rebuilding
  <2>4. \A k \in FoundKinds : index[k] = recorded[k]  BY <2>1, <2>3 DEF Followed
  <2>5. (\A q, r \in Procs : Running(q) /\ Running(r) => q = r)'  BY <2>1, <2>2 DEF Followed
  <2>6. (\A q \in Procs : cmd[q].saving = TRUE => \A k \in Indexed : cmd[q].snap[k] = recorded[k])'
    BY ZenonT(60), <1>7, <1>8, <1>9, <2>1 DEF Followed
  <2>7. (\A q \in Procs : Missed(q) => Due(q).of = "rde")'
    BY <1>2, <1>7, <1>8, <1>13, <2>1 DEF Followed, Missed, Due
  <2>8. torn' = FALSE  BY <2>1 DEF Followed
  <2>. QED  BY <2>4, <2>5, <2>6, <2>7, <2>8 DEF Followed
<1>. QED  BY <1>10, <1>11, <1>12, <1>13 DEF CommandInv

----------------------------------------------------------------------------
(* CommandLine: every step keeps the invariant                                *)

(* A command that has nothing to do *)
LEMMA IdleTyped ==
  /\ Idle \in Command /\ Idle.rest = <<>> /\ Idle.new = {} /\ Idle.snap = NoIndex /\ Idle.saving = FALSE
  /\ Idle.end = "idle"
<1>1. <<>> \in Seq(Steps) /\ "idle" \in Ends /\ NoIndex \in [Indexed -> Nat]
  BY EmptySeq DEF Ends, NoIndex
<1>. QED  BY <1>1 DEF Idle, Command

(* A command starts with a sound program and nothing written *)
LEMMA CommandStarts ==
  ASSUME CommandInv, NEW p \in Procs, Start(p)
  PROVE  CommandInv'
<1>. USE DEF root, counters
<1>1. CommandTypes /\ ~Running(p)  BY DEF CommandInv, Start
<1>2. PICK program \in Programs : cmd' = [cmd EXCEPT ![p] = [Idle EXCEPT !.rest = program, !.end = "run"]]
  BY DEF Start
<1>3. program \in Seq(Steps) /\ Ordered(program) /\ Settled(program) /\ Guarded(program)
  BY ProgramsAreSound DEF Sounds, Halves
<1>4. PICK c : c = [Idle EXCEPT !.rest = program, !.end = "run"]  OBVIOUS
<1>5. "run" \in Ends  BY DEF Ends
<1>6. /\ c \in Command /\ c.rest = program /\ c.new = {} /\ c.snap = NoIndex /\ c.saving = FALSE /\ c.end = "run"
  <2>1. PICK i \in Command : i = Idle  BY IdleTyped
  <2>2. c = [i EXCEPT !.rest = program, !.end = "run"]  BY <1>4, <2>1
  <2>3. c.rest = program /\ c.end = "run" /\ c.new = i.new /\ c.snap = i.snap /\ c.saving = i.saving
    BY <2>2 DEF Command
  <2>4. c \in Command  BY <1>3, <1>5, <2>2 DEF Command
  <2>. QED  BY <2>1, <2>3, <2>4, IdleTyped
<1>7. cmd' \in [Procs -> Command] /\ cmd'[p] = c /\ \A q \in Procs : q # p => cmd'[q] = cmd[q]
  BY <1>1, <1>2, <1>4, <1>6, CommandMoves
<1>8. c.rest = program /\ c.new = {} /\ c.snap = NoIndex /\ c.saving = FALSE /\ c.end = "run"
  BY <1>6
<1>9. UNCHANGED <<ready, recorded, index, torn, files, spoilt, killed>> /\ started' = started + 1
      /\ overlapped' = (overlapped \/ \E q \in Procs : Running(q))
  BY DEF Start
<1>10. CommandTypes'  BY <1>1, <1>7, <1>9 DEF CommandTypes
<1>11. NothingYet'
  BY <1>7, <1>8, <1>9 DEF CommandInv, NothingYet, None, NoIndex
<1>12. ASSUME NEW q \in Procs PROVE Careful(q)' /\ Harmless(q)' /\ (cmd[q].saving = TRUE => Rebuilding(q))'
  <2>1. CASE q # p
    BY <1>7, <1>9, <2>1, OthersStay DEF CommandInv
  <2>2. CASE q = p
    BY <1>3, <1>7, <1>8, <2>2 DEF Careful, Harmless
  <2>. QED  BY <2>1, <2>2
<1>13. ASSUME ~overlapped', killed' = 0, spoilt' = "no" PROVE Followed'
  <2>1. ~overlapped /\ \A q \in Procs : ~Running(q)  BY <1>9, <1>13
  <2>2. Followed  BY <1>9, <1>13, <2>1 DEF CommandInv
  <2>3. \A k \in FoundKinds : index[k] = recorded[k]  BY <2>1, <2>2 DEF Followed, Rebuilding
  <2>4. (\A q, r \in Procs : Running(q) /\ Running(r) => q = r)'  BY <1>7, <2>1 DEF Running
  <2>5. (\A q \in Procs : cmd[q].saving = TRUE => \A k \in Indexed : cmd[q].snap[k] = recorded[k])'
    BY <1>7, <1>8, <1>9, <2>2 DEF Followed
  <2>6. (\A q \in Procs : Missed(q) => Due(q).of = "rde")'
    BY <1>7, <1>8, <2>2 DEF Followed, Missed, Due
  <2>. QED  BY <1>9, <2>2, <2>3, <2>4, <2>5, <2>6 DEF Followed
<1>. QED  BY <1>10, <1>11, <1>12, <1>13 DEF CommandInv

(* A command that returns or is killed *)
LEMMA CommandEnds ==
  ASSUME CommandInv, NEW p \in Procs, Return(p) \/ Kill(p)
  PROVE  CommandInv'
<1>. USE DEF root, counters
<1>1. CommandTypes /\ Running(p)  BY DEF CommandInv, Return, Kill
<1>2. PICK e \in {"ok", "killed"} : cmd' = [cmd EXCEPT ![p] = [Idle EXCEPT !.end = e]]
                                   /\ (e = "ok" => Return(p)) /\ (e = "killed" => Kill(p))
  BY DEF Return, Kill
<1>3. e \in Ends /\ e \notin Refusals /\ e # "run"  BY DEF Ends, Refusals
<1>4. PICK c : c = [Idle EXCEPT !.end = e]  OBVIOUS
<1>5. c \in Command /\ c.rest = <<>> /\ c.new = {} /\ c.snap = NoIndex /\ c.saving = FALSE /\ c.end = e
  BY <1>3, <1>4, IdleTyped, CommandFields DEF Idle
<1>6. cmd' \in [Procs -> Command] /\ cmd'[p] = c /\ \A q \in Procs : q # p => cmd'[q] = cmd[q]
  BY <1>1, <1>2, <1>4, <1>5, CommandMoves
<1>7. UNCHANGED <<ready, recorded, index, files, spoilt, started, overlapped>> /\ killed' \in Nat /\ torn' \in BOOLEAN
      /\ (killed' = 0 => killed = 0)
  <2>1. cmd[p].saving \in BOOLEAN /\ torn \in BOOLEAN /\ killed \in Nat
    BY <1>1, CommandFields DEF CommandTypes
  <2>2. (torn \/ cmd[p].saving) \in BOOLEAN  BY <2>1
  <2>. QED  BY <2>1, <2>2 DEF Return, Kill
<1>8. CommandTypes'  BY <1>1, <1>6, <1>7 DEF CommandTypes
<1>9. NothingYet'
  BY <1>5, <1>6, <1>7 DEF CommandInv, NothingYet, None, NoIndex
<1>10. ASSUME NEW q \in Procs PROVE Careful(q)' /\ Harmless(q)' /\ (cmd[q].saving = TRUE => Rebuilding(q))'
  <2>1. CASE q # p
    BY <1>6, <1>7, <2>1, OthersStay DEF CommandInv
  <2>2. CASE q = p
    BY <1>3, <1>5, <1>6, <2>2 DEF Careful, Harmless, Running
  <2>. QED  BY <2>1, <2>2
<1>11. ASSUME ~overlapped', killed' = 0, spoilt' = "no" PROVE Followed'
  <2>1. Followed /\ killed = 0  BY <1>7, <1>11 DEF CommandInv
  <2>2. Return(p)
    BY <1>1, <1>2, <1>11, <2>1 DEF Kill, CommandTypes
  <2>3. cmd[p].rest = <<>> /\ torn' = torn  BY <2>2 DEF Return
  <2>4. \A q \in Procs : Running(q)' => Running(q)  BY <1>3, <1>5, <1>6 DEF Running
  <2>5. \A q \in Procs : ~Rebuilding(q)  BY <1>1, <2>1, <2>3 DEF Followed, Rebuilding
  <2>6. \A k \in FoundKinds : index[k] = recorded[k]  BY <2>1, <2>5 DEF Followed
  <2>7. (\A q, r \in Procs : Running(q) /\ Running(r) => q = r)'  BY <2>1, <2>4 DEF Followed
  <2>8. (\A q \in Procs : cmd[q].saving = TRUE => \A k \in Indexed : cmd[q].snap[k] = recorded[k])'
    BY <1>5, <1>6, <1>7, <2>1 DEF Followed
  <2>9. (\A q \in Procs : Missed(q) => Due(q).of = "rde")'
    BY <1>5, <1>6, <2>1 DEF Followed, Missed, Due
  <2>. QED  BY <1>7, <2>1, <2>3, <2>6, <2>7, <2>8, <2>9 DEF Followed
<1>. QED  BY <1>8, <1>9, <1>10, <1>11 DEF CommandInv

(* The steps that only look *)
LEMMA CommandLooks ==
  ASSUME CommandInv, NEW p \in Procs,
         Require(p) \/ LoadIndex(p) \/ Lookup(p) \/ LookupEvent(p) \/ OpenFile(p) \/ Depend(p)
  PROVE  CommandInv'
<1>1. /\ CommandTypes /\ NothingYet /\ Careful(p) /\ Running(p) /\ cmd[p].rest # <<>>
      /\ Due(p).do \in {"need", "load", "find", "search", "open", "ask", "call", "out"}
  BY DEF CommandInv, Require, LoadIndex, Lookup, LookupEvent, OpenFile, Depend, At
<1>2. UNCHANGED <<root, counters>>
  BY DEF Require, LoadIndex, Lookup, LookupEvent, OpenFile, Depend
<1>3. PICK due : due = Due(p)  OBVIOUS
<1>4. cmd[p].rest \in Seq(Steps) /\ Formed(due)
  BY <1>1, <1>3, CommandFields, StepDone DEF CommandTypes, Due
<1>5. due.do \in Choosy => cmd[p].new = {}
  BY <1>1, <1>3, <1>4, StepDone DEF Careful, Due
<1>6. ~ready => cmd[p].new = {}  BY <1>1 DEF Careful
<1>7. ASSUME ~overlapped, killed = 0, spoilt = "no"
      PROVE  ~IndexUnreadable /\ \A k \in FoundKinds : index[k] = recorded[k]
  <2>1. Followed  BY <1>7 DEF CommandInv
  <2>2. \A q \in Procs : ~Rebuilding(q)  BY <1>1, <2>1 DEF Followed, Rebuilding
  <2>3. \A q \in Procs : cmd[q].saving # TRUE  BY <2>2 DEF CommandInv
  <2>4. \A q \in Procs : cmd[q].saving = FALSE  BY <1>1, <2>3, CommandFields DEF CommandTypes
  <2>. QED  BY <2>1, <2>2, <2>4 DEF Followed, IndexUnreadable
<1>8. \/ /\ Passed(p) /\ (due.do \in Opening => ready)
      \/ \E why \in Refusals \cup {"outside", "unbuildable"} :
           /\ Raised(p, why) /\ (why \in Refusals => cmd[p].new = {})
           /\ why = "unbuildable" => spoilt # "no" /\ cmd[p].new = {}
           /\ ~overlapped /\ killed = 0 /\ spoilt = "no" /\ why \in {"missed", "unreadable"} => due.of = "rde"
  <2>1. CASE Require(p)
    <3>1. due.do = "need"  BY <1>3, <2>1 DEF Require, At
    <3>. QED  BY <1>6, <2>1, <3>1 DEF Require, Refusals
  <2>2. CASE LoadIndex(p)
    <3>1. due.do = "load"  BY <1>3, <2>2 DEF LoadIndex, At
    <3>. QED  BY <1>5, <1>7, <2>2, <3>1 DEF LoadIndex, Refusals, Choosy, Opening
  <2>3. CASE Lookup(p)
    <3>1. due.do = "find" /\ due.of \in Indexed  BY <1>3, <1>4, <2>3 DEF Lookup, At, Formed
    <3>2. cmd[p].new = {}  BY <1>5, <3>1 DEF Choosy
    <3>3. index[due.of] > 0 => ready
      BY <1>1, <3>1 DEF NothingYet, NoIndex
    <3>4. ~overlapped /\ killed = 0 /\ spoilt = "no" /\ index[due.of] < recorded[due.of] => due.of = "rde"
      BY <1>1, <1>7, <3>1 DEF FoundKinds, CommandTypes
    <3>. QED  BY <1>3, <2>3, <3>2, <3>3, <3>4 DEF Lookup, Refusals
  <2>4. CASE LookupEvent(p)
    <3>1. due.do = "search" /\ cmd[p].new = {} /\ due.of \in RecordKinds
      BY <1>3, <1>4, <1>5, <2>4 DEF LookupEvent, At, Choosy, Formed
    <3>2. CASE Passed(p) /\ recorded[due.of] > 0
      <4>1. ready \/ recorded = None  BY <1>1 DEF NothingYet
      <4>2. ready
        BY <3>1, <3>2, <4>1 DEF None
      <4>. QED  BY <3>2, <4>2
    <3>3. CASE spoilt = "line" /\ Raised(p, "unbuildable")
      BY <3>1, <3>3 DEF Refusals
    <3>4. CASE Raised(p, "unknown")
      BY <3>1, <3>4 DEF Refusals
    <3>. QED  BY <1>3, <2>4, <3>1, <3>2, <3>3, <3>4 DEF LookupEvent
  <2>5. CASE OpenFile(p)
    <3>1. due.do = "open" /\ cmd[p].new = {}  BY <1>3, <1>5, <2>5 DEF OpenFile, At, Choosy
    <3>2. due.of \in files => ready  BY <1>1 DEF NothingYet
    <3>. QED  BY <1>3, <2>5, <3>1, <3>2 DEF OpenFile, Refusals
  <2>6. CASE Depend(p)
    <3>1. due.do \in {"ask", "call", "out"} /\ (due.do = "ask" => cmd[p].new = {})
      BY <1>3, <1>5, <2>6 DEF Depend, At, Choosy
    <3>. QED  BY <1>3, <2>6, <3>1 DEF Depend, At, Opening, Refusals
  <2>. QED  BY <2>1, <2>2, <2>3, <2>4, <2>5, <2>6
<1>9. due.do # "rebuild"  BY <1>1, <1>3
<1>10. cmd[p].saving # TRUE  BY <1>3, <1>9 DEF CommandInv, Rebuilding
<1>. QED  BY <1>1, <1>2, <1>3, <1>8, <1>9, <1>10, Passing, Raising

(* The steps that write *)
LEMMA CommandWrites ==
  ASSUME CommandInv, NEW p \in Procs, AppendEvent(p) \/ SaveFile(p) \/ MakeRoot(p)
  PROVE  CommandInv'
<1>. USE DEF root, counters
<1>1. /\ CommandTypes /\ NothingYet /\ Careful(p) /\ Running(p) /\ cmd[p].rest # <<>>
      /\ Due(p).do \in {"put", "save", "make"}
  BY DEF CommandInv, AppendEvent, SaveFile, MakeRoot, At
<1>2. PICK old \in Command : old = cmd[p]  BY <1>1 DEF CommandTypes
<1>3. PICK due : due = Due(p)  OBVIOUS
<1>4. /\ old.rest \in Seq(Steps) /\ old.rest # <<>> /\ due = Head(old.rest) /\ Formed(due) /\ due.do \in Writing
      /\ Tail(old.rest) \in Seq(Steps)
  BY <1>1, <1>2, <1>3, CommandFields, StepDone DEF Due, Writing
<1>5. PICK new : new = old.new \cup {IF due.do = "make" THEN "root" ELSE due.of}  OBVIOUS
<1>6. new \subseteq RecordKinds \cup StoredKinds \cup {"root"} /\ new # {}
  BY <1>1, <1>2, <1>3, <1>4, <1>5, CommandFields DEF Formed
<1>7. PICK c : c = [old EXCEPT !.rest = Tail(@), !.new = new]  OBVIOUS
<1>8. c.rest = Tail(old.rest) /\ c.new = new /\ c.snap = old.snap /\ c.saving = old.saving /\ c.end = old.end
  BY <1>2, <1>7 DEF Command
<1>9. c \in Command  BY <1>2, <1>4, <1>6, <1>7 DEF Command
<1>10. cmd' = [cmd EXCEPT ![p] = c]
  <2>1. CASE AppendEvent(p)
    <3>1. due.do = "put"  BY <1>3, <2>1 DEF AppendEvent, At
    <3>. QED  BY <1>2, <1>3, <1>5, <1>7, <2>1, <3>1 DEF AppendEvent, Wrote
  <2>2. CASE SaveFile(p)
    <3>1. due.do = "save"  BY <1>3, <2>2 DEF SaveFile, At
    <3>. QED  BY <1>2, <1>3, <1>5, <1>7, <2>2, <3>1 DEF SaveFile, Wrote
  <2>3. CASE MakeRoot(p)
    <3>1. due.do = "make"  BY <1>3, <2>3 DEF MakeRoot, At
    <3>. QED  BY <1>2, <1>3, <1>5, <1>7, <2>3, <3>1 DEF MakeRoot, Wrote
  <2>. QED  BY <2>1, <2>2, <2>3
<1>11. cmd' \in [Procs -> Command] /\ cmd'[p] = c /\ \A q \in Procs : q # p => cmd'[q] = cmd[q]
  BY <1>1, <1>9, <1>10, CommandMoves
<1>12. old.end = "run" /\ old.saving # TRUE
  BY <1>1, <1>2 DEF CommandInv, Running, Rebuilding
<1>13. ready' = TRUE
  <2>1. due.do # "make" => ready
    BY <1>1, <1>2, <1>3, <1>4, StepDone DEF Careful
  <2>. QED  BY <1>1, <1>3, <2>1 DEF AppendEvent, SaveFile, MakeRoot, At, CommandTypes
<1>14. UNCHANGED <<index, torn, spoilt, started, killed, overlapped>>
  BY DEF AppendEvent, SaveFile, MakeRoot
<1>15. recorded' \in [RecordKinds -> Nat] /\ files' \subseteq StoredKinds
  <2>1. CASE AppendEvent(p)
    <3>1. due.do = "put" /\ due.of \in RecordKinds  BY <1>3, <1>4, <2>1 DEF AppendEvent, At, Formed
    <3>. QED  BY <1>1, <1>3, <2>1, <3>1 DEF AppendEvent, CommandTypes
  <2>2. CASE SaveFile(p)
    <3>1. due.do = "save" /\ due.of \in StoredKinds  BY <1>3, <1>4, <2>2 DEF SaveFile, At, Formed
    <3>. QED  BY <1>1, <1>3, <2>2, <3>1 DEF SaveFile, CommandTypes
  <2>3. CASE MakeRoot(p)
    BY <1>1, <2>3 DEF MakeRoot, CommandTypes
  <2>. QED  BY <2>1, <2>2, <2>3
<1>16. CommandTypes'  BY <1>1, <1>11, <1>13, <1>14, <1>15 DEF CommandTypes
<1>17. NothingYet'  BY <1>13 DEF NothingYet
<1>18. ASSUME NEW q \in Procs PROVE Careful(q)' /\ Harmless(q)' /\ (cmd[q].saving = TRUE => Rebuilding(q))'
  <2>1. CASE q # p
    BY <1>11, <1>13, <1>14, <2>1, OthersStay DEF CommandInv
  <2>2. CASE q = p
    <3>1. Careful(p)'
      <4>1. Ordered(old.rest) /\ Settled(old.rest)
        BY <1>1, <1>2 DEF Careful
      <4>2. Ordered(c.rest) /\ Settled(c.rest) /\ Choiceless(c.rest)
        BY <1>4, <1>8, <4>1, StepDone
      <4>. QED  BY <1>11, <1>13, <4>2 DEF Careful
    <3>2. Harmless(p)'  BY <1>8, <1>11, <1>12 DEF Harmless, Refusals
    <3>3. cmd'[p].saving # TRUE  BY <1>8, <1>11, <1>12
    <3>. QED  BY <2>2, <3>1, <3>2, <3>3
  <2>. QED  BY <2>1, <2>2
<1>19. ASSUME ~overlapped', killed' = 0, spoilt' = "no" PROVE Followed'
  <2>1. Followed  BY <1>14, <1>19 DEF CommandInv
  <2>2. \A q \in Procs : Running(q)' <=> Running(q)  BY <1>2, <1>8, <1>11 DEF Running
  <2>3. \A q \in Procs : Running(q) => q = p  BY <1>1, <2>1 DEF Followed
  <2>4. \A q \in Procs : ~Rebuilding(q)  BY <1>1, <2>3 DEF Rebuilding
  <2>5. \A k \in FoundKinds : index[k] = recorded[k]  BY <2>1, <2>4 DEF Followed
  <2>6. (\A q, r \in Procs : Running(q) /\ Running(r) => q = r)'  BY <2>1, <2>2 DEF Followed
  <2>7. (\A q \in Procs : cmd[q].saving = TRUE => \A k \in Indexed : cmd[q].snap[k] = recorded[k])'
    <3>1. \A q \in Procs : cmd[q].saving # TRUE  BY <2>4 DEF CommandInv
    <3>2. \A q \in Procs : cmd'[q].saving # TRUE  BY <1>8, <1>11, <1>12, <3>1
    <3>. QED  BY <3>2
  <2>8. (\A q \in Procs : Missed(q) => Due(q).of = "rde")'
    BY <1>8, <1>11, <1>12, <2>1 DEF Followed, Missed, Due
  <2>9. (\A q \in Procs : ~Rebuilding(q))' => \A k \in FoundKinds : index'[k] = recorded'[k]
    <3>1. CASE recorded' = recorded
      BY <1>14, <2>5, <3>1
    <3>2. CASE recorded' # recorded
      <4>1. AppendEvent(p) /\ due.do = "put"
        BY <1>1, <1>3, <3>2 DEF AppendEvent, SaveFile, MakeRoot, At
      <4>2. due.of \in RecordKinds /\ recorded' = [recorded EXCEPT ![due.of] = @ + 1]
        BY <1>3, <1>4, <4>1 DEF AppendEvent, Formed
      <4>3. CASE due.of \in FoundKinds
        <5>1. c.rest # <<>> /\ Head(c.rest).do = "rebuild"
          BY <1>1, <1>2, <1>4, <1>8, <4>1, <4>3, StepDone DEF Careful
        <5>2. Rebuilding(p)'  BY <1>8, <1>11, <1>12, <5>1 DEF Rebuilding, Running, Due
        <5>. QED  BY <5>2
      <4>4. CASE due.of \notin FoundKinds
        <5>1. \A k \in FoundKinds : k \in RecordKinds /\ k # due.of  BY <4>4 DEF FoundKinds, RecordKinds
        <5>2. recorded \in [RecordKinds -> Nat]  BY <1>1 DEF CommandTypes
        <5>3. \A k \in FoundKinds : recorded'[k] = recorded[k]  BY <4>2, <5>1, <5>2
        <5>. QED  BY <1>14, <2>5, <5>3
      <4>. QED  BY <4>3, <4>4
    <3>. QED  BY <3>1, <3>2
  <2>10. torn' = FALSE  BY <1>14, <2>1 DEF Followed
  <2>. QED  BY <2>6, <2>7, <2>8, <2>9, <2>10 DEF Followed
<1>. QED  BY <1>16, <1>17, <1>18, <1>19 DEF CommandInv

(* The rebuild reads the log *)
LEMMA CommandReads ==
  ASSUME CommandInv, NEW p \in Procs, ReadRecords(p), spoilt = "no"
  PROVE  CommandInv'
<1>. USE DEF root, counters
<1>1. CommandTypes /\ NothingYet /\ Careful(p) /\ Rebuilding(p)
  BY DEF CommandInv, ReadRecords, At, Rebuilding
<1>2. PICK old \in Command : old = cmd[p]  BY <1>1 DEF CommandTypes
<1>3. PICK snap : snap = [k \in Indexed |-> recorded[k]]  OBVIOUS
<1>4. snap \in [Indexed -> Nat] /\ (recorded = None => snap = NoIndex)
  BY <1>1, <1>3 DEF CommandTypes, RecordKinds, None, NoIndex
<1>5. PICK c : c = [old EXCEPT !.snap = snap, !.saving = TRUE]  OBVIOUS
<1>6. c.rest = old.rest /\ c.new = old.new /\ c.snap = snap /\ c.saving = TRUE /\ c.end = old.end
  BY <1>2, <1>5 DEF Command
<1>7. c \in Command  BY <1>2, <1>4, <1>5 DEF Command
<1>8. cmd' = [cmd EXCEPT ![p] = c]
  BY <1>2, <1>3, <1>5 DEF ReadRecords
<1>9. cmd' \in [Procs -> Command] /\ cmd'[p] = c /\ \A q \in Procs : q # p => cmd'[q] = cmd[q]
  BY <1>1, <1>7, <1>8, CommandMoves
<1>10. UNCHANGED <<ready, recorded, index, torn, files, spoilt, started, killed, overlapped>>
  BY DEF ReadRecords
<1>11. CommandTypes'  BY <1>1, <1>9, <1>10 DEF CommandTypes
<1>12. NothingYet'
  BY <1>1, <1>4, <1>6, <1>9, <1>10 DEF NothingYet, None, NoIndex
<1>13. \A q \in Procs : (Running(q)' <=> Running(q)) /\ (Rebuilding(q)' <=> Rebuilding(q)) /\ Due(q)' = Due(q)
  BY <1>2, <1>6, <1>9 DEF Running, Rebuilding, Due
<1>14. ASSUME NEW q \in Procs PROVE Careful(q)' /\ Harmless(q)' /\ (cmd[q].saving = TRUE => Rebuilding(q))'
  <2>1. CASE q # p
    BY <1>9, <1>10, <2>1, OthersStay DEF CommandInv
  <2>2. CASE q = p
    <3>1. Careful(p)'  BY <1>1, <1>2, <1>6, <1>9, <1>10 DEF Careful, Running
    <3>2. Harmless(p)'  BY <1>2, <1>6, <1>9 DEF CommandInv, Harmless
    <3>. QED  BY <1>1, <1>13, <2>2, <3>1, <3>2
  <2>. QED  BY <2>1, <2>2
<1>15. ASSUME ~overlapped', killed' = 0, spoilt' = "no" PROVE Followed'
  <2>1. Followed  BY <1>10, <1>15 DEF CommandInv
  <2>2. (\A q, r \in Procs : Running(q) /\ Running(r) => q = r)'  BY <1>13, <2>1 DEF Followed
  <2>3. Rebuilding(p)'  BY <1>1, <1>13
  <2>4. (\A q \in Procs : cmd[q].saving = TRUE => \A k \in Indexed : cmd[q].snap[k] = recorded[k])'
    BY <1>3, <1>6, <1>9, <1>10, <2>1 DEF Followed
  <2>5. (\A q \in Procs : Missed(q) => Due(q).of = "rde")'
    BY <1>1, <1>2, <1>6, <1>9, <1>13, <2>1 DEF Followed, Missed, Rebuilding, Running
  <2>. QED  BY <1>10, <2>1, <2>2, <2>3, <2>4, <2>5 DEF Followed
<1>. QED  BY <1>11, <1>12, <1>14, <1>15 DEF CommandInv

(* The rebuild of a log that it cannot read *)
LEMMA CommandGivesUp ==
  ASSUME CommandInv, NEW p \in Procs, ReadRecords(p), spoilt # "no"
  PROVE  CommandInv'
<1>1. Running(p) /\ cmd[p].rest # <<>> /\ Due(p).do = "rebuild"  BY DEF ReadRecords, At
<1>2. cmd[p].saving # TRUE  BY DEF ReadRecords
<1>3. Raised(p, "unbuildable") /\ UNCHANGED <<root, counters>>  BY DEF ReadRecords
<1>4. "unbuildable" \notin Refusals  BY DEF Refusals
<1>. QED  BY <1>1, <1>2, <1>3, <1>4, Raising

(* The rebuild writes the indexes *)
LEMMA CommandSaves ==
  ASSUME CommandInv, NEW p \in Procs, SaveIndexes(p)
  PROVE  CommandInv'
<1>. USE DEF root, counters
<1>1. CommandTypes /\ NothingYet /\ Careful(p) /\ Rebuilding(p)
  BY DEF CommandInv, SaveIndexes, At, Rebuilding
<1>2. PICK old \in Command : old = cmd[p]  BY <1>1 DEF CommandTypes
<1>3. old.rest \in Seq(Steps) /\ old.rest # <<>> /\ Tail(old.rest) \in Seq(Steps)
      /\ Head(old.rest).do = "rebuild" /\ old.snap \in [Indexed -> Nat] /\ old.end = "run"
  BY <1>1, <1>2, CommandFields, StepDone DEF Rebuilding, Running, Due
<1>4. PICK c : c = [old EXCEPT !.rest = Tail(@), !.saving = FALSE, !.snap = NoIndex]  OBVIOUS
<1>5. c.rest = Tail(old.rest) /\ c.new = old.new /\ c.snap = NoIndex /\ c.saving = FALSE /\ c.end = old.end
  BY <1>2, <1>4 DEF Command
<1>6. NoIndex \in [Indexed -> Nat]  BY DEF NoIndex
<1>7. c \in Command  BY <1>2, <1>3, <1>4, <1>6 DEF Command
<1>8. cmd' = [cmd EXCEPT ![p] = c]
  BY <1>2, <1>4 DEF SaveIndexes
<1>9. cmd' \in [Procs -> Command] /\ cmd'[p] = c /\ \A q \in Procs : q # p => cmd'[q] = cmd[q]
  BY <1>1, <1>7, <1>8, CommandMoves
<1>10. UNCHANGED <<ready, recorded, files, spoilt, started, killed, overlapped>> /\ torn' = FALSE /\ index' = old.snap
       /\ cmd[p].saving
  BY <1>2 DEF SaveIndexes
<1>11. CommandTypes'  BY <1>1, <1>3, <1>9, <1>10 DEF CommandTypes
<1>12. NothingYet'
  BY <1>1, <1>2, <1>5, <1>9, <1>10 DEF NothingYet, None, NoIndex
<1>13. ASSUME NEW q \in Procs PROVE Careful(q)' /\ Harmless(q)' /\ (cmd[q].saving = TRUE => Rebuilding(q))'
  <2>1. CASE q # p
    BY <1>9, <1>10, <2>1, OthersStay DEF CommandInv
  <2>2. CASE q = p
    <3>1. Careful(p)'
      <4>1. Ordered(old.rest) /\ Settled(old.rest) /\ (ready \/ Guarded(old.rest))
            /\ (old.new # {} => ready /\ Choiceless(old.rest))
        BY <1>1, <1>2, <1>3 DEF Careful, Running
      <4>2. Ordered(c.rest) /\ Settled(c.rest) /\ (ready \/ Guarded(c.rest))
            /\ (old.new # {} => ready /\ Choiceless(c.rest))
        BY <1>3, <1>5, <4>1, StepDone DEF Opening
      <4>. QED  BY <1>5, <1>9, <1>10, <4>2 DEF Careful
    <3>2. Harmless(p)'  BY <1>3, <1>5, <1>9 DEF Harmless, Refusals
    <3>. QED  BY <1>5, <1>9, <2>2, <3>1, <3>2
  <2>. QED  BY <2>1, <2>2
<1>14. ASSUME ~overlapped', killed' = 0, spoilt' = "no" PROVE Followed'
  <2>1. Followed  BY <1>10, <1>14 DEF CommandInv
  <2>2. \A q \in Procs : Running(q)' <=> Running(q)  BY <1>2, <1>5, <1>9 DEF Running
  <2>3. (\A q, r \in Procs : Running(q) /\ Running(r) => q = r)'  BY <2>1, <2>2 DEF Followed
  <2>4. cmd[p].saving = TRUE
    BY <1>1, <1>10, CommandFields DEF CommandTypes
  <2>5. \A k \in FoundKinds : index'[k] = recorded'[k]
    BY <1>2, <1>10, <2>1, <2>4 DEF Followed, FoundKinds
  <2>6. (\A q \in Procs : cmd[q].saving = TRUE => \A k \in Indexed : cmd[q].snap[k] = recorded[k])'
    BY <1>5, <1>9, <1>10, <2>1 DEF Followed
  <2>7. (\A q \in Procs : Missed(q) => Due(q).of = "rde")'
    BY <1>3, <1>5, <1>9, <2>1 DEF Followed, Missed, Due
  <2>. QED  BY <1>10, <2>3, <2>5, <2>6, <2>7 DEF Followed
<1>. QED  BY <1>11, <1>12, <1>13, <1>14 DEF CommandInv

(* A log that no rebuild can read any more *)
LEMMA LogIsSpoilt ==
  ASSUME CommandInv, Spoil
  PROVE  CommandInv'
<1>. USE DEF counters
<1>1. UNCHANGED <<ready, recorded, index, torn, files, cmd, started, killed, overlapped>>
      /\ spoilt = "no" /\ spoilt' \in {"record", "line"}
  BY DEF Spoil
<1>2. CommandTypes'  BY <1>1 DEF CommandInv, CommandTypes
<1>3. NothingYet'  BY <1>1 DEF CommandInv, NothingYet
<1>4. ASSUME NEW q \in Procs PROVE Careful(q)' /\ Harmless(q)' /\ (cmd[q].saving = TRUE => Rebuilding(q))'
  BY <1>1, OthersStay DEF CommandInv
<1>5. spoilt' # "no"  BY <1>1
<1>. QED  BY <1>2, <1>3, <1>4, <1>5 DEF CommandInv

(* Each of the three roots a behaviour starts from satisfies the invariant *)
LEMMA CommandsBegin == CommandInit => CommandInv
<1>. SUFFICES ASSUME CommandInit PROVE CommandInv  OBVIOUS
<1>1. Idle.end = "idle" /\ "idle" \in Ends /\ "idle" \notin Refusals  BY DEF Ends, Refusals, Idle
<1>2. cmd \in [Procs -> Command] /\ \A p \in Procs : cmd[p] = Idle
  BY IdleTyped DEF CommandInit
<1>3. recorded \in [RecordKinds -> Nat] /\ files \subseteq StoredKinds /\ ready \in BOOLEAN
      /\ (ready = FALSE => recorded = None /\ files = {})
  <2>1. None \in [RecordKinds -> Nat] /\ [None EXCEPT !["entry"] = 1] \in [RecordKinds -> Nat]
        /\ [k \in RecordKinds |-> 1] \in [RecordKinds -> Nat]
    BY DEF None
  <2>2. {} \subseteq StoredKinds /\ StoredKinds \subseteq StoredKinds  OBVIOUS
  <2>3. CASE ready = FALSE /\ recorded = None /\ files = {}
    BY <2>1, <2>2, <2>3
  <2>4. CASE ready = TRUE /\ recorded = [None EXCEPT !["entry"] = 1] /\ files = {}
    BY <2>1, <2>2, <2>4
  <2>5. CASE ready = TRUE /\ recorded = [k \in RecordKinds |-> 1] /\ files = StoredKinds
    BY <2>1, <2>2, <2>5
  <2>. QED  BY <2>3, <2>4, <2>5 DEF CommandInit
<1>4. index = [k \in Indexed |-> recorded[k]] /\ Indexed \subseteq RecordKinds
  BY DEF CommandInit, RecordKinds
<1>5. CommandTypes  BY <1>2, <1>3, <1>4 DEF CommandInit, CommandTypes
<1>6. NothingYet  BY <1>2, <1>3, <1>4, IdleTyped DEF NothingYet, None, NoIndex
<1>7. \A p \in Procs : Careful(p) /\ Harmless(p) /\ (cmd[p].saving = TRUE => Rebuilding(p))
  BY <1>1, <1>2, IdleTyped DEF Careful, Harmless, Running
<1>8. Followed
  BY <1>1, <1>2, <1>4, IdleTyped DEF Followed, CommandInit, Running, Missed, FoundKinds
<1>. QED  BY <1>5, <1>6, <1>7, <1>8 DEF CommandInv

(* One lemma for each group of steps makes the invariant inductive *)
LEMMA CommandsAlways == CommandSpec => []CommandInv
<1>1. CommandInit => CommandInv  BY CommandsBegin
<1>2. CommandInv /\ [CommandNext]_commandVars => CommandInv'
  <2>1. ASSUME CommandInv, CommandNext PROVE CommandInv'
    <3>1. CASE Spoil  BY <2>1, <3>1, LogIsSpoilt
    <3>2. ASSUME NEW p \in Procs, Act(p) PROVE CommandInv'
      BY <2>1, <3>2, CommandStarts, CommandEnds, CommandLooks, CommandWrites, CommandReads, CommandGivesUp,
         CommandSaves DEF Act
    <3>. QED  BY <2>1, <3>1, <3>2 DEF CommandNext
  <2>2. ASSUME CommandInv, UNCHANGED commandVars PROVE CommandInv'
    <3>1. UNCHANGED <<ready, recorded, index, torn, files, spoilt, cmd, started, killed, overlapped>>
      BY <2>2 DEF commandVars, root, counters
    <3>. QED  BY <2>2, <3>1 DEF CommandInv, CommandTypes, NothingYet, Careful, Harmless, Rebuilding, Followed,
                               Running, Due, Missed
  <2>. QED  BY <2>1, <2>2
<1>. QED  BY <1>1, <1>2, PTL DEF CommandSpec

(* A command that ends with an error of its own has recorded and saved        *)
(* nothing, for any number of processes, commands and kills: every program of  *)
(* interfaces/cli checks what it is given before it writes, and writes only on *)
(* a root that some step has seen.  The one error that comes after an event is *)
(* that of rebuild_indexes over a log that holds what no rebuild can read.     *)
THEOREM ErrorsLeaveNothing == CommandSpec => []FailureIsClean
<1>1. CommandInv => FailureIsClean
  BY DEF CommandInv, Harmless, FailureIsClean, Refusals
<1>. QED  BY <1>1, CommandsAlways, PTL

(* As long as commands run one after another, none is killed and the log can   *)
(* be rebuilt, the lookup of a command finds every record of the commands before it, except an RDE    *)
(* record, which rde_service.record leaves to the next rebuild.               *)
THEOREM RecordsAreFound == CommandSpec => []FoundOnceRecorded
<1>1. CommandInv => FoundOnceRecorded
  BY DEF CommandInv, Followed, FoundOnceRecorded
<1>. QED  BY <1>1, CommandsAlways, PTL
=============================================================================
