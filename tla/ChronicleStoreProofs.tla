------------------------ MODULE ChronicleStoreProofs ------------------------
(***************************************************************************)
(* Proofs about ChronicleStore and Doctor, for every set of processes and   *)
(* operations and every value of the bounds.                                *)
(***************************************************************************)
EXTENDS Doctor, TLAPS, FiniteSetTheorems, SequenceTheorems, WellFoundedInduction

(***************************************************************************)
(* Facts about the operators                                                *)
(***************************************************************************)

(* A non-empty set of line numbers has a greatest element. *)
LEMMA GreatestLine ==
  ASSUME NEW n \in Nat, NEW T \in SUBSET (1 .. n), T # {}
  PROVE  \E i \in T : \A j \in T : j <= i
<1> DEFINE U == {n - i : i \in T}
<1>0. \A i \in T : i \in 1 .. n /\ n - i \in Nat
  OBVIOUS
<1>1. U \subseteq Nat /\ U # {}
  BY <1>0
<1>2. \E x \in U : \A y \in U : ~ (<<y, x>> \in OpToRel(<, Nat))
  <2> HIDE DEF U
  <2> QED BY <1>1, WFMin, NatLessThanWellFounded
<1>3. PICK x \in U : \A y \in U : ~ (y < x)
  BY <1>1, <1>2 DEF OpToRel
<1>4. PICK i \in T : x = n - i
  OBVIOUS
<1>5. \A j \in T : j <= i
  <2> TAKE j \in T
  <2>1. n - j \in U
    OBVIOUS
  <2>2. ~ (n - j < n - i)
    BY <2>1, <1>3, <1>4
  <2> QED BY <2>2
<1> QED BY <1>5

(* LastOf returns a line of the object, and no later line of it exists. *)
LEMMA LastOfLine ==
  ASSUME NEW lines \in Seq(Line), NEW is \in SUBSET (1 .. Len(lines)),
         NEW i0 \in is
  PROVE  LET m == LastOf(lines[i0].obj, lines, is)
         IN  /\ m \in is /\ lines[m].obj = lines[i0].obj
             /\ \A j \in is : lines[j].obj = lines[i0].obj => j <= m
<1> DEFINE k == lines[i0].obj
           T == {i \in is : lines[i].obj = k}
<1>1. T \in SUBSET (1 .. Len(lines)) /\ T # {}
  OBVIOUS
<1>2. \E i \in T : \A j \in T : j <= i
  <2> HIDE DEF T
  <2> QED BY <1>1, GreatestLine, LenProperties
<1>3. \E i \in is : lines[i].obj = k /\ \A j \in is : lines[j].obj = k => j <= i
  BY <1>2
<1> QED BY <1>3 DEF LastOf

(* What a projection of lines of the log looks like. *)
LEMMA ProjectType ==
  ASSUME NEW lines \in Seq(Line), NEW f \in IndexNames
  PROVE  IsIndex([state |-> "whole", map |-> Project(f, lines)])
<1> DEFINE is == Relevant(f, lines)
           m == Project(f, lines)
           Kept(k) == {lines[i].id : i \in {j \in is : lines[j].obj = k}}
           Last(k) == lines[LastOf(k, lines, is)].id
<1>1. is \in SUBSET (1 .. Len(lines)) /\ \A i \in is : lines[i] \in Event
  BY ElementOfSeq DEF Relevant, ReadAll, Line
<1>2. m = [k \in {lines[i].obj : i \in is} |->
             IF f = "artifacts"
               THEN [latest |-> Last(k), kept |-> Kept(k), rde |-> Attached(Kept(k), lines)]
               ELSE [latest |-> Last(k), kept |-> {Last(k)}, rde |-> {}]]
  BY DEF Project
<1>3. DOMAIN m = {lines[i].obj : i \in is}
  BY <1>2
<1> HIDE DEF is, m
<1>4. DOMAIN m \subseteq Ids
  BY <1>1, <1>3 DEF Event
<1>5. ASSUME NEW k \in DOMAIN m
      PROVE  m[k] \in [latest : Ids, kept : SUBSET Ids, rde : SUBSET (Ids \X Ids)]
  <2>1. PICK i0 \in is : lines[i0].obj = k
    BY <1>3, <1>5
  <2>2. LastOf(k, lines, is) \in is
    BY <1>1, <2>1, LastOfLine
  <2>3. Last(k) \in Ids
    BY <1>1, <2>2 DEF Event
  <2>4. Kept(k) \in SUBSET Ids
    BY <1>1 DEF Event
  <2>5. Attached(Kept(k), lines) \in SUBSET (Ids \X Ids)
    <3> HIDE DEF Kept
    <3>1. \A i \in Relevant("rde", lines) : lines[i] \in Event
      BY ElementOfSeq DEF Relevant, ReadAll, Line
    <3> QED BY <2>4, <3>1 DEF Attached, Event
  <2>6. m[k] = IF f = "artifacts"
                 THEN [latest |-> Last(k), kept |-> Kept(k), rde |-> Attached(Kept(k), lines)]
                 ELSE [latest |-> Last(k), kept |-> {Last(k)}, rde |-> {}]
    BY <1>2, <1>3
  <2> HIDE DEF Last, Kept
  <2> QED BY <2>3, <2>4, <2>5, <2>6
<1> QED BY <1>4, <1>5 DEF IsIndex, m

(***************************************************************************)
(* Types                                                                    *)
(***************************************************************************)

(* Every operation but index rebuild has prepared an event, and only such    *)
(* an operation reaches the steps that use it.                               *)
EventPrepared ==
  \A p \in Procs :
    /\ proc[p].op # "rebuild" => proc[p].evt \in Event
    /\ proc[p].pc \in {"meta", "touch", "current", "version", "report", "append", "load"}
         => proc[p].op # "rebuild"

(* Only an existing line can lack its newline. *)
OpenLine == open => log # <<>>

Typed == TypeOK /\ EventPrepared /\ OpenLine

(* A process between operations has its type.                                *)
LEMMA IdleType == Idle \in Proc /\ Idle.pc = "idle" /\ Idle.op = "rebuild"
  BY EmptySeq DEF Idle, Proc, NoEvent, Line, Broken, AllOps

(* A new store has its types.                                                *)
LEMMA InitTyped == Init => Typed
<1> SUFFICES ASSUME Init PROVE Typed
  OBVIOUS
<1>1. Created \in Event /\ 1 \in Ids
  BY BoundAssumption DEF Created, Event, Kinds, Ids
<1>2. log \in Seq(Line)
  <2>1. Created \in Line
    BY <1>1 DEF Line
  <2>2. <<>> \in Seq(Line) /\ <<Created>> \in Seq(Line)
    BY <2>1, EmptySeq
  <2> QED BY <2>2 DEF Init
<1>3. proc \in [Procs -> Proc]
  BY IdleType DEF Init
<1>4. \A f \in IndexNames : IsIndex(idx[f])
  BY DEF Init, IsIndex, NoMap
<1>5. EventPrepared
  BY IdleType DEF Init, EventPrepared
<1>6. open \in BOOLEAN /\ exists \in BOOLEAN
  BY DEF Init
<1>7. /\ cur \in [Ids -> 0 .. MaxOps]
      /\ vfile \in [Ids -> [Ids -> {"absent", "partial", "whole"}]]
      /\ report \in [Ids -> {"absent", "partial", "whole"}]
  BY BoundAssumption DEF Init
<1>8. /\ meta \in 0 .. MaxOps /\ next \in 1 .. MaxOps + 1 /\ acked \in SUBSET Ids
      /\ torn \in 0 .. MaxTorn /\ crashes \in 0 .. MaxCrash
  BY <1>1, BoundAssumption DEF Init
<1>9. DOMAIN idx = IndexNames
  BY DEF Init
<1>10. OpenLine
  BY DEF Init, OpenLine
<1> QED BY <1>2, <1>3, <1>4, <1>5, <1>6, <1>7, <1>8, <1>9, <1>10 DEF Typed, TypeOK

(* Beginning an operation with a well-typed event. *)
LEMMA BeginTyped ==
  ASSUME Typed, NEW p \in Procs, NEW o \in AllOps \ {"rebuild"}, NEW e \in Event,
         NEW where \in {"meta", "current", "report", "append", "read"},
         Begin(p, o, where, e)
  PROVE  /\ proc' \in [Procs -> Proc] /\ EventPrepared'
         /\ next' \in 1 .. MaxOps + 1
         /\ acked' \in SUBSET Ids /\ torn' \in 0 .. MaxTorn /\ crashes' \in 0 .. MaxCrash
<1> DEFINE new == [Idle EXCEPT !.pc = where, !.op = o, !.evt = e]
<1>1. new \in Proc /\ new.op = o /\ new.evt = e
  BY IdleType DEF Proc, Line, Idle
<1>2. proc' = [proc EXCEPT ![p] = new]
  BY DEF Begin
<1> HIDE DEF new
<1>3. proc' \in [Procs -> Proc] /\ EventPrepared'
  BY <1>1, <1>2 DEF Typed, TypeOK, EventPrepared
<1> QED BY <1>3, BoundAssumption DEF Begin, Typed, TypeOK, Ids

(* Moving to another step of the same operation, or ending it. *)
LEMMA GotoTyped ==
  ASSUME Typed, NEW p \in Procs, NEW where, Goto(p, where),
         where \in {"idle", "touch", "version", "append", "read", "write", "load"},
         where \in {"touch", "version", "append", "load"} => proc[p].op # "rebuild"
  PROVE  proc' \in [Procs -> Proc] /\ EventPrepared'
<1> DEFINE new == IF where = "idle" THEN Idle ELSE [proc[p] EXCEPT !.pc = where]
<1>1. proc[p] \in Proc
  BY DEF Typed, TypeOK
<1>2. new \in Proc
  BY <1>1, IdleType DEF Proc
<1>3. /\ new.op # "rebuild" => new.evt \in Event
      /\ new.pc \in {"meta", "touch", "current", "version", "report", "append", "load"}
           => new.op # "rebuild"
  <2>1. CASE where = "idle"
    BY <2>1, IdleType
  <2>2. CASE where # "idle"
    BY <2>2, <1>1 DEF Proc, Typed, EventPrepared
  <2> QED BY <2>1, <2>2
<1>4. proc' = [proc EXCEPT ![p] = new]
  BY DEF Goto
<1> HIDE DEF new
<1> QED BY <1>2, <1>3, <1>4 DEF Typed, TypeOK, EventPrepared

(* The events that operations prepare. *)
LEMMA NewEventType ==
  ASSUME Typed, meta # 0, next \in Ids,
         NEW kind \in Kinds, NEW obj \in Ids, NEW refs \in SUBSET Ids
  PROVE  NewEvent(kind, obj, refs) \in Event
  BY BoundAssumption DEF NewEvent, Event, Typed, TypeOK, Ids

(* The stamp of the chronicle id changes nothing else of an event.           *)
LEMMA StampedType ==
  ASSUME Typed, NEW p \in Procs, proc[p].pc = "append", proc[p].op = "init" \/ Initialized
  PROVE  /\ Stamped(p) \in Event
         /\ Stamped(p).id = proc[p].evt.id /\ Stamped(p).kind = proc[p].evt.kind
         /\ Stamped(p).obj = proc[p].evt.obj /\ Stamped(p).refs = proc[p].evt.refs
<1>1. proc[p].evt \in Event
  BY DEF Typed, TypeOK, EventPrepared
<1>2. CASE proc[p].op \in {"record", "add_context", "update_context", "add_rule", "rde"}
  <2>1. meta \in Ids
    BY <1>2 DEF Initialized, Typed, TypeOK, Ids
  <2> QED BY <1>1, <1>2, <2>1 DEF Stamped, Event
<1>3. CASE proc[p].op \notin {"record", "add_context", "update_context", "add_rule", "rde"}
  BY <1>1, <1>3 DEF Stamped
<1> QED BY <1>2, <1>3

(* A line that is no event: its id is nobody's.                              *)
LEMMA BrokenLine ==
  /\ \A l \in Broken : /\ l \in Line /\ l \notin Event /\ l.id = 0
                      /\ l.kind \in {"corrupt", "undecodable"} /\ ~ IsVersion(l)
  /\ \A e \in Event : e \notin Broken
  /\ Corrupt \in Broken /\ Undecodable \in Broken
<1>1. /\ Corrupt.id = 0 /\ Corrupt.kind = "corrupt"
      /\ Undecodable.id = 0 /\ Undecodable.kind = "undecodable"
  BY DEF Corrupt, Undecodable
<1>2. \A l \in Broken : l.id = 0 /\ l.kind \in {"corrupt", "undecodable"}
  BY <1>1 DEF Broken
<1>3. \A e \in Event : e.id # 0
  BY DEF Event, Ids
<1>. QED  BY <1>2, <1>3 DEF Broken, Line, IsVersion

Glued(l) == [log EXCEPT ![Len(log)] = l]

(* Gluing a line to an unterminated last line. *)
LEMMA GlueType ==
  ASSUME log \in Seq(Line), log # <<>>, NEW l \in Broken
  PROVE  /\ Glued(l) \in Seq(Line) /\ Len(Glued(l)) = Len(log)
         /\ \A i \in 1 .. Len(log) : Glued(l)[i] = IF i = Len(log) THEN l ELSE log[i]
<1>1. l \in Line
  BY BrokenLine
<1>2. Len(log) \in 1 .. Len(log)
  BY EmptySeq, LenProperties
<1> QED BY <1>1, <1>2, ExceptSeq DEF Glued

(* What an append does to the log.                                           *)
LEMMA AppendForms ==
  ASSUME Typed, NEW p \in Procs, AppendEvent(p) \/ AppendTorn(p)
  PROVE  \/ open /\ \E l \in Broken : log' = Glued(l)
         \/ /\ ~ open
            /\ \E l \in Broken \cup {Stamped(p)} :
                 log' = Append(log, l) /\ (AppendEvent(p) => l = Stamped(p))
<1>1. open /\ log' = Glue => open /\ \E l \in Broken : log' = Glued(l)
  BY DEF Glue, Glued, Broken
<1>2. open /\ log' = [log EXCEPT ![Len(log)] = Undecodable] => open /\ log' = Glued(Undecodable)
  BY DEF Glued
<1>3. CASE AppendEvent(p)
  BY <1>1, <1>3 DEF AppendEvent
<1>4. CASE AppendTorn(p) /\ open
  BY <1>1, <1>2, <1>4, BrokenLine DEF AppendTorn
<1>5. CASE AppendTorn(p) /\ ~ AppendEvent(p) /\ ~ open
  BY <1>5 DEF AppendTorn
<1>. QED  BY <1>3, <1>4, <1>5

(* What an index calls the latest snapshot is an id.                         *)
LEMMA LatestType ==
  ASSUME Typed, NEW f \in IndexNames, NEW k \in DOMAIN Load(f)
  PROVE  k \in Ids /\ Latest(f, k) \in Ids
  BY DEF Typed, TypeOK, IsIndex, Load, Latest

(* The five index files.                                                     *)
LEMMA IndexNamesType ==
  /\ IndexNames = {"artifacts", "contexts", "decisions", "rde", "rules"}
  /\ \A i \in 1 .. 5 : IndexFiles[i] \in IndexNames
  /\ Len(IndexFiles) = 5
<1>1. IndexNames = {IndexFiles[i] : i \in {1, 2, 3, 4, 5}}
  BY DEF IndexNames
<1> QED BY <1>1 DEF IndexFiles

(* Every action preserves the types. *)
LEMMA NextTyped == Typed /\ [Next]_vars => Typed'
<1> SUFFICES ASSUME Typed, [Next]_vars PROVE Typed'
  OBVIOUS
<1> USE DEF files, counts
<1>1. CASE UNCHANGED vars
  BY <1>1 DEF vars, Typed, TypeOK, EventPrepared, OpenLine
<1>2. ASSUME NEW p \in Procs, BeginInit(p) PROVE Typed'
  <2>1. [NewEvent("chronicle", next, {}) EXCEPT !.cid = next] \in Event
    BY <1>2, BoundAssumption DEF BeginInit, Begin, NewEvent, Event, Kinds
  <2>2. 0 \in 0 .. MaxOps
    BY BoundAssumption
  <2> QED BY <1>2, <2>1, <2>2, BeginTyped DEF BeginInit, Typed, TypeOK, OpenLine, AllOps
<1>3. ASSUME NEW p \in Procs, BeginRecord(p) PROVE Typed'
  <2>1. next \in Ids /\ meta # 0
    BY <1>3 DEF BeginRecord, Begin, Initialized
  <2>2. \A k \in {"note", "context", "rule"} : NewEvent(k, next, {}) \in Event
    BY <2>1, NewEventType DEF Kinds
  <2> QED BY <1>3, <2>2, BeginTyped DEF BeginRecord, Typed, TypeOK, OpenLine, AllOps
<1>4. ASSUME NEW p \in Procs, BeginCreate(p) PROVE Typed'
  <2>1. next \in Ids /\ meta # 0
    BY <1>4 DEF BeginCreate, Begin, Initialized
  <2>2. NewEvent("created_artifact", next, {}) \in Event
    BY <2>1, NewEventType DEF Kinds
  <2> QED BY <1>4, <2>2, BeginTyped DEF BeginCreate, Typed, TypeOK, OpenLine, AllOps
<1>5. ASSUME NEW p \in Procs, BeginUpdate(p) PROVE Typed'
  <2>1. next \in Ids /\ meta # 0
    BY <1>5 DEF BeginUpdate, Begin, Initialized
  <2>2. PICK a \in DOMAIN Load("artifacts") :
          Begin(p, "update", "current", NewEvent("versioned", a, {Latest("artifacts", a)}))
    BY <1>5 DEF BeginUpdate
  <2>3. a \in Ids /\ Latest("artifacts", a) \in Ids
    BY LatestType, IndexNamesType
  <2>4. NewEvent("versioned", a, {Latest("artifacts", a)}) \in Event
    BY <2>1, <2>3, NewEventType DEF Kinds
  <2> QED BY <1>5, <2>2, <2>4, BeginTyped DEF BeginUpdate, Typed, TypeOK, OpenLine, AllOps
<1>6. ASSUME NEW p \in Procs, BeginDecision(p) PROVE Typed'
  <2>1. next \in Ids /\ meta # 0
    BY <1>6 DEF BeginDecision, Begin, Initialized
  <2>2. \A a \in DOMAIN Load("artifacts") : a \in Ids
    BY LatestType, IndexNamesType
  <2>3. PICK refs \in SUBSET Ids : Begin(p, "decision", "append", NewEvent("decision", next, refs))
    BY <1>6, <2>2 DEF BeginDecision
  <2>4. NewEvent("decision", next, refs) \in Event
    BY <2>1, NewEventType DEF Kinds
  <2> QED BY <1>6, <2>3, <2>4, BeginTyped DEF BeginDecision, Typed, TypeOK, OpenLine, AllOps
<1>7. ASSUME NEW p \in Procs, BeginRde(p) PROVE Typed'
  <2>1. next \in Ids /\ meta # 0
    BY <1>7 DEF BeginRde, Begin, Initialized
  <2>2. \A a \in DOMAIN Load("artifacts") : a \in Ids
    BY LatestType, IndexNamesType
  <2>3. PICK refs \in SUBSET Ids, w \in Ids :
          Begin(p, "rde", "report", [NewEvent("rde", next, refs) EXCEPT !.to = w])
    BY <1>7, <2>2 DEF BeginRde
  <2>4. [NewEvent("rde", next, refs) EXCEPT !.to = w] \in Event
    <3>1. NewEvent("rde", next, refs) \in Event
      BY <2>1, NewEventType DEF Kinds
    <3> QED BY <3>1, BoundAssumption DEF Event, Ids
  <2> QED BY <1>7, <2>3, <2>4, BeginTyped DEF BeginRde, Typed, TypeOK, OpenLine, AllOps
<1>8. ASSUME NEW p \in Procs, BeginRebuild(p) PROVE Typed'
  <2>1. next \in Ids /\ meta # 0
    BY <1>8 DEF BeginRebuild, Begin, Initialized
  <2>2. NewEvent("context", next, {}) \in Event
    BY <2>1, NewEventType DEF Kinds
  <2>3. CASE Begin(p, "update_context", "read", NewEvent("context", next, {}))
    BY <1>8, <2>2, <2>3, BeginTyped DEF BeginRebuild, Typed, TypeOK, OpenLine, AllOps
  <2>4. CASE Begin(p, "rebuild", "read", NoEvent)
    <3> DEFINE new == [Idle EXCEPT !.pc = "read", !.op = "rebuild", !.evt = NoEvent]
    <3>1. new \in Proc /\ new.op = "rebuild" /\ new.pc = "read"
      BY IdleType DEF Proc, Line, Idle, NoEvent, AllOps
    <3>2. proc' = [proc EXCEPT ![p] = new]
      BY <2>4 DEF Begin
    <3> HIDE DEF new
    <3>3. proc' \in [Procs -> Proc] /\ EventPrepared'
      BY <3>1, <3>2 DEF Typed, TypeOK, EventPrepared
    <3> QED BY <1>8, <2>1, <2>4, <3>3, BoundAssumption DEF Begin, BeginRebuild, Typed, TypeOK, OpenLine, Ids
  <2> QED BY <1>8, <2>3, <2>4 DEF BeginRebuild
<1>9. ASSUME NEW p \in Procs, WriteMeta(p) PROVE Typed'
  <2>1. proc[p].op # "rebuild" /\ proc[p].evt \in Event
    BY <1>9 DEF WriteMeta, Typed, EventPrepared
  <2>2. meta' \in 0 .. MaxOps
    BY <1>9, <2>1, BoundAssumption DEF WriteMeta, Event, Ids
  <2> QED BY <1>9, <2>1, <2>2, GotoTyped DEF WriteMeta, Typed, TypeOK, OpenLine
<1>10. ASSUME NEW p \in Procs, TouchLog(p) PROVE Typed'
  <2>1. proc[p].op # "rebuild"
    BY <1>10 DEF TouchLog, Typed, EventPrepared
  <2> QED BY <1>10, <2>1, GotoTyped DEF TouchLog, Typed, TypeOK, OpenLine
<1>11. ASSUME NEW p \in Procs, WriteCurrent(p) PROVE Typed'
  <2>1. proc[p].op # "rebuild" /\ proc[p].evt \in Event
    BY <1>11 DEF WriteCurrent, Typed, EventPrepared
  <2>2. cur' \in [Ids -> 0 .. MaxOps]
    BY <1>11, <2>1, BoundAssumption DEF WriteCurrent, Event, Ids, Typed, TypeOK
  <2> QED BY <1>11, <2>1, <2>2, GotoTyped DEF WriteCurrent, Typed, TypeOK, OpenLine
<1>12. ASSUME NEW p \in Procs, WriteVersion(p) PROVE Typed'
  <2>1. proc[p].op # "rebuild" /\ proc[p].evt \in Event
    BY <1>12 DEF WriteVersion, Typed, EventPrepared
  <2>2. vfile' \in [Ids -> [Ids -> {"absent", "partial", "whole"}]]
    BY <1>12, <2>1 DEF WriteVersion, Event, Typed, TypeOK
  <2> QED BY <1>12, <2>1, <2>2, GotoTyped DEF WriteVersion, Typed, TypeOK, OpenLine
<1>21. ASSUME NEW p \in Procs, WriteReport(p) PROVE Typed'
  <2>1. proc[p].op # "rebuild" /\ proc[p].evt \in Event
    BY <1>21 DEF WriteReport, Typed, EventPrepared
  <2>2. report' \in [Ids -> {"absent", "partial", "whole"}]
    BY <1>21, <2>1 DEF WriteReport, Event, Typed, TypeOK
  <2> QED BY <1>21, <2>1, <2>2, GotoTyped DEF WriteReport, Typed, TypeOK, OpenLine
<1>13. ASSUME NEW p \in Procs, LoadContext(p) PROVE Typed'
  <2>1. proc[p].op # "rebuild" /\ proc[p].evt \in Event /\ proc[p] \in Proc
    BY <1>13 DEF LoadContext, Typed, TypeOK, EventPrepared
  <2>2. CASE Goto(p, "idle")
    BY <1>13, <2>2, GotoTyped DEF LoadContext, Typed, TypeOK, OpenLine
  <2>3. CASE \E c \in DOMAIN Load("contexts") :
               proc' = [proc EXCEPT ![p].pc = "append", ![p].evt.obj = c,
                                    ![p].evt.refs = {Latest("contexts", c)}]
    <3>1. PICK c \in DOMAIN Load("contexts") :
               proc' = [proc EXCEPT ![p].pc = "append", ![p].evt.obj = c,
                                    ![p].evt.refs = {Latest("contexts", c)}]
      BY <2>3
    <3>2. c \in Ids /\ Latest("contexts", c) \in Ids
      BY LatestType, IndexNamesType
    <3> DEFINE e == [proc[p].evt EXCEPT !.obj = c, !.refs = {Latest("contexts", c)}]
               new == [proc[p] EXCEPT !.pc = "append", !.evt = e]
    <3>3. e \in Event
      BY <2>1, <3>2 DEF Event
    <3>4. proc' = [proc EXCEPT ![p] = new]
      BY <3>1, <2>1 DEF Proc, Typed, TypeOK
    <3> HIDE DEF e
    <3>5. new \in Proc /\ new.op = proc[p].op /\ new.evt = e
      BY <2>1, <3>3 DEF Proc, Line
    <3> HIDE DEF new
    <3>6. proc' \in [Procs -> Proc] /\ EventPrepared'
      BY <2>1, <3>3, <3>4, <3>5 DEF Typed, TypeOK, EventPrepared
    <3> QED BY <1>13, <3>6 DEF LoadContext, Typed, TypeOK, OpenLine
  <2> QED BY <1>13, <2>2, <2>3 DEF LoadContext
<1>14. ASSUME NEW p \in Procs, AppendEvent(p) PROVE Typed'
  <2>1. Stamped(p) \in Line /\ Stamped(p) \in Event /\ proc[p].evt.id \in Ids
        /\ proc[p].op # "rebuild"
    BY <1>14, StampedType DEF AppendEvent, Line, Event, Typed, EventPrepared
  <2>2. log' \in Seq(Line)
    <3>1. log' = Append(log, Stamped(p)) \/ (open /\ \E l \in Broken : log' = Glued(l))
      BY <1>14, AppendForms
    <3>2. log \in Seq(Line) /\ (open => log # <<>>)
      BY DEF Typed, TypeOK, OpenLine
    <3>3. CASE open /\ \E l \in Broken : log' = Glued(l)
      BY <3>2, <3>3, GlueType
    <3>4. CASE log' = Append(log, Stamped(p))
      BY <2>1, <3>2, <3>4, AppendProperties
    <3> QED BY <3>1, <3>3, <3>4
  <2>3. proc' \in [Procs -> Proc] /\ EventPrepared'
    BY <1>14, GotoTyped DEF AppendEvent, AfterAppend
  <2> QED BY <1>14, <2>1, <2>2, <2>3 DEF AppendEvent, Typed, TypeOK, OpenLine
<1>15. ASSUME NEW p \in Procs, AppendRejected(p) PROVE Typed'
  BY <1>15, GotoTyped DEF AppendRejected, Typed, TypeOK, OpenLine
<1>151. ASSUME NEW p \in Procs, ReadLogRaises(p) PROVE Typed'
  BY <1>151, GotoTyped DEF ReadLogRaises, Typed, TypeOK, OpenLine
<1>16. ASSUME NEW p \in Procs, AppendTorn(p) PROVE Typed'
  <2>1. \A l \in Broken \cup {Stamped(p)} : l \in Line
    BY <1>16, StampedType, BrokenLine DEF AppendTorn, Line
  <2>2. log' \in Seq(Line) /\ log' # <<>>
    <3>1. \/ \E l \in Broken \cup {Stamped(p)} : log' = Append(log, l)
          \/ open /\ \E l \in Broken : log' = Glued(l)
      BY <1>16, AppendForms
    <3>2. log \in Seq(Line) /\ (open => log # <<>>)
      BY DEF Typed, TypeOK, OpenLine
    <3>3. ASSUME open, NEW l \in Broken, log' = Glued(l) PROVE log' \in Seq(Line) /\ log' # <<>>
      <4>1. Glued(l) \in Seq(Line) /\ Len(Glued(l)) = Len(log) /\ log # <<>>
        BY <3>2, <3>3, GlueType
      <4>2. Len(log) # 0
        BY <3>2, <4>1, EmptySeq
      <4> QED BY <3>3, <4>1, <4>2, EmptySeq
    <3>4. ASSUME NEW l \in Broken \cup {Stamped(p)}, log' = Append(log, l)
          PROVE  log' \in Seq(Line) /\ log' # <<>>
      BY <2>1, <3>2, <3>4, AppendProperties
    <3> QED BY <3>1, <3>3, <3>4
  <2>3. proc' \in [Procs -> Proc] /\ EventPrepared'
    BY <1>16, GotoTyped DEF AppendTorn
  <2>4. torn' \in 0 .. MaxTorn
    BY <1>16, BoundAssumption DEF AppendTorn, Typed, TypeOK
  <2> QED BY <1>16, <2>2, <2>3, <2>4 DEF AppendTorn, Typed, TypeOK, OpenLine
<1>17. ASSUME NEW p \in Procs, ReadLog(p) PROVE Typed'
  <2> DEFINE new == [proc[p] EXCEPT !.pc = "truncate", !.snap = log, !.todo = 1]
  <2>0. proc[p] \in Proc /\ log \in Seq(Line) /\ 1 \in 1 .. 5
    BY DEF Typed, TypeOK
  <2>1. new \in Proc /\ new.op = proc[p].op /\ new.evt = proc[p].evt /\ new.pc = "truncate"
    BY <2>0 DEF Proc
  <2>2. proc' = [proc EXCEPT ![p] = new]
    BY <1>17 DEF ReadLog, Typed, TypeOK, Proc
  <2> HIDE DEF new
  <2>3. proc' \in [Procs -> Proc] /\ EventPrepared'
    BY <2>1, <2>2 DEF Typed, TypeOK, EventPrepared
  <2> QED BY <1>17, <2>3 DEF ReadLog, Typed, TypeOK, OpenLine
<1>18. ASSUME NEW p \in Procs, TruncateIndex(p) PROVE Typed'
  <2>1. IsIndex([state |-> "empty", map |-> NoMap])
    BY DEF IsIndex, NoMap
  <2>2. DOMAIN idx' = IndexNames /\ \A f \in IndexNames : IsIndex(idx'[f])
    BY <1>18, <2>1 DEF TruncateIndex, Typed, TypeOK
  <2>3. proc' \in [Procs -> Proc] /\ EventPrepared'
    BY <1>18, GotoTyped DEF TruncateIndex
  <2> QED BY <1>18, <2>2, <2>3 DEF TruncateIndex, Typed, TypeOK, OpenLine
<1>19. ASSUME NEW p \in Procs, WriteIndex(p) PROVE Typed'
  <2> DEFINE f == IndexFiles[proc[p].todo]
             mine == [state |-> "whole", map |-> Project(f, proc[p].snap)]
             garbled == [state |-> "garbled", map |-> NoMap]
  <2>1. proc[p] \in Proc /\ proc[p].todo \in 1 .. 5 /\ f \in IndexNames /\ proc[p].snap \in Seq(Line)
    BY IndexNamesType DEF Typed, TypeOK, Proc
  <2>2. IsIndex(garbled) /\ IsIndex(mine)
    BY <2>1, ProjectType DEF IsIndex, NoMap
  <2>3. PICK new \in {mine, garbled} : idx' = [idx EXCEPT ![f] = new]
    BY <1>19 DEF WriteIndex
  <2> HIDE DEF mine, garbled
  <2>4. DOMAIN idx' = IndexNames /\ \A g \in IndexNames : IsIndex(idx'[g])
    BY <2>2, <2>3 DEF Typed, TypeOK
  <2>5. proc' \in [Procs -> Proc] /\ EventPrepared'
    <3>1. CASE MoreIndexes(p)
      <4> DEFINE q == [proc[p] EXCEPT !.pc = "truncate", !.todo = proc[p].todo + 1]
      <4>0. proc[p].todo + 1 \in 1 .. 5
        BY <2>1, <3>1, IndexNamesType DEF MoreIndexes
      <4>1. q \in Proc /\ q.op = proc[p].op /\ q.evt = proc[p].evt /\ q.pc = "truncate"
        BY <2>1, <4>0 DEF Proc
      <4>2. proc' = [proc EXCEPT ![p] = q]
        BY <1>19, <3>1, <2>1 DEF WriteIndex, Typed, TypeOK, Proc
      <4> HIDE DEF q
      <4> QED BY <4>1, <4>2 DEF Typed, TypeOK, EventPrepared
    <3>2. CASE ~ MoreIndexes(p)
      BY <1>19, <3>2, GotoTyped DEF WriteIndex, NeedsLoad
    <3> QED BY <3>1, <3>2
  <2> QED BY <1>19, <2>4, <2>5 DEF WriteIndex, Typed, TypeOK, OpenLine
<1>20. ASSUME NEW p \in Procs, Crash(p) PROVE Typed'
  <2>1. proc' \in [Procs -> Proc] /\ EventPrepared'
    BY <1>20, GotoTyped DEF Crash
  <2>2. cur' \in [Ids -> 0 .. MaxOps]
    <3>1. 0 \in 0 .. MaxOps /\ cur \in [Ids -> 0 .. MaxOps]
      BY BoundAssumption DEF Typed, TypeOK
    <3>2. cur' = cur \/ cur' = [cur EXCEPT ![proc[p].evt.obj] = 0]
      BY <1>20 DEF Crash
    <3> QED BY <3>1, <3>2
  <2>3. vfile' \in [Ids -> [Ids -> {"absent", "partial", "whole"}]]
    <3>1. CASE UNCHANGED vfile
      BY <3>1 DEF Typed, TypeOK
    <3>2. CASE proc[p].pc = "version" /\
               vfile' = [vfile EXCEPT ![proc[p].evt.obj][proc[p].evt.id] = "partial"]
      <4>1. proc[p].evt \in Event
        BY <3>2 DEF Typed, EventPrepared
      <4> QED BY <3>2, <4>1 DEF Event, Typed, TypeOK
    <3> QED BY <1>20, <3>1, <3>2 DEF Crash
  <2>4. crashes' \in 0 .. MaxCrash
    BY <1>20, BoundAssumption DEF Crash, Typed, TypeOK
  <2>5. report' \in [Ids -> {"absent", "partial", "whole"}]
    <3>1. CASE UNCHANGED report
      BY <3>1 DEF Typed, TypeOK
    <3>2. CASE proc[p].pc = "report" /\ report' = [report EXCEPT ![proc[p].evt.id] = "partial"]
      <4>1. proc[p].evt \in Event
        BY <3>2 DEF Typed, EventPrepared
      <4> QED BY <3>2, <4>1 DEF Event, Typed, TypeOK
    <3> QED BY <1>20, <3>1, <3>2 DEF Crash
  <2> QED BY <1>20, <2>1, <2>2, <2>3, <2>4, <2>5 DEF Crash, Typed, TypeOK, OpenLine
<1> QED BY <1>1, <1>2, <1>3, <1>4, <1>5, <1>6, <1>7, <1>8, <1>9, <1>10, <1>11, <1>12, <1>13,
           <1>14, <1>15, <1>151, <1>16, <1>17, <1>18, <1>19, <1>20, <1>21 DEF Next, BeginOp, Step

(* The files and the processes keep their types. *)
THEOREM TypeCorrect == Spec => []TypeOK
<1>1. Typed => TypeOK
  BY DEF Typed
<1> QED BY <1>1, InitTyped, NextTyped, PTL DEF Spec

(***************************************************************************)
(* Files before events, and what a torn append can cost                     *)
(***************************************************************************)

(* An operation whose event is prepared and not yet in the log: it is on its *)
(* way to the append, or it is update_context before it chose its context.   *)
Waiting(r) ==
  /\ r.op # "rebuild"
  /\ \/ r.pc \in {"meta", "touch", "current", "version", "report", "append", "load"}
     \/ r.op = "update_context" /\ r.evt.refs = {}

(* What holds of a process r: its id was drawn, nobody else has used it,     *)
(* the operation fits its event, and the files precede the append.           *)
Good(r) ==
  /\ r.op # "rebuild" =>
       /\ r.evt.id < next
       /\ IsVersion(r.evt) <=> r.op \in {"create", "update"}
       /\ r.evt.kind = "rde" <=> r.op = "rde"
  /\ r.pc \in {"current", "version"} => r.op \in {"create", "update"}
  /\ r.pc = "report" => r.op = "rde"
  /\ r.pc \in {"meta", "touch"} => r.op = "init"
  /\ r.pc = "load" => r.op = "update_context"
  /\ r.pc = "append" /\ r.op = "update_context" => r.evt.refs # {}
  /\ Waiting(r) => r.evt.id \notin acked /\ r.evt.id \notin Intact
  /\ r.pc = "append" =>
       /\ IsVersion(r.evt) => vfile[r.evt.obj][r.evt.id] = "whole"
       /\ r.evt.kind = "rde" => report[r.evt.id] = "whole"

AllGood == \A p \in Procs : Good(proc[p])

(* generate_id never returns the same id twice. *)
Distinct ==
  \A p, q \in Procs :
    p # q /\ proc[p].op # "rebuild" /\ proc[q].op # "rebuild" => proc[p].evt.id # proc[q].evt.id

Used == \A i \in Intact \cup acked : i < next

(* A line that lacks its newline belongs to an append that failed. *)
OpenUnacked == open => log[Len(log)].id \notin acked

Strong == Typed /\ AllGood /\ Distinct /\ Used /\ OpenUnacked

(* Both appends leave every line as it was, make it unreadable, or add the   *)
(* event of the process.                                                     *)
LEMMA AppendLines ==
  ASSUME Typed, NEW p \in Procs, AppendEvent(p) \/ AppendTorn(p)
  PROVE  /\ log' \in Seq(Line)
         /\ \A i \in 1 .. Len(log') :
              \/ log'[i] \in Broken \cup {Stamped(p)}
              \/ i \in 1 .. Len(log) /\ log'[i] = log[i]
<1>1. \A l \in Broken \cup {Stamped(p)} : l \in Line
  BY StampedType, BrokenLine DEF AppendEvent, AppendTorn, Line
<1>2. log \in Seq(Line) /\ (open => log # <<>>)
  BY DEF Typed, TypeOK, OpenLine
<1>3. \/ open /\ \E l \in Broken : log' = Glued(l)
      \/ \E l \in Broken \cup {Stamped(p)} : log' = Append(log, l)
  BY AppendForms
<1>4. CASE open /\ \E l \in Broken : log' = Glued(l)
  <2>1. PICK l \in Broken : log' = Glued(l)
    BY <1>4
  <2> QED BY <1>2, <1>4, <2>1, GlueType
<1>5. CASE \E l \in Broken \cup {Stamped(p)} : log' = Append(log, l)
  <2>1. PICK l \in Broken \cup {Stamped(p)} : log' = Append(log, l)
    BY <1>5
  <2> QED BY <1>1, <1>2, <2>1, AppendProperties
<1> QED BY <1>3, <1>4, <1>5

(* An append makes no line readable but that of its own event.               *)
LEMMA AppendReadable ==
  ASSUME Typed, NEW p \in Procs, AppendEvent(p) \/ AppendTorn(p)
  PROVE  Intact' \subseteq Intact \cup {proc[p].evt.id}
<1>1. Stamped(p).id = proc[p].evt.id
  BY StampedType DEF AppendEvent, AppendTorn
<1> QED BY <1>1, AppendLines DEF Intact, ReadAll

(* A step of p that touches only what its own id x names disturbs no other   *)
(* process.                                                                  *)
LEMMA OthersKeep ==
  ASSUME Strong, Typed', NEW p \in Procs, NEW new, proc' = [proc EXCEPT ![p] = new], NEW x,
         Good(new)', next' >= next,
         acked' \subseteq acked \cup {x}, Intact' \subseteq Intact \cup {x},
         \A a, v \in Ids : v # x => vfile'[a][v] = vfile[a][v] /\ report'[v] = report[v],
         \A q \in Procs : q # p /\ proc[q].op # "rebuild" => proc[q].evt.id # x,
         new.op # "rebuild" => (new.evt.id = x \/ (proc[p].op # "rebuild" /\ new.evt.id = proc[p].evt.id))
  PROVE  AllGood' /\ Distinct'
<1>1. ASSUME NEW q \in Procs, q # p PROVE Good(proc[q])'
  <2>1. proc'[q] = proc[q] /\ Good(proc[q])
    BY <1>1 DEF Strong, Typed, TypeOK, AllGood
  <2>2. proc[q].op # "rebuild" => proc[q].evt.id \in Ids /\ proc[q].evt.obj \in Ids
    BY DEF Strong, Typed, EventPrepared, Event
  <2>3. proc[q].op # "rebuild" => proc[q].evt.id # x
    BY <1>1
  <2>4. proc[q].pc = "append" => proc[q].op # "rebuild"
    BY DEF Strong, Typed, EventPrepared
  <2>5. next \in Nat /\ next' \in Nat /\ Ids \subseteq Nat
    BY BoundAssumption DEF Strong, Typed, TypeOK, Ids
  <2>6. PICK r : r = proc[q]
    OBVIOUS
  <2>7. r.op # "rebuild" => r.evt.id < next'
    <3> SUFFICES ASSUME r.op # "rebuild" PROVE r.evt.id < next'
      OBVIOUS
    <3>1. r.evt.id < next
      BY <2>1, <2>6 DEF Good
    <3>2. r.evt.id \in Nat
      BY <2>2, <2>5, <2>6
    <3> QED BY <3>1, <3>2, <2>5
  <2>8. Waiting(r) => r.evt.id \notin acked' /\ r.evt.id \notin Intact'
    BY <2>1, <2>3, <2>6 DEF Good, Waiting
  <2>9. r.pc = "append" =>
          /\ IsVersion(r.evt) => vfile'[r.evt.obj][r.evt.id] = "whole"
          /\ r.evt.kind = "rde" => report'[r.evt.id] = "whole"
    BY <2>1, <2>2, <2>3, <2>4, <2>6 DEF Good
  <2>10. Good(r)'
    BY <2>1, <2>6, <2>7, <2>8, <2>9 DEF Good, Waiting, IsVersion
  <2> QED BY <2>1, <2>6, <2>10 DEF Good, Waiting, IsVersion
<1>2. Good(proc[p])'
  <2>1. proc'[p] = new
    BY DEF Strong, Typed, TypeOK
  <2> QED BY <2>1 DEF Good, Waiting
<1>3. Distinct'
  <2> SUFFICES ASSUME NEW q \in Procs, NEW r \in Procs, q # r,
                      proc'[q].op # "rebuild", proc'[r].op # "rebuild"
               PROVE  proc'[q].evt.id # proc'[r].evt.id
    BY DEF Distinct
  <2>1. \A s \in Procs : proc'[s] = IF s = p THEN new ELSE proc[s]
    BY DEF Strong, Typed, TypeOK
  <2>2. CASE q = p
    BY <2>1, <2>2 DEF Strong, Distinct
  <2>3. CASE r = p
    BY <2>1, <2>3 DEF Strong, Distinct
  <2>4. CASE q # p /\ r # p
    BY <2>1, <2>4 DEF Strong, Distinct
  <2> QED BY <2>2, <2>3, <2>4
<1> QED BY <1>1, <1>2, <1>3 DEF AllGood

(* A process between operations is in order.                                 *)
LEMMA IdleGood == Good(Idle)
  BY DEF Good, Idle, Waiting

(* Beginning an operation with a freshly drawn id. *)
LEMMA BeginKeeps ==
  ASSUME Strong, Typed', NEW p \in Procs, NEW o \in AllOps, NEW where, NEW e,
         Begin(p, o, where, e), UNCHANGED <<log, open, vfile, report>>,
         o # "rebuild" => /\ e.id = next
                          /\ IsVersion(e) <=> o \in {"create", "update"}
                          /\ e.kind = "rde" <=> o = "rde",
         \/ where = "meta" /\ o = "init"
         \/ where = "current" /\ o \in {"create", "update"}
         \/ where = "report" /\ o = "rde"
         \/ where = "append" /\ o \in {"record", "add_context", "add_rule", "decision"}
         \/ where = "read"
  PROVE  Strong'
<1>0. PICK new, x : new = [Idle EXCEPT !.pc = where, !.op = o, !.evt = e] /\ x = next
  OBVIOUS
<1>1. new.pc = where /\ new.op = o /\ new.evt = e
  BY <1>0 DEF Idle
<1>2. proc' = [proc EXCEPT ![p] = new] /\ next' = next + 1 /\ acked' = acked
  BY <1>0 DEF Begin
<1>3. next \in Nat /\ next \in Ids /\ next \notin acked /\ next \notin Intact
  BY BoundAssumption DEF Begin, Strong, Typed, TypeOK, Used, Ids
<1>4. Intact' = Intact
  BY DEF Intact, ReadAll
<1>5. Good(new)'
  BY <1>1, <1>2, <1>3, <1>4 DEF Good, Waiting, IsVersion
<1>6. \A q \in Procs : q # p /\ proc[q].op # "rebuild" => proc[q].evt.id # x
  BY <1>0, <1>3 DEF Strong, AllGood, Good
<1>7. new.op # "rebuild" => new.evt.id = x
  BY <1>0, <1>1
<1>8. AllGood' /\ Distinct'
  <2>1. next' >= next /\ acked' \subseteq acked \cup {x} /\ Intact' \subseteq Intact \cup {x}
    BY <1>2, <1>3, <1>4
  <2>2. \A a, v \in Ids : v # x => vfile'[a][v] = vfile[a][v] /\ report'[v] = report[v]
    OBVIOUS
  <2> QED BY ZenonT(60), <1>2, <1>5, <1>6, <1>7, <2>1, <2>2, OthersKeep
<1>9. Used'
  <2>1. \A i \in Intact \cup acked : i \in Nat
    <3>1. \A i \in ReadAll(log) : log[i] \in Event
      BY ElementOfSeq DEF ReadAll, Line, Strong, Typed, TypeOK
    <3>2. Intact \subseteq Ids
      BY <3>1 DEF Intact, Event
    <3> QED BY <3>2, BoundAssumption DEF Strong, Typed, TypeOK, Ids
  <2> QED BY <1>2, <1>3, <1>4, <2>1 DEF Strong, Used
<1>10. OpenUnacked'
  BY <1>2 DEF Strong, OpenUnacked
<1> QED BY <1>8, <1>9, <1>10 DEF Strong

(* Going on to another step, or ending the operation, without an append. *)
LEMMA GotoKeeps ==
  ASSUME Strong, Typed', NEW p \in Procs, NEW where, NEW new,
         proc' = [proc EXCEPT ![p] = new],
         new = Idle \/ (new.pc = where /\ new.op = proc[p].op /\ new.evt.id = proc[p].evt.id
                        /\ new.evt.kind = proc[p].evt.kind /\ Waiting(proc[p])),
         UNCHANGED <<log, open, next, acked>>,
         new # Idle => \/ where = "touch" /\ proc[p].op = "init"
                       \/ where = "version" /\ proc[p].op \in {"create", "update"}
                       \/ where = "load" /\ proc[p].op = "update_context"
                       \/ /\ where = "append"
                          /\ new.op = "update_context" => new.evt.refs # {}
                          /\ IsVersion(new.evt) => vfile'[new.evt.obj][new.evt.id] = "whole"
                          /\ new.evt.kind = "rde" => report'[new.evt.id] = "whole",
         \A a, v \in Ids :
           v # proc[p].evt.id \/ proc[p].op = "rebuild"
             => vfile'[a][v] = vfile[a][v] /\ report'[v] = report[v]
  PROVE  Strong'
<1>0. PICK x : x = IF proc[p].op = "rebuild" THEN 0 ELSE proc[p].evt.id
  OBVIOUS
<1>1. Intact' = Intact
  BY DEF Intact, ReadAll
<1>2. Good(new)'
  <2>1. CASE new = Idle
    BY <2>1 DEF Good, Idle, Waiting
  <2>2. CASE new # Idle
    <3>1. Good(proc[p]) /\ Waiting(proc[p])
      BY <2>2 DEF Strong, AllGood
    <3>2. new.pc = where /\ new.op = proc[p].op /\ new.evt.id = proc[p].evt.id
          /\ new.evt.kind = proc[p].evt.kind
      BY <2>2
    <3> QED BY <1>1, <2>2, <3>1, <3>2 DEF Good, Waiting, IsVersion
  <2> QED BY <2>1, <2>2
<1>3. \A q \in Procs : q # p /\ proc[q].op # "rebuild" => proc[q].evt.id # x
  <2>1. \A q \in Procs : proc[q].op # "rebuild" => proc[q].evt.id # 0
    BY DEF Strong, Typed, EventPrepared, Event, Ids
  <2> QED BY <1>0, <2>1 DEF Strong, Distinct
<1>4. new.op # "rebuild" => proc[p].op # "rebuild" /\ new.evt.id = proc[p].evt.id
  BY IdleType
<1>5. \A a, v \in Ids : v # x => vfile'[a][v] = vfile[a][v] /\ report'[v] = report[v]
  BY <1>0
<1>6. next' >= next
  BY DEF Strong, Typed, TypeOK
<1>7. AllGood' /\ Distinct'
  BY <1>1, <1>2, <1>3, <1>4, <1>5, <1>6, OthersKeep
<1>8. Used' /\ OpenUnacked'
  BY <1>1 DEF Strong, Used, OpenUnacked
<1> QED BY <1>7, <1>8 DEF Strong

(* A step of a rebuild. *)
LEMMA RebuildKeeps ==
  ASSUME Strong, Typed', NEW p \in Procs, NEW new,
         proc' = [proc EXCEPT ![p] = new],
         new.pc \in {"truncate", "write"}, proc[p].pc \in {"read", "truncate", "write"},
         new.op = proc[p].op, new.evt = proc[p].evt,
         UNCHANGED <<log, open, next, acked, vfile, report>>
  PROVE  Strong'
<1>1. Intact' = Intact
  BY DEF Intact, ReadAll
<1>2. Good(new)'
  BY <1>1 DEF Strong, AllGood, Good, Waiting, IsVersion
<1>3. \A q \in Procs : q # p /\ proc[q].op # "rebuild" => proc[q].evt.id # 0
  BY DEF Strong, Typed, EventPrepared, Event, Ids
<1>4. next' >= next /\ acked' \subseteq acked \cup {0} /\ Intact' \subseteq Intact \cup {0}
  BY <1>1 DEF Strong, Typed, TypeOK
<1>5. AllGood' /\ Distinct'
  <2>1. \A a, v \in Ids : v # 0 => vfile'[a][v] = vfile[a][v] /\ report'[v] = report[v]
    OBVIOUS
  <2>2. new.op # "rebuild" => proc[p].op # "rebuild" /\ new.evt.id = proc[p].evt.id
    OBVIOUS
  <2> QED BY <1>2, <1>3, <1>4, <2>1, <2>2, OthersKeep
<1>6. Used' /\ OpenUnacked'
  BY <1>1 DEF Strong, Used, OpenUnacked
<1> QED BY <1>5, <1>6 DEF Strong

(* The two appends. *)
LEMMA AppendKeeps ==
  ASSUME Strong, Typed', NEW p \in Procs, AppendEvent(p) \/ AppendTorn(p)
  PROVE  Strong'
<1>0. PICK x, new : x = proc[p].evt.id /\ new = proc'[p]
  OBVIOUS
<1>1. proc[p].op # "rebuild" /\ x \in Ids /\ x < next /\ Good(proc[p]) /\ proc[p].evt \in Event
      /\ proc[p].pc = "append" /\ proc[p] \in Proc
  BY <1>0 DEF AppendEvent, AppendTorn, Strong, Typed, TypeOK, EventPrepared, Event, AllGood, Good
<1>2. Intact' \subseteq Intact \cup {x}
  BY <1>0, AppendReadable DEF Strong
<1>3. acked' \subseteq acked \cup {x} /\ next' = next /\ vfile' = vfile /\ report' = report
  BY <1>0 DEF AppendEvent, AppendTorn
<1>4. /\ proc' = [proc EXCEPT ![p] = new]
      /\ new = Idle \/ (new.pc = "read" /\ new.op = proc[p].op /\ new.evt = proc[p].evt)
  BY <1>0, <1>1 DEF AppendEvent, AppendTorn, Goto, AfterAppend, Strong, Typed, TypeOK, Proc
<1>5. Good(new)'
  <2>1. CASE new = Idle
    BY <2>1 DEF Good, Idle, Waiting
  <2>2. CASE new.pc = "read" /\ new.op = proc[p].op /\ new.evt = proc[p].evt
    <3>1. ~ Waiting(new)
      BY <1>1, <2>2 DEF Good, Waiting
    <3> QED BY <1>1, <1>3, <2>2, <3>1 DEF Good, IsVersion, Waiting
  <2> QED BY <1>4, <2>1, <2>2
<1>6. \A q \in Procs : q # p /\ proc[q].op # "rebuild" => proc[q].evt.id # x
  BY <1>0, <1>1 DEF Strong, Distinct
<1>7. new.op # "rebuild" => new.evt.id = x
  BY <1>0, <1>4, IdleType
<1>8. next' >= next /\ next \in Nat
  BY <1>3 DEF Strong, Typed, TypeOK
<1>9. AllGood' /\ Distinct'
  BY <1>2, <1>3, <1>4, <1>5, <1>6, <1>7, <1>8, OthersKeep
<1>10. Used'
  BY <1>1, <1>2, <1>3 DEF Strong, Used
<1>11. OpenUnacked'
  <2>1. CASE AppendEvent(p)
    BY <2>1 DEF AppendEvent, OpenUnacked
  <2>2. CASE AppendTorn(p)
    <3>1. acked' = acked /\ 0 \notin acked /\ x \notin acked
      BY <1>0, <1>1, <2>2 DEF AppendTorn, Good, Waiting, Strong, Typed, TypeOK, Ids
    <3>2. Stamped(p).id = x /\ \A l \in Broken \cup {Stamped(p)} : l \in Line /\ l.id \in {0, x}
      BY <1>0, <2>2, StampedType, BrokenLine DEF AppendTorn, Strong, Line
    <3>3. log \in Seq(Line) /\ (open => log # <<>>)
      BY DEF Strong, Typed, TypeOK, OpenLine
    <3>4. log'[Len(log')] \in Broken \cup {Stamped(p)}
      <4>1. ASSUME open, NEW l \in Broken, log' = Glued(l) PROVE log'[Len(log')] = l
        <5>1. Len(log) \in 1 .. Len(log)
          BY <3>3, <4>1, EmptySeq, LenProperties
        <5> QED BY <3>3, <4>1, <5>1, GlueType
      <4>2. ASSUME NEW l \in Broken \cup {Stamped(p)}, log' = Append(log, l) PROVE log'[Len(log')] = l
        BY <3>2, <3>3, <4>2, AppendProperties, LenProperties
      <4> QED BY <1>0, <2>2, <4>1, <4>2, AppendForms DEF Strong
    <3> QED BY <3>1, <3>2, <3>4 DEF OpenUnacked
  <2> QED BY <2>1, <2>2
<1> QED BY <1>9, <1>10, <1>11 DEF Strong

(* Every action preserves the strengthening. *)
LEMMA NextStrong == Strong /\ [Next]_vars => Strong'
<1> SUFFICES ASSUME Strong, [Next]_vars PROVE Strong'
  OBVIOUS
<1>0. Typed' /\ Typed
  BY NextTyped DEF Strong
<1> USE DEF files, counts
<1>1. CASE UNCHANGED vars
  BY <1>0, <1>1 DEF vars, Strong, AllGood, Good, Waiting, Distinct, Used, OpenUnacked, Intact, ReadAll,
                    IsVersion
<1>2. ASSUME NEW p \in Procs, BeginOp(p) PROVE Strong'
  <2>1. CASE BeginInit(p)
    BY <1>0, <2>1, BeginKeeps DEF BeginInit, NewEvent, AllOps, IsVersion
  <2>2. CASE BeginRecord(p)
    BY <1>0, <2>2, BeginKeeps DEF BeginRecord, NewEvent, AllOps, IsVersion
  <2>3. CASE BeginCreate(p)
    BY <1>0, <2>3, BeginKeeps DEF BeginCreate, NewEvent, AllOps, IsVersion
  <2>4. CASE BeginUpdate(p)
    <3>1. PICK refs : \E a \in DOMAIN Load("artifacts") :
                        Begin(p, "update", "current", NewEvent("versioned", a, refs))
      BY <2>4 DEF BeginUpdate
    <3> QED BY <1>0, <2>4, <3>1, BeginKeeps DEF BeginUpdate, NewEvent, AllOps, IsVersion
  <2>5. CASE BeginDecision(p)
    <3>1. PICK refs : Begin(p, "decision", "append", NewEvent("decision", next, refs))
      BY <2>5 DEF BeginDecision
    <3> QED BY <1>0, <2>5, <3>1, BeginKeeps DEF BeginDecision, NewEvent, AllOps, IsVersion
  <2>6. CASE BeginRde(p)
    <3>1. PICK refs, w : Begin(p, "rde", "report", [NewEvent("rde", next, refs) EXCEPT !.to = w])
      BY <2>6 DEF BeginRde
    <3> QED BY <1>0, <2>6, <3>1, BeginKeeps DEF BeginRde, NewEvent, AllOps, IsVersion
  <2>7. CASE BeginRebuild(p)
    BY <1>0, <2>7, BeginKeeps DEF BeginRebuild, NewEvent, AllOps, IsVersion
  <2> QED BY <1>2, <2>1, <2>2, <2>3, <2>4, <2>5, <2>6, <2>7 DEF BeginOp
<1>3. ASSUME NEW p \in Procs, \/ WriteMeta(p) \/ TouchLog(p) \/ WriteCurrent(p) \/ WriteVersion(p)
                              \/ WriteReport(p)
      PROVE  Strong'
  <2>1. PICK where, new :
          /\ proc' = [proc EXCEPT ![p] = new]
          /\ new = [proc[p] EXCEPT !.pc = where]
          /\ \/ where = "touch" /\ WriteMeta(p)
             \/ where = "append" /\ (TouchLog(p) \/ WriteVersion(p) \/ WriteReport(p))
             \/ where = "version" /\ WriteCurrent(p)
    BY <1>3 DEF Goto, WriteMeta, TouchLog, WriteCurrent, WriteVersion, WriteReport
  <2>2. proc[p] \in Proc /\ Good(proc[p]) /\ proc[p].op # "rebuild" /\ proc[p].evt \in Event
        /\ Waiting(proc[p])
    BY <1>0, <1>3 DEF Strong, Typed, TypeOK, EventPrepared, AllGood, Waiting,
                      WriteMeta, TouchLog, WriteCurrent, WriteVersion, WriteReport
  <2>3. new.pc = where /\ new.op = proc[p].op /\ new.evt = proc[p].evt
    BY <2>1, <2>2 DEF Proc
  <2>4. UNCHANGED <<log, open, next, acked>>
    BY <1>3 DEF WriteMeta, TouchLog, WriteCurrent, WriteVersion, WriteReport
  <2>5. \A a, v \in Ids : v # proc[p].evt.id => vfile'[a][v] = vfile[a][v] /\ report'[v] = report[v]
    <3>1. CASE WriteVersion(p)
      BY <1>0, <2>2, <3>1 DEF WriteVersion, Typed, TypeOK, Event
    <3>2. CASE WriteReport(p)
      BY <1>0, <2>2, <3>2 DEF WriteReport, Typed, TypeOK, Event
    <3>3. CASE WriteMeta(p) \/ TouchLog(p) \/ WriteCurrent(p)
      BY <3>3 DEF WriteMeta, TouchLog, WriteCurrent
    <3> QED BY <1>3, <3>1, <3>2, <3>3
  <2>6. \/ where = "touch" /\ proc[p].op = "init"
        \/ where = "version" /\ proc[p].op \in {"create", "update"}
        \/ /\ where = "append"
           /\ new.op # "update_context"
           /\ IsVersion(new.evt) => vfile'[new.evt.obj][new.evt.id] = "whole"
           /\ new.evt.kind = "rde" => report'[new.evt.id] = "whole"
    <3>1. CASE WriteMeta(p) /\ where = "touch"
      BY <2>2, <3>1 DEF WriteMeta, Good
    <3>2. CASE TouchLog(p) /\ where = "append"
      BY <2>2, <2>3, <3>2 DEF TouchLog, Good
    <3>3. CASE WriteCurrent(p) /\ where = "version"
      BY <2>2, <3>3 DEF WriteCurrent, Good
    <3>4. CASE WriteVersion(p) /\ where = "append"
      <4>1. vfile'[new.evt.obj][new.evt.id] = "whole"
        BY <1>0, <2>2, <2>3, <3>4 DEF WriteVersion, Typed, TypeOK, Event
      <4> QED BY <2>2, <2>3, <3>4, <4>1 DEF WriteVersion, Good
    <3>5. CASE WriteReport(p) /\ where = "append"
      <4>1. report'[new.evt.id] = "whole"
        BY <1>0, <2>2, <2>3, <3>5 DEF WriteReport, Typed, TypeOK, Event
      <4> QED BY <2>2, <2>3, <3>5, <4>1 DEF WriteReport, Good
    <3> QED BY <2>1, <3>1, <3>2, <3>3, <3>4, <3>5
  <2>7. new.pc = where /\ new.op = proc[p].op /\ new.evt.id = proc[p].evt.id
        /\ new.evt.kind = proc[p].evt.kind /\ Waiting(proc[p])
    BY <2>2, <2>3
  <2>8. \/ where = "touch" /\ proc[p].op = "init"
        \/ where = "version" /\ proc[p].op \in {"create", "update"}
        \/ where = "load" /\ proc[p].op = "update_context"
        \/ /\ where = "append"
           /\ new.op = "update_context" => new.evt.refs # {}
           /\ IsVersion(new.evt) => vfile'[new.evt.obj][new.evt.id] = "whole"
           /\ new.evt.kind = "rde" => report'[new.evt.id] = "whole"
    BY <2>6
  <2>9. proc' = [proc EXCEPT ![p] = new]
    BY <2>1
  <2> QED BY <1>0, <2>2, <2>4, <2>5, <2>7, <2>8, <2>9, GotoKeeps
<1>4. ASSUME NEW p \in Procs, LoadContext(p) PROVE Strong'
  <2>1. CASE Goto(p, "idle")
    BY <1>0, <1>4, <2>1, GotoKeeps DEF LoadContext, Goto
  <2>2. CASE \E c \in DOMAIN Load("contexts") :
               proc' = [proc EXCEPT ![p].pc = "append", ![p].evt.obj = c,
                                    ![p].evt.refs = {Latest("contexts", c)}]
    <3>1. proc[p] \in Proc /\ Good(proc[p]) /\ proc[p].op # "rebuild" /\ proc[p].evt \in Event
          /\ Waiting(proc[p])
      BY <1>0, <1>4 DEF Strong, Typed, TypeOK, EventPrepared, AllGood, Waiting, LoadContext
    <3>2. PICK c \in DOMAIN Load("contexts") :
               proc' = [proc EXCEPT ![p].pc = "append", ![p].evt.obj = c,
                                    ![p].evt.refs = {Latest("contexts", c)}]
      BY <2>2
    <3> DEFINE l == Latest("contexts", c)
    <3> DEFINE e == [proc[p].evt EXCEPT !.obj = c, !.refs = {l}]
    <3>3. PICK new : new = [proc[p] EXCEPT !.pc = "append", !.evt = e]
      OBVIOUS
    <3>4. proc' = [proc EXCEPT ![p] = new]
      <4>0. proc \in [Procs -> Proc]
        BY <1>0 DEF Typed, TypeOK
      <4>1. proc' = [proc EXCEPT ![p] = [proc[p] EXCEPT !.pc = "append", !.evt = e]]
        BY <3>1, <3>2, <4>0 DEF Proc
      <4> QED BY <3>3, <4>1
    <3>5. /\ new.pc = "append" /\ new.op = proc[p].op /\ new.evt.id = proc[p].evt.id
          /\ new.evt.kind = proc[p].evt.kind /\ new.evt.refs # {}
      BY <3>1, <3>3 DEF Proc, Event
    <3>6. proc[p].op = "update_context"
      BY <1>4, <3>1 DEF LoadContext, Good
    <3>7. ~ IsVersion(new.evt) /\ new.evt.kind # "rde"
      BY <3>1, <3>5, <3>6 DEF Good, IsVersion
    <3> QED BY <1>0, <1>4, <3>1, <3>4, <3>5, <3>7, GotoKeeps DEF LoadContext
  <2> QED BY <1>4, <2>1, <2>2 DEF LoadContext
<1>5. ASSUME NEW p \in Procs, AppendEvent(p) \/ AppendTorn(p) PROVE Strong'
  BY <1>0, <1>5, AppendKeeps
<1>6. ASSUME NEW p \in Procs, AppendRejected(p) PROVE Strong'
  BY <1>0, <1>6, GotoKeeps DEF AppendRejected, Goto
<1>61. ASSUME NEW p \in Procs, ReadLogRaises(p) PROVE Strong'
  BY <1>0, <1>61, GotoKeeps DEF ReadLogRaises, Goto
<1>7. ASSUME NEW p \in Procs, ReadLog(p) PROVE Strong'
  <2>1. PICK new : new = [proc[p] EXCEPT !.pc = "truncate", !.snap = log, !.todo = 1]
    OBVIOUS
  <2>2. new.pc = "truncate" /\ new.op = proc[p].op /\ new.evt = proc[p].evt
    BY <1>0, <2>1 DEF Typed, TypeOK, Proc
  <2>3. proc' = [proc EXCEPT ![p] = new]
    BY <1>0, <1>7, <2>1 DEF ReadLog, Typed, TypeOK, Proc
  <2> QED BY <1>0, <1>7, <2>2, <2>3, RebuildKeeps DEF ReadLog
<1>8. ASSUME NEW p \in Procs, TruncateIndex(p) PROVE Strong'
  <2>1. PICK new : new = [proc[p] EXCEPT !.pc = "write"]
    OBVIOUS
  <2>2. new.pc = "write" /\ new.op = proc[p].op /\ new.evt = proc[p].evt
    BY <1>0, <2>1 DEF Typed, TypeOK, Proc
  <2>3. proc' = [proc EXCEPT ![p] = new]
    BY <1>8, <2>1 DEF TruncateIndex, Goto
  <2> QED BY <1>0, <1>8, <2>2, <2>3, RebuildKeeps DEF TruncateIndex
<1>9. ASSUME NEW p \in Procs, WriteIndex(p) PROVE Strong'
  <2>0. UNCHANGED <<log, open, next, acked, vfile, report>> /\ proc[p].pc = "write"
    BY <1>9 DEF WriteIndex
  <2>1. CASE MoreIndexes(p)
    <3>1. PICK new : new = [proc[p] EXCEPT !.pc = "truncate", !.todo = proc[p].todo + 1]
      OBVIOUS
    <3>2. new.pc = "truncate" /\ new.op = proc[p].op /\ new.evt = proc[p].evt
      BY <1>0, <3>1 DEF Typed, TypeOK, Proc
    <3>3. proc' = [proc EXCEPT ![p] = new]
      BY <1>0, <1>9, <2>1, <3>1 DEF WriteIndex, Typed, TypeOK, Proc
    <3> QED BY <1>0, <2>0, <3>2, <3>3, RebuildKeeps
  <2>2. CASE ~ MoreIndexes(p) /\ ~ NeedsLoad(p)
    <3>1. proc' = [proc EXCEPT ![p] = Idle]
      BY <1>9, <2>2 DEF WriteIndex, Goto
    <3> QED BY <1>0, <2>0, <3>1, GotoKeeps
  <2>3. CASE ~ MoreIndexes(p) /\ NeedsLoad(p)
    <3>1. PICK new : new = [proc[p] EXCEPT !.pc = "load"]
      OBVIOUS
    <3>2. new.pc = "load" /\ new.op = proc[p].op /\ new.evt = proc[p].evt
      BY <1>0, <3>1 DEF Typed, TypeOK, Proc
    <3>3. proc' = [proc EXCEPT ![p] = new]
      BY <1>9, <2>3, <3>1 DEF WriteIndex, Goto
    <3>4. Waiting(proc[p]) /\ proc[p].op = "update_context"
      BY <2>3 DEF NeedsLoad, Waiting
    <3> QED BY <1>0, <2>0, <3>2, <3>3, <3>4, GotoKeeps
  <2> QED BY <2>1, <2>2, <2>3
<1>10. ASSUME NEW p \in Procs, Crash(p) PROVE Strong'
  <2>1. proc' = [proc EXCEPT ![p] = Idle] /\ UNCHANGED <<log, open, next, acked>>
    BY <1>10 DEF Crash, Goto
  <2>2. \A a, v \in Ids : v # proc[p].evt.id \/ proc[p].op = "rebuild"
          => vfile'[a][v] = vfile[a][v] /\ report'[v] = report[v]
    <3>1. CASE UNCHANGED <<vfile, report>>
      BY <3>1
    <3>2. CASE /\ proc[p].pc = "version" /\ UNCHANGED report
               /\ vfile' = [vfile EXCEPT ![proc[p].evt.obj][proc[p].evt.id] = "partial"]
      BY SMTT(60), <1>0, <3>2 DEF Typed, TypeOK, EventPrepared, Event
    <3>3. CASE /\ proc[p].pc = "report" /\ UNCHANGED vfile
               /\ report' = [report EXCEPT ![proc[p].evt.id] = "partial"]
      BY <1>0, <3>3 DEF Typed, TypeOK, EventPrepared, Event
    <3> QED BY <1>10, <3>1, <3>2, <3>3 DEF Crash
  <2> QED BY <1>0, <2>1, <2>2, GotoKeeps
<1> QED BY <1>1, <1>2, <1>3, <1>4, <1>5, <1>6, <1>61, <1>7, <1>8, <1>9, <1>10 DEF Next, Step

(* Only an append cut short leaves bytes that are not UTF-8.                 *)
NoneUndecodable == torn = 0 => Decodes(log)

LEMMA CreatedEvent == Created \in Event /\ Created \in Line /\ Created.id = 1
  BY BoundAssumption DEF Created, Event, Kinds, Ids, Line

(* A new store satisfies the invariants.                                     *)
LEMMA InitStrong == Init => Strong /\ FilesPrecedeEvents /\ LossBound /\ NoneUndecodable
<1> SUFFICES ASSUME Init PROVE Strong /\ FilesPrecedeEvents /\ LossBound /\ NoneUndecodable
  OBVIOUS
<1>1. log = <<>> \/ log = <<Created>>
  BY DEF Init
<1>2. Intact = IF log = <<>> THEN {} ELSE {1}
  BY <1>1, CreatedEvent, BrokenLine DEF Intact, ReadAll
<1>3. AllGood /\ Distinct /\ OpenUnacked
  BY IdleGood, IdleType DEF Init, AllGood, Distinct, OpenUnacked
<1>4. Used
  BY <1>2 DEF Init, Used
<1>5. FilesPrecedeEvents
  BY <1>1 DEF FilesPrecedeEvents, Created, IsVersion
<1>7. NoneUndecodable
  BY <1>1, BrokenLine, CreatedEvent DEF NoneUndecodable, Decodes
<1>6. LossBound
  <2>1. (log = <<>> /\ acked = {}) \/ (log = <<Created>> /\ acked = {1})
    BY DEF Init
  <2>2. acked \ Intact = {}
    BY <1>2, <2>1
  <2>6. Decodes(log)
    BY <1>7 DEF NoneUndecodable, Init
  <2>3. Cardinality(acked \ Intact) = 0
    BY <2>2, FS_EmptySet
  <2>5. acked \subseteq Readable
    BY <2>2, <2>6 DEF Readable
  <2>4. open = FALSE /\ torn = 0
    BY DEF Init
  <2> QED BY <2>3, <2>4, <2>5 DEF LossBound
<1> QED BY <1>3, <1>4, <1>5, <1>6, <1>7, InitTyped DEF Strong

(* The files an event names are complete when it is appended, and nothing    *)
(* damages them afterwards.                                                  *)
LEMMA NextFiles == Strong /\ FilesPrecedeEvents /\ [Next]_vars => FilesPrecedeEvents'
<1> SUFFICES ASSUME Strong, FilesPrecedeEvents, [Next]_vars PROVE FilesPrecedeEvents'
  OBVIOUS
<1>0. Typed
  BY DEF Strong
<1> USE DEF files, counts
<1>1. ASSUME NEW p \in Procs, AppendEvent(p) \/ AppendTorn(p) PROVE FilesPrecedeEvents'
  <2>1. UNCHANGED <<vfile, report>>
    BY <1>1 DEF AppendEvent, AppendTorn
  <2>2. Good(proc[p]) /\ proc[p].pc = "append"
    BY <1>1 DEF Strong, AllGood, AppendEvent, AppendTorn
  <2>3. /\ Stamped(p).id = proc[p].evt.id /\ Stamped(p).obj = proc[p].evt.obj
        /\ Stamped(p).kind = proc[p].evt.kind
    BY <1>0, <1>1, StampedType DEF AppendEvent, AppendTorn
  <2>4. /\ IsVersion(Stamped(p)) => vfile[Stamped(p).obj][Stamped(p).id] = "whole"
        /\ Stamped(p).kind = "rde" => report[Stamped(p).id] = "whole"
    BY <2>2, <2>3 DEF Good, IsVersion
  <2>5. \A l \in Broken : ~ IsVersion(l) /\ l.kind # "rde"
    BY BrokenLine
  <2>6. \A i \in 1 .. Len(log') :
          \/ log'[i] \in Broken \cup {Stamped(p)}
          \/ i \in 1 .. Len(log) /\ log'[i] = log[i]
    BY <1>0, <1>1, AppendLines
  <2> SUFFICES ASSUME NEW i \in 1 .. Len(log')
               PROVE  /\ IsVersion(log'[i]) => vfile[log'[i].obj][log'[i].id] = "whole"
                      /\ log'[i].kind = "rde" => report[log'[i].id] = "whole"
    BY <2>1 DEF FilesPrecedeEvents, IsVersion
  <2> QED BY <2>4, <2>5, <2>6 DEF FilesPrecedeEvents
<1>2. ASSUME UNCHANGED log,
             \A a, v \in Ids : v \in Intact =>
               /\ vfile[a][v] = "whole" => vfile'[a][v] = "whole"
               /\ report[v] = "whole" => report'[v] = "whole"
      PROVE  FilesPrecedeEvents'
  <2>1. \A i \in 1 .. Len(log) : IsVersion(log[i]) \/ log[i].kind = "rde" =>
          log[i].id \in Intact /\ log[i].id \in Ids /\ log[i].obj \in Ids
    <3>1. \A i \in 1 .. Len(log) : log[i] \in Line
      BY <1>0, ElementOfSeq DEF Typed, TypeOK
    <3>2. \A i \in 1 .. Len(log) : log[i] \notin Broken => log[i] \in Event
      BY <3>1 DEF Line
    <3> QED BY <3>2, BrokenLine DEF Intact, ReadAll, IsVersion, Event
  <2> SUFFICES ASSUME NEW i \in 1 .. Len(log)
               PROVE  /\ IsVersion(log[i]) => vfile'[log[i].obj][log[i].id] = "whole"
                      /\ log[i].kind = "rde" => report'[log[i].id] = "whole"
    BY <1>2 DEF FilesPrecedeEvents, IsVersion
  <2>2. /\ IsVersion(log[i]) => vfile[log[i].obj][log[i].id] = "whole"
        /\ log[i].kind = "rde" => report[log[i].id] = "whole"
    BY DEF FilesPrecedeEvents
  <2> DEFINE a == log[i].obj
             v == log[i].id
  <2>3. CASE IsVersion(log[i])
    <3>1. a \in Ids /\ v \in Ids /\ v \in Intact /\ vfile[a][v] = "whole"
      BY <2>1, <2>2, <2>3
    <3>2. vfile'[a][v] = "whole"
      <4> HIDE DEF a, v
      <4> QED BY <1>2, <3>1
    <3> QED BY <2>3, <3>2 DEF IsVersion
  <2>4. CASE log[i].kind = "rde"
    <3>1. a \in Ids /\ v \in Ids /\ v \in Intact /\ report[v] = "whole"
      BY <2>1, <2>2, <2>4
    <3>2. report'[v] = "whole"
      <4> HIDE DEF a, v
      <4> QED BY <1>2, <3>1
    <3> QED BY <2>4, <3>2 DEF IsVersion
  <2> QED BY <2>3, <2>4
<1>3. ASSUME NEW p \in Procs, WriteVersion(p) \/ WriteReport(p) PROVE FilesPrecedeEvents'
  <2>1. proc[p].evt.id \in Ids /\ proc[p].evt.obj \in Ids
    BY <1>0, <1>3 DEF WriteVersion, WriteReport, Typed, EventPrepared, Event
  <2>2. \A a, v \in Ids :
          /\ vfile[a][v] = "whole" => vfile'[a][v] = "whole"
          /\ report[v] = "whole" => report'[v] = "whole"
    <3>1. CASE WriteVersion(p)
      BY <1>0, <2>1, <3>1 DEF WriteVersion, Typed, TypeOK
    <3>2. CASE WriteReport(p)
      BY <1>0, <2>1, <3>2 DEF WriteReport, Typed, TypeOK
    <3> QED BY <1>3, <3>1, <3>2
  <2> QED BY <1>2, <1>3, <2>2 DEF WriteVersion, WriteReport
<1>4. ASSUME NEW p \in Procs, Crash(p) PROVE FilesPrecedeEvents'
  <2>1. proc[p].pc \in {"version", "report"} =>
          proc[p].evt.id \notin Intact /\ proc[p].evt.id \in Ids /\ proc[p].evt.obj \in Ids
    BY <1>0 DEF Strong, AllGood, Good, Waiting, Typed, EventPrepared, Event
  <2>2. \A a, v \in Ids : v \in Intact => vfile'[a][v] = vfile[a][v] /\ report'[v] = report[v]
    <3>1. CASE UNCHANGED <<vfile, report>>
      BY <3>1
    <3>2. CASE /\ proc[p].pc = "version" /\ UNCHANGED report
               /\ vfile' = [vfile EXCEPT ![proc[p].evt.obj][proc[p].evt.id] = "partial"]
      BY <1>0, <2>1, <3>2 DEF Typed, TypeOK
    <3>3. CASE /\ proc[p].pc = "report" /\ UNCHANGED vfile
               /\ report' = [report EXCEPT ![proc[p].evt.id] = "partial"]
      BY <1>0, <2>1, <3>3 DEF Typed, TypeOK
    <3> QED BY <1>4, <3>1, <3>2, <3>3 DEF Crash
  <2> QED BY <1>2, <1>4, <2>2 DEF Crash
<1>5. ASSUME UNCHANGED <<log, vfile, report>> PROVE FilesPrecedeEvents'
  BY <1>2, <1>5
<1>6. CASE UNCHANGED vars
  BY <1>5, <1>6 DEF vars
<1>7. ASSUME NEW p \in Procs, BeginOp(p) PROVE FilesPrecedeEvents'
  BY <1>5, <1>7 DEF BeginOp, BeginInit, BeginRecord, BeginCreate, BeginUpdate, BeginDecision,
                    BeginRde, BeginRebuild
<1>8. ASSUME NEW p \in Procs, Step(p) PROVE FilesPrecedeEvents'
  <2>1. CASE WriteVersion(p) \/ WriteReport(p)
    BY <1>3, <2>1
  <2>2. CASE AppendEvent(p)
    BY <1>1, <2>2
  <2>3. CASE \/ WriteMeta(p) \/ TouchLog(p) \/ WriteCurrent(p) \/ LoadContext(p) \/ AppendRejected(p)
             \/ ReadLog(p) \/ ReadLogRaises(p) \/ TruncateIndex(p) \/ WriteIndex(p)
    BY <1>5, <2>3 DEF WriteMeta, TouchLog, WriteCurrent, LoadContext, AppendRejected, ReadLog,
                      ReadLogRaises, TruncateIndex, WriteIndex
  <2> QED BY <1>8, <2>1, <2>2, <2>3 DEF Step
<1> QED BY <1>1, <1>4, <1>6, <1>7, <1>8 DEF Next

(* Whatever crashes and interleavings did, every version and RDE record in   *)
(* the log has its complete file.                                            *)
THEOREM FilesComplete == Spec => []FilesPrecedeEvents
<1>1. Init => Strong /\ FilesPrecedeEvents
  BY InitStrong
<1>2. Strong /\ FilesPrecedeEvents /\ [Next]_vars => (Strong /\ FilesPrecedeEvents)'
  BY NextStrong, NextFiles
<1> QED BY <1>1, <1>2, PTL DEF Spec

(* What a step does to the log. *)
LEMMA LogMoves ==
  ASSUME [Next]_vars, Typed
  PROVE  \/ log' = log /\ open' = open /\ torn' = torn
         \/ \E p \in Procs : AppendEvent(p) /\ torn' = torn
         \/ torn' # 0
<1> USE DEF files, counts
<1>1. CASE UNCHANGED vars
  BY <1>1 DEF vars
<1>2. ASSUME NEW p \in Procs, BeginOp(p) \/ Step(p) \/ AppendTorn(p) \/ Crash(p)
      PROVE  \/ log' = log /\ open' = open /\ torn' = torn
             \/ AppendEvent(p) /\ torn' = torn
             \/ torn' # 0
  <2>1. CASE BeginOp(p)
    BY <2>1 DEF BeginOp, BeginInit, BeginRecord, BeginCreate, BeginUpdate, BeginDecision, BeginRde,
                BeginRebuild, Begin
  <2>2. CASE Step(p) \/ Crash(p)
    BY <2>2 DEF Step, WriteMeta, TouchLog, WriteCurrent, WriteVersion, WriteReport, LoadContext,
                AppendEvent, AppendRejected, ReadLog, ReadLogRaises, TruncateIndex, WriteIndex, Crash
  <2>3. CASE AppendTorn(p)
    <3>1. torn \in Nat
      BY BoundAssumption DEF Typed, TypeOK
    <3>2. torn' = torn + 1
      BY <2>3 DEF AppendTorn
    <3>. QED  BY <3>1, <3>2
  <2>. QED  BY <1>2, <2>1, <2>2, <2>3
<1>. QED  BY <1>1, <1>2 DEF Next

(* A torn append costs at most one acknowledged event.                       *)
Lost == Cardinality(acked \ Intact) + (IF open THEN 1 ELSE 0) <= torn

LEMMA NextLost == Strong /\ Lost /\ [Next]_vars => Lost'
<1> SUFFICES ASSUME Strong, Lost, [Next]_vars PROVE Lost'
  OBVIOUS
<1> USE DEF files, counts
<1> DEFINE lost == acked \ Intact
<1>0. Typed /\ IsFiniteSet(acked) /\ IsFiniteSet(lost) /\ Cardinality(lost) \in Nat
      /\ open \in BOOLEAN /\ torn \in Nat
  <2>1. IsFiniteSet(Ids)
    BY FS_Interval, BoundAssumption DEF Ids
  <2>2. acked \in SUBSET Ids /\ lost \in SUBSET Ids
    BY DEF Strong, Typed, TypeOK
  <2>3. torn \in Nat /\ open \in BOOLEAN
    BY BoundAssumption DEF Strong, Typed, TypeOK
  <2> QED BY <2>1, <2>2, <2>3, FS_Subset, FS_CardinalityType DEF Strong
<1>1. ASSUME NEW p \in Procs, AppendEvent(p) \/ AppendTorn(p)
      PROVE  /\ open => \A i \in Intact : i \in acked => i \in Intact'
             /\ ~ open => Intact \subseteq Intact'
             /\ ~ open /\ AppendEvent(p) => proc[p].evt.id \in Intact'
  <2>1. log \in Seq(Line) /\ (open => log # <<>>)
    BY <1>0 DEF Typed, TypeOK, OpenLine
  <2>2. /\ \A l \in Broken \cup {Stamped(p)} : l \in Line
        /\ Stamped(p) \in Event /\ Stamped(p).id = proc[p].evt.id
    BY <1>0, <1>1, StampedType, BrokenLine DEF AppendEvent, AppendTorn, Line
  <2>3. CASE open
    <3>1. PICK l \in Broken : log' = Glued(l)
      BY <1>0, <1>1, <2>3, AppendForms
    <3>2. Len(log') = Len(log) /\ \A i \in 1 .. Len(log) : i # Len(log) => log'[i] = log[i]
      BY <2>1, <2>3, <3>1, GlueType
    <3>3. log[Len(log)].id \notin acked
      BY <2>3 DEF Strong, OpenUnacked
    <3> QED BY <2>3, <3>2, <3>3 DEF Intact, ReadAll
  <2>4. CASE ~ open
    <3>1. PICK l \in Broken \cup {Stamped(p)} :
            log' = Append(log, l) /\ (AppendEvent(p) => l = Stamped(p))
      BY <1>0, <1>1, <2>4, AppendForms
    <3>2. Len(log') = Len(log) + 1 /\ log'[Len(log) + 1] = l /\ \A i \in 1 .. Len(log) : log'[i] = log[i]
      BY <2>1, <2>2, <3>1, AppendProperties
    <3>3. Stamped(p) \notin Broken
      BY <2>2, BrokenLine
    <3>4. Len(log) \in Nat
      BY <2>1, LenProperties
    <3>5. Intact \subseteq Intact'
      BY <3>2, <3>4 DEF Intact, ReadAll
    <3>6. AppendEvent(p) => proc[p].evt.id \in Intact'
      BY <2>2, <3>1, <3>2, <3>3, <3>4 DEF Intact, ReadAll
    <3> QED BY <2>4, <3>5, <3>6
  <2> QED BY <1>0, <2>3, <2>4
<1>2. ASSUME NEW p \in Procs, AppendEvent(p) PROVE Lost'
  <2>1. acked' = acked \cup {proc[p].evt.id} /\ torn' = torn /\ open' = FALSE
    BY <1>2 DEF AppendEvent
  <2>2. CASE open
    <3>1. (acked \ Intact)' \subseteq lost \cup {proc[p].evt.id}
      BY <1>1, <1>2, <2>1, <2>2
    <3>2. Cardinality((acked \ Intact)') <= Cardinality(lost) + 1
          /\ Cardinality((acked \ Intact)') \in Nat
      <4> HIDE DEF lost
      <4>0. PICK x : x = proc[p].evt.id
        OBVIOUS
      <4>1. IsFiniteSet(lost \cup {x}) /\ Cardinality(lost \cup {x}) <= Cardinality(lost) + 1
        <5>1. /\ IsFiniteSet(lost \cup {x})
              /\ Cardinality(lost \cup {x}) = IF x \in lost THEN Cardinality(lost) ELSE Cardinality(lost) + 1
          BY <1>0, FS_AddElement
        <5> QED BY <1>0, <5>1
      <4>2. (acked \ Intact)' \in SUBSET (lost \cup {x})
        BY <3>1, <4>0
      <4>3. /\ Cardinality((acked \ Intact)') <= Cardinality(lost \cup {x})
            /\ IsFiniteSet((acked \ Intact)')
        BY <4>1, <4>2, FS_Subset
      <4>4. Cardinality((acked \ Intact)') \in Nat /\ Cardinality(lost \cup {x}) \in Nat
        BY <4>1, <4>3, FS_CardinalityType
      <4> QED BY <1>0, <4>1, <4>3, <4>4
    <3> QED BY <1>0, <2>1, <2>2, <3>2 DEF Lost
  <2>3. CASE ~ open
    <3>1. (acked \ Intact)' \subseteq lost
      BY <1>1, <1>2, <2>1, <2>3
    <3>2. Cardinality((acked \ Intact)') <= Cardinality(lost)
          /\ Cardinality((acked \ Intact)') \in Nat
      <4> HIDE DEF lost
      <4> QED BY <1>0, <3>1, FS_Subset, FS_CardinalityType
    <3> QED BY <1>0, <2>1, <2>3, <3>2 DEF Lost
  <2> QED BY <2>2, <2>3
<1>3. ASSUME NEW p \in Procs, AppendTorn(p) PROVE Lost'
  <2>1. acked' = acked /\ torn' = torn + 1 /\ open' = TRUE
    BY <1>3 DEF AppendTorn
  <2>2. (acked \ Intact)' \subseteq lost
    BY <1>0, <1>1, <1>3, <2>1
  <2>3. Cardinality((acked \ Intact)') <= Cardinality(lost)
        /\ Cardinality((acked \ Intact)') \in Nat
    <3> HIDE DEF lost
    <3> QED BY <1>0, <2>2, FS_Subset, FS_CardinalityType
  <2> QED BY <1>0, <2>1, <2>3 DEF Lost
<1>4. ASSUME UNCHANGED <<log, open, acked, torn>> PROVE Lost'
  BY <1>4 DEF Lost, Intact, ReadAll
<1>5. CASE UNCHANGED vars
  BY <1>4, <1>5 DEF vars
<1>6. ASSUME NEW p \in Procs, BeginOp(p) PROVE Lost'
  BY <1>4, <1>6 DEF BeginOp, BeginInit, BeginRecord, BeginCreate, BeginUpdate, BeginDecision,
                    BeginRde, BeginRebuild, Begin
<1>7. ASSUME NEW p \in Procs, Step(p) PROVE Lost'
  <2>1. CASE AppendEvent(p)
    BY <1>2, <2>1
  <2>2. CASE ~ AppendEvent(p)
    BY <1>4, <1>7, <2>2 DEF Step, WriteMeta, TouchLog, WriteCurrent, WriteVersion, WriteReport,
                      LoadContext, AppendRejected, ReadLog, ReadLogRaises, TruncateIndex, WriteIndex
  <2> QED BY <2>1, <2>2
<1>8. ASSUME NEW p \in Procs, Crash(p) PROVE Lost'
  BY <1>4, <1>8 DEF Crash
<1> QED BY <1>3, <1>5, <1>6, <1>7, <1>8 DEF Next

(* Without a failed append nothing is undecodable, and nothing is lost.      *)
LEMMA NextLoss ==
  Strong /\ LossBound /\ NoneUndecodable /\ [Next]_vars => LossBound' /\ NoneUndecodable'
<1> SUFFICES ASSUME Strong, LossBound, NoneUndecodable, [Next]_vars
             PROVE  LossBound' /\ NoneUndecodable'
  OBVIOUS
<1>1. Lost' /\ Strong' /\ Typed
  BY NextLost, NextStrong DEF LossBound, Lost, Strong
<1>4. \A T \in SUBSET Ids : IsFiniteSet(T)
  <2>1. IsFiniteSet(Ids)
    BY FS_Interval, BoundAssumption DEF Ids
  <2>. QED  BY <2>1, FS_Subset
<1>2. NoneUndecodable'
  <2> SUFFICES ASSUME torn' = 0 PROVE Decodes(log')
    BY DEF NoneUndecodable
  <2>1. CASE log' = log /\ open' = open /\ torn' = torn
    BY <2>1 DEF NoneUndecodable, Decodes
  <2>2. ASSUME NEW p \in Procs, AppendEvent(p), torn' = torn PROVE Decodes(log')
    <3>1. ~ open
      <4>1. Cardinality(acked \ Intact) \in Nat
        <5>1. acked \ Intact \in SUBSET Ids
          BY <1>1 DEF Typed, TypeOK
        <5>. QED  BY <1>4, <5>1, FS_CardinalityType
      <4>. QED  BY <2>2, <4>1 DEF LossBound
    <3>2. log' = Append(log, Stamped(p)) /\ Stamped(p) \in Event /\ log \in Seq(Line)
      BY <1>1, <2>2, <3>1, AppendForms, StampedType DEF AppendEvent, Typed, TypeOK
    <3>3. /\ Len(log') = Len(log) + 1 /\ log'[Len(log) + 1] = Stamped(p)
          /\ \A i \in 1 .. Len(log) : log'[i] = log[i]
      BY <3>2, AppendProperties DEF Line
    <3>4. Len(log) \in Nat /\ Stamped(p) # Undecodable
      BY <3>2, BrokenLine, LenProperties
    <3>. QED  BY <2>2, <3>3, <3>4 DEF NoneUndecodable, Decodes
  <2>. QED  BY <1>1, <2>1, <2>2, LogMoves
<1>3. torn' = 0 => acked' \subseteq Readable'
  <2>1. IsFiniteSet(acked' \ Intact') /\ open' \in BOOLEAN
    <3>1. acked' \ Intact' \in SUBSET Ids /\ open' \in BOOLEAN
      BY <1>1 DEF Strong, Typed, TypeOK
    <3>. QED  BY <1>4, <3>1
  <2>2. Cardinality(acked' \ Intact') \in Nat
    BY <2>1, FS_CardinalityType
  <2>3. torn' = 0 => Cardinality(acked' \ Intact') = 0
    BY <1>1, <2>1, <2>2 DEF Lost
  <2>4. torn' = 0 => acked' \ Intact' = {}
    BY <2>1, <2>3, FS_EmptySet
  <2>. QED  BY <1>2, <2>4 DEF Readable, NoneUndecodable
<1>. QED  BY <1>1, <1>2, <1>3 DEF LossBound, Lost

(* However many appends are cut short, the acknowledged events whose lines   *)
(* are damaged are never more than they; and until one is, every             *)
(* acknowledged event can be read.                                           *)
THEOREM LossBounded == Spec => []LossBound
<1>1. Init => Strong /\ LossBound /\ NoneUndecodable
  BY InitStrong
<1>2. Strong /\ LossBound /\ NoneUndecodable /\ [Next]_vars
        => (Strong /\ LossBound /\ NoneUndecodable)'
  BY NextStrong, NextLoss
<1> QED BY <1>1, <1>2, PTL DEF Spec

(***************************************************************************)
(* What the indexes and the references say, as long as nothing was cut     *)
(* short: an index, and what a rebuild has read, is a prefix of the log,   *)
(* and so whatever a command took from an index is in the log.             *)
(***************************************************************************)

FromPrefix(f, m) == \E n \in 0 .. Len(log) : m = Project(f, SubSeq(log, 1, n))

Resolves(r) == \E i \in 1 .. Len(log) : log[i].id = r

(* the objects with snapshots of their own in the log *)
Sorts == {"artifacts", "contexts"}

(* the log has a first snapshot of o, and that is an f *)
Known(f, o) == \E i \in 1 .. Len(log) : log[i].id = o /\ log[i].kind \in KindsOf[f]

FileHolds(f, x) ==
  /\ x.state = "absent" => DOMAIN x.map = {}
  /\ x.state = "whole" => FromPrefix(f, x.map)

(* e was made of what an index said *)
MadeOf(e) ==
  /\ e.kind # "rde" => \A r \in e.refs : Resolves(r)
  /\ \A f \in Sorts : e.kind \in KindsOf[f] => e.obj = e.id \/ Known(f, e.obj)

Holds(j) ==
  /\ j.pc \in {"truncate", "write"} => \E n \in 0 .. Len(log) : j.snap = SubSeq(log, 1, n)
  /\ MadeOf(j.evt)

LinesHold ==
  \A i \in 1 .. Len(log) :
    /\ log[i].kind # "rde" => \A r \in log[i].refs : \E k \in 1 .. i - 1 : log[k].id = r
    /\ \A f \in Sorts : log[i].kind \in KindsOf[f] =>
         \E k \in 1 .. i : log[k].id = log[i].obj /\ log[k].kind \in KindsOf[f]

PastHolds ==
  /\ open = FALSE
  /\ \A f \in IndexNames : FileHolds(f, idx[f])
  /\ \A p \in Procs : Holds(proc[p])
  /\ LinesHold

Past == torn = 0 => PastHolds

(* A prefix of the log is a prefix of a longer one. *)
LEMMA PrefixOfAppend ==
  ASSUME NEW S, NEW s \in Seq(S), NEW e \in S, NEW n \in 0 .. Len(s)
  PROVE  SubSeq(Append(s, e), 1, n) = SubSeq(s, 1, n)
<1>1. Len(s) \in Nat /\ \A i \in 1 .. Len(s) : Append(s, e)[i] = s[i]
  BY AppendProperties, LenProperties
<1>2. \A i \in 1 .. n : i \in 1 .. Len(s)
  BY <1>1
<1>. QED  BY SMTT(60), <1>1, <1>2 DEF SubSeq

(* The whole of a log is a prefix of it. *)
LEMMA WholePrefix ==
  ASSUME NEW S, NEW s \in Seq(S)
  PROVE  SubSeq(s, 1, Len(s)) = s
<1>1. Len(s) \in Nat /\ DOMAIN s = 1 .. Len(s) /\ s = [i \in 1 .. Len(s) |-> s[i]]
  BY LenProperties
<1>. QED  BY SMTT(60), <1>1 DEF SubSeq

(* What an index built from a prefix of the log names is in the log. *)
LEMMA ProjectedIsThere ==
  ASSUME Typed, LinesHold, NEW f \in Sorts, NEW m, FromPrefix(f, m), NEW k \in DOMAIN m
  PROVE  Resolves(m[k].latest) /\ Known(f, k)
<1>1. PICK n \in 0 .. Len(log) : m = Project(f, SubSeq(log, 1, n))
  BY DEF FromPrefix
<1>2. PICK lines : lines = SubSeq(log, 1, n)
  OBVIOUS
<1>3. log \in Seq(Line) /\ Len(log) \in Nat
  BY LenProperties DEF Typed, TypeOK
<1>4. lines \in Seq(Line) /\ Len(lines) = n /\ \A i \in 1 .. n : lines[i] = log[i] /\ i \in 1 .. Len(log)
  <2>1. 1 .. n \subseteq 1 .. Len(log)
    BY <1>3
  <2>2. lines = [i \in 1 .. n |-> log[i]]
    BY SMTT(60), <1>2, <1>3 DEF SubSeq
  <2>3. \A i \in 1 .. n : lines[i] = log[i] /\ lines[i] \in Line
    BY <1>3, <2>1, <2>2, ElementOfSeq
  <2>4. n \in Nat
    BY <1>3
  <2>. QED  BY <2>1, <2>2, <2>3, <2>4
<1> DEFINE is == Relevant(f, lines)
           Kept(h) == {lines[i].id : i \in {j \in is : lines[j].obj = h}}
           Last(h) == lines[LastOf(h, lines, is)].id
<1>5. m = [h \in {lines[i].obj : i \in is} |->
             IF f = "artifacts"
               THEN [latest |-> Last(h), kept |-> Kept(h), rde |-> Attached(Kept(h), lines)]
               ELSE [latest |-> Last(h), kept |-> {Last(h)}, rde |-> {}]]
  BY <1>1, <1>2 DEF Project
<1>6. is \in SUBSET (1 .. Len(lines)) /\ \A i \in is : lines[i].kind \in KindsOf[f]
  BY DEF Relevant, ReadAll
<1> HIDE DEF is
<1>7. PICK i0 \in is : lines[i0].obj = k
  BY <1>5
<1>8. LastOf(k, lines, is) \in is
  BY <1>4, <1>6, <1>7, LastOfLine
<1>9. m[k].latest = Last(k)
  BY <1>5, <1>7
<1>10. Resolves(m[k].latest)
  BY <1>4, <1>6, <1>8, <1>9 DEF Resolves
<1>11. Known(f, k)
  <2>1. i0 \in 1 .. Len(log) /\ log[i0] = lines[i0] /\ i0 \in Nat
    BY <1>3, <1>4, <1>6, <1>7
  <2>2. log[i0].obj = k /\ log[i0].kind \in KindsOf[f]
    BY <1>6, <1>7, <2>1
  <2>3. PICK j \in 1 .. i0 : log[j].id = k /\ log[j].kind \in KindsOf[f]
    BY <2>1, <2>2 DEF LinesHold
  <2>4. j \in 1 .. Len(log)
    BY <1>3, <2>1, <2>3
  <2>. QED  BY <2>3, <2>4 DEF Known
<1>. QED  BY <1>10, <1>11

(* What can be loaded of an index is in the log. *)
LEMMA LoadedIsThere ==
  ASSUME Typed, PastHolds, NEW f \in Sorts, Loadable(f), NEW k \in DOMAIN Load(f)
  PROVE  Resolves(Latest(f, k)) /\ Known(f, k) /\ Resolves(k)
<1>1. f \in IndexNames
  BY IndexNamesType DEF Sorts
<1>2. PICK x : x = idx[f]
  OBVIOUS
<1>3. FileHolds(f, x) /\ x.state \in {"absent", "whole"} /\ k \in DOMAIN x.map
  BY <1>1, <1>2 DEF PastHolds, Loadable, Load
<1>4. FromPrefix(f, x.map)
  BY <1>3 DEF FileHolds
<1>5. \A o : Known(f, o) => Resolves(o)
  BY DEF Known, Resolves
<1>. QED  BY <1>2, <1>3, <1>4, <1>5, ProjectedIsThere DEF PastHolds, Latest, Load

(* Nothing of it is lost when the log stays, or gains a line. *)
LEMMA HoldsOn ==
  ASSUME Typed, \/ UNCHANGED log
                \/ \E e \in Line : log' = Append(log, e)
  PROVE  /\ \A f, m : FromPrefix(f, m) => FromPrefix(f, m)'
         /\ \A r : Resolves(r) => Resolves(r)'
         /\ \A f, o : Known(f, o) => Known(f, o)'
         /\ \A j : Holds(j) => Holds(j)'
         /\ \A f, x : FileHolds(f, x) => FileHolds(f, x)'
<1>1. log \in Seq(Line) /\ Len(log) \in Nat
  BY LenProperties DEF Typed, TypeOK
<1>2. \A n \in 0 .. Len(log) : n \in 0 .. Len(log') /\ SubSeq(log', 1, n) = SubSeq(log, 1, n)
  <2>1. CASE UNCHANGED log
    BY <2>1
  <2>2. ASSUME NEW e \in Line, log' = Append(log, e)
        PROVE  \A n \in 0 .. Len(log) : n \in 0 .. Len(log') /\ SubSeq(log', 1, n) = SubSeq(log, 1, n)
    BY <1>1, <2>2, PrefixOfAppend, AppendProperties
  <2>. QED  BY <2>1, <2>2
<1>3. \A i \in 1 .. Len(log) : i \in 1 .. Len(log') /\ log'[i] = log[i]
  <2>1. CASE UNCHANGED log
    BY <2>1
  <2>2. ASSUME NEW e \in Line, log' = Append(log, e)
        PROVE  \A i \in 1 .. Len(log) : i \in 1 .. Len(log') /\ log'[i] = log[i]
    BY <1>1, <2>2, AppendProperties
  <2>. QED  BY <2>1, <2>2
<1>4. ASSUME NEW f, NEW m, FromPrefix(f, m) PROVE FromPrefix(f, m)'
  <2>1. PICK n \in 0 .. Len(log) : m = Project(f, SubSeq(log, 1, n))
    BY <1>4 DEF FromPrefix
  <2>2. n \in 0 .. Len(log') /\ m = Project(f, SubSeq(log', 1, n))
    BY <1>2, <2>1
  <2>. QED  BY <2>2 DEF FromPrefix, Project, Relevant, ReadAll, LastOf, Attached
<1>5. (\A r : Resolves(r) => Resolves(r)') /\ (\A f, o : Known(f, o) => Known(f, o)')
  BY <1>3 DEF Resolves, Known
<1>6. \A e : MadeOf(e) => MadeOf(e)'
  <2> SUFFICES ASSUME NEW e, MadeOf(e) PROVE MadeOf(e)'
    OBVIOUS
  <2>1. e.kind # "rde" => \A r \in e.refs : Resolves(r)'
    BY <1>5 DEF MadeOf
  <2>2. \A f \in Sorts : e.kind \in KindsOf[f] => e.obj = e.id \/ Known(f, e.obj)'
    BY <1>5 DEF MadeOf
  <2>. QED  BY <2>1, <2>2 DEF MadeOf, Resolves, Known
<1>7. \A j : Holds(j) => Holds(j)'
  BY <1>2, <1>6 DEF Holds
<1>8. \A f, x : FileHolds(f, x) => FileHolds(f, x)'
  BY <1>4 DEF FileHolds
<1>. QED  BY <1>4, <1>5, <1>7, <1>8

(* A step that leaves the log alone: what it leaves in the files and in its  *)
(* process must come from the log.                                           *)
LEMMA StepHolds ==
  ASSUME Typed, PastHolds, NEW p \in Procs, NEW j, proc' = [proc EXCEPT ![p] = j], Holds(j),
         log' = log, open' = open, \A f \in IndexNames : FileHolds(f, idx'[f])
  PROVE  PastHolds'
<1>1. /\ \A r : Holds(r) => Holds(r)'
      /\ \A f, x : FileHolds(f, x) => FileHolds(f, x)'
  BY HoldsOn
<1>2. ASSUME NEW q \in Procs PROVE Holds(proc[q])'
  <2>1. PICK r : r = proc'[q]
    OBVIOUS
  <2>2. r = IF q = p THEN j ELSE proc[q]
    BY <2>1 DEF Typed, TypeOK
  <2>3. Holds(r)
    BY <2>2 DEF PastHolds
  <2>4. Holds(r)'
    BY <1>1, <2>3
  <2>. QED  BY <2>1, <2>4 DEF Holds, MadeOf, Resolves, Known
<1>3. ASSUME NEW f \in IndexNames PROVE FileHolds(f, idx[f])'
  <2>1. PICK x : x = idx'[f]
    OBVIOUS
  <2>2. FileHolds(f, x)'
    BY <1>1, <2>1
  <2>. QED  BY <2>1, <2>2 DEF FileHolds, FromPrefix
<1>4. LinesHold'
  BY DEF PastHolds, LinesHold
<1>. QED  BY <1>2, <1>3, <1>4 DEF PastHolds

(* A new operation, whose event was made of what an index said. *)
LEMMA BeginHolds ==
  ASSUME Typed, PastHolds, NEW p \in Procs, NEW o, NEW where, where \notin {"truncate", "write"}, NEW e,
         Begin(p, o, where, e), MadeOf(e), UNCHANGED <<log, open, idx>>
  PROVE  PastHolds'
<1>1. PICK j : j = [Idle EXCEPT !.pc = where, !.op = o, !.evt = e]
  OBVIOUS
<1>2. j.pc = where /\ j.evt = e
  BY <1>1 DEF Idle
<1>3. proc' = [proc EXCEPT ![p] = j] /\ Holds(j)
  BY <1>1, <1>2 DEF Begin, Holds
<1>4. \A f \in IndexNames : FileHolds(f, idx'[f])
  BY DEF PastHolds
<1>. QED  BY <1>3, <1>4, StepHolds

(* An event that refers to nothing. *)
LEMMA MadeOfNothing ==
  ASSUME NEW kind, NEW refs, refs = {} \/ kind = "rde"
  PROVE  MadeOf(NewEvent(kind, next, refs))
  BY DEF NewEvent, MadeOf

(* Every operation begins with an event that the log accounts for.           *)
LEMMA BeginOpHolds ==
  ASSUME Typed, PastHolds, NEW p \in Procs, BeginOp(p)
  PROVE  PastHolds'
<1> USE DEF files
<1>1. CASE BeginInit(p)
  <2>1. MadeOf([NewEvent("chronicle", next, {}) EXCEPT !.cid = next])
    BY DEF NewEvent, MadeOf, Sorts, KindsOf
  <2>. QED  BY <1>1, <2>1, BeginHolds DEF BeginInit
<1>2. CASE BeginRecord(p)
  <2>1. PICK o \in AllOps, kind \in {"note", "context", "rule"} :
          Begin(p, o, "append", NewEvent(kind, next, {}))
    BY <1>2 DEF BeginRecord, AllOps
  <2>2. MadeOf(NewEvent(kind, next, {}))
    BY MadeOfNothing
  <2>. QED  BY <1>2, <2>1, <2>2, BeginHolds DEF BeginRecord
<1>3. CASE BeginCreate(p)
  <2>1. MadeOf(NewEvent("created_artifact", next, {}))
    BY MadeOfNothing
  <2>. QED  BY <1>3, <2>1, BeginHolds DEF BeginCreate
<1>4. CASE BeginUpdate(p)
  <2>1. PICK a \in DOMAIN Load("artifacts") :
          Begin(p, "update", "current", NewEvent("versioned", a, {Latest("artifacts", a)}))
    BY <1>4 DEF BeginUpdate
  <2>2. PICK l : l = Latest("artifacts", a)
    OBVIOUS
  <2>3. Known("artifacts", a) /\ Resolves(l)
    BY <1>4, <2>2, LoadedIsThere DEF BeginUpdate, Sorts
  <2>4. MadeOf(NewEvent("versioned", a, {l}))
    BY <2>3 DEF NewEvent, MadeOf, Sorts, KindsOf
  <2>. QED  BY <1>4, <2>1, <2>2, <2>4, BeginHolds DEF BeginUpdate
<1>5. CASE BeginDecision(p)
  <2>1. CASE Begin(p, "decision", "append", NewEvent("decision", next, {}))
    <3>1. MadeOf(NewEvent("decision", next, {}))
      BY MadeOfNothing
    <3>. QED  BY <1>5, <2>1, <3>1, BeginHolds DEF BeginDecision
  <2>2. CASE /\ Loadable("artifacts")
             /\ \E a \in DOMAIN Load("artifacts") :
                  Begin(p, "decision", "append", NewEvent("decision", next, {a}))
    <3>1. PICK a \in DOMAIN Load("artifacts") :
            Begin(p, "decision", "append", NewEvent("decision", next, {a}))
      BY <2>2
    <3>2. Resolves(a)
      BY <2>2, LoadedIsThere DEF Sorts
    <3>3. MadeOf(NewEvent("decision", next, {a}))
      BY <3>2 DEF NewEvent, MadeOf, Sorts, KindsOf
    <3>. QED  BY <1>5, <3>1, <3>3, BeginHolds DEF BeginDecision
  <2>. QED  BY <1>5, <2>1, <2>2 DEF BeginDecision
<1>6. CASE BeginRde(p)
  <2>1. PICK refs, w : Begin(p, "rde", "report", [NewEvent("rde", next, refs) EXCEPT !.to = w])
    BY <1>6 DEF BeginRde
  <2>2. MadeOf([NewEvent("rde", next, refs) EXCEPT !.to = w])
    BY DEF NewEvent, MadeOf, Sorts, KindsOf
  <2>. QED  BY <1>6, <2>1, <2>2, BeginHolds DEF BeginRde
<1>7. CASE BeginRebuild(p)
  <2>1. MadeOf(NewEvent("context", next, {})) /\ MadeOf(NoEvent)
    BY MadeOfNothing DEF MadeOf, NoEvent, Corrupt, Sorts, KindsOf
  <2>. QED  BY <1>7, <2>1, BeginHolds DEF BeginRebuild
<1>. QED  BY <1>1, <1>2, <1>3, <1>4, <1>5, <1>6, <1>7 DEF BeginOp

(* Going on with the same event, or ending. *)
LEMMA GotoHolds ==
  ASSUME Typed, PastHolds, NEW p \in Procs, NEW where, Goto(p, where),
         where \in {"truncate", "write"} => proc[p].pc \in {"truncate", "write"},
         log' = log, open' = open, \A f \in IndexNames : FileHolds(f, idx'[f])
  PROVE  PastHolds'
<1>1. PICK j : j = IF where = "idle" THEN Idle ELSE [proc[p] EXCEPT !.pc = where]
  OBVIOUS
<1>2. proc' = [proc EXCEPT ![p] = j]
  BY <1>1 DEF Goto
<1>3. Holds(j)
  <2>1. CASE where = "idle"
    BY <1>1, <2>1 DEF Idle, Holds, MadeOf, NoEvent, Corrupt, Sorts, KindsOf
  <2>2. CASE where # "idle"
    <3>1. proc[p] \in Proc /\ Holds(proc[p])
      BY DEF Typed, TypeOK, PastHolds
    <3>2. j.pc = where /\ j.evt = proc[p].evt /\ j.snap = proc[p].snap
      BY <1>1, <2>2, <3>1 DEF Proc
    <3>. QED  BY <3>1, <3>2 DEF Holds
  <2>. QED  BY <2>1, <2>2
<1>. QED  BY <1>2, <1>3, StepHolds
(* The new snapshot of a context is based on the one the index shows. *)
LEMMA LoadHolds ==
  ASSUME Typed, PastHolds, AllGood, NEW p \in Procs, LoadContext(p)
  PROVE  PastHolds'
<1> USE DEF files, counts
<1>0. log' = log /\ open' = open /\ \A f \in IndexNames : FileHolds(f, idx'[f])
  BY DEF LoadContext, PastHolds
<1>1. CASE Goto(p, "idle")
  BY <1>0, <1>1, GotoHolds
<1>2. CASE /\ Loadable("contexts")
           /\ \E c \in DOMAIN Load("contexts") :
                proc' = [proc EXCEPT ![p].pc = "append", ![p].evt.obj = c,
                                     ![p].evt.refs = {Latest("contexts", c)}]
  <2>1. PICK c \in DOMAIN Load("contexts") :
          proc' = [proc EXCEPT ![p].pc = "append", ![p].evt.obj = c,
                               ![p].evt.refs = {Latest("contexts", c)}]
    BY <1>2
  <2>2. PICK l : l = Latest("contexts", c)
    OBVIOUS
  <2>3. Resolves(l) /\ Known("contexts", c)
    BY <1>2, <2>2, LoadedIsThere DEF Sorts
  <2>4. proc[p] \in Proc /\ proc[p].op # "rebuild" /\ proc[p].evt \in Event /\ proc \in [Procs -> Proc]
    BY DEF Typed, TypeOK, EventPrepared, LoadContext
  <2>5. PICK e, j : e = [proc[p].evt EXCEPT !.obj = c, !.refs = {l}]
                    /\ j = [proc[p] EXCEPT !.pc = "append", !.evt = e]
    OBVIOUS
  <2>6. proc' = [proc EXCEPT ![p] = j]
    <3>1. proc' = [proc EXCEPT ![p] = [proc[p] EXCEPT !.pc = "append",
                                         !.evt = [proc[p].evt EXCEPT !.obj = c, !.refs = {l}]]]
      BY <2>1, <2>2, <2>4 DEF Proc
    <3>. QED  BY <2>5, <3>1
  <2>7. e.refs = {l} /\ e.obj = c /\ e.kind = proc[p].evt.kind /\ j.pc = "append" /\ j.evt = e
    BY <2>4, <2>5 DEF Proc, Event
  <2>8. ~ IsVersion(proc[p].evt)
    <3>1. Good(proc[p]) /\ proc[p].pc = "load"
      BY DEF AllGood, LoadContext
    <3>. QED  BY <2>4, <3>1 DEF Good
  <2>9. Holds(j)
    BY <2>3, <2>7, <2>8 DEF Holds, MadeOf, IsVersion, Sorts, KindsOf
  <2>. QED  BY <1>0, <2>6, <2>9, StepHolds
<1>. QED  BY <1>1, <1>2 DEF LoadContext

(* A rebuild reads a whole log, and what it then writes to an index file is  *)
(* the projection of what it read.                                           *)
LEMMA RebuildHolds ==
  ASSUME Typed, PastHolds, NEW p \in Procs, ReadLog(p) \/ TruncateIndex(p) \/ WriteIndex(p)
  PROVE  PastHolds'
<1>0. /\ log' = log /\ open' = open /\ log \in Seq(Line) /\ proc \in [Procs -> Proc]
      /\ proc[p] \in Proc /\ Holds(proc[p]) /\ DOMAIN idx = IndexNames
      /\ \A f \in IndexNames : FileHolds(f, idx[f])
  BY DEF ReadLog, TruncateIndex, WriteIndex, files, counts, Typed, TypeOK, PastHolds
<1>1. CASE ReadLog(p)
  <2>1. PICK j : j = [proc[p] EXCEPT !.pc = "truncate", !.snap = log, !.todo = 1]
    OBVIOUS
  <2>2. proc' = [proc EXCEPT ![p] = j]
    BY <1>0, <1>1, <2>1 DEF ReadLog, Proc
  <2>3. j.pc = "truncate" /\ j.snap = log /\ j.evt = proc[p].evt
    BY <1>0, <2>1 DEF Proc
  <2>4. \E n \in 0 .. Len(log) : log = SubSeq(log, 1, n)
    BY <1>0, WholePrefix, LenProperties
  <2>5. Holds(j)
    BY <1>0, <2>3, <2>4 DEF Holds
  <2>6. \A f \in IndexNames : FileHolds(f, idx'[f])
    BY <1>0, <1>1 DEF ReadLog, files
  <2>. QED  BY <1>0, <2>2, <2>5, <2>6, StepHolds
<1>2. CASE TruncateIndex(p)
  <2>1. PICK g : g = IndexFiles[proc[p].todo]
    OBVIOUS
  <2>2. g \in IndexNames /\ proc[p].pc = "truncate"
    BY <1>0, <1>2, <2>1, IndexNamesType DEF Proc, TruncateIndex
  <2>3. \A f \in IndexNames : FileHolds(f, idx'[f])
    BY <1>0, <1>2, <2>1, <2>2 DEF TruncateIndex, FileHolds
  <2>. QED  BY <1>0, <1>2, <2>2, <2>3, GotoHolds DEF TruncateIndex
<1>3. CASE WriteIndex(p)
  <2>1. PICK g : g = IndexFiles[proc[p].todo]
    OBVIOUS
  <2>2. g \in IndexNames /\ proc[p].pc = "write"
    BY <1>0, <1>3, <2>1, IndexNamesType DEF Proc, WriteIndex
  <2>3. PICK n \in 0 .. Len(log) : proc[p].snap = SubSeq(log, 1, n)
    BY <1>0, <2>2 DEF Holds
  <2>4. PICK mine : mine = [state |-> "whole", map |-> Project(g, proc[p].snap)]
    OBVIOUS
  <2>5. FileHolds(g, mine) /\ FileHolds(g, [state |-> "garbled", map |-> NoMap])
    BY <2>3, <2>4 DEF FileHolds, FromPrefix
  <2>6. \E new \in {mine, [state |-> "garbled", map |-> NoMap]} : idx' = [idx EXCEPT ![g] = new]
    BY <1>3, <2>1, <2>4 DEF WriteIndex
  <2>7. \A f \in IndexNames : FileHolds(f, idx'[f])
    BY <1>0, <2>2, <2>5, <2>6
  <2>8. CASE MoreIndexes(p)
    <3>1. PICK j : j = [proc[p] EXCEPT !.pc = "truncate", !.todo = proc[p].todo + 1]
      OBVIOUS
    <3>2. proc' = [proc EXCEPT ![p] = j]
      BY <1>0, <1>3, <2>8, <3>1 DEF WriteIndex, Proc
    <3>3. j.pc = "truncate" /\ j.snap = proc[p].snap /\ j.evt = proc[p].evt
      BY <1>0, <3>1 DEF Proc
    <3>4. Holds(j)
      BY <1>0, <2>2, <3>3 DEF Holds
    <3>. QED  BY <1>0, <2>7, <3>2, <3>4, StepHolds
  <2>9. CASE ~ MoreIndexes(p)
    <3>1. PICK where \in {"load", "idle"} : Goto(p, where)
      BY <1>3, <2>9 DEF WriteIndex
    <3>. QED  BY <1>0, <2>7, <3>1, GotoHolds
  <2>. QED  BY <2>8, <2>9
<1>. QED  BY <1>1, <1>2, <1>3

(* A line that is appended whole refers to lines above it. *)
LEMMA AppendHolds ==
  ASSUME Typed, PastHolds, NEW p \in Procs, AppendEvent(p)
  PROVE  PastHolds'
<1>1. PICK e : e = Stamped(p)
  OBVIOUS
<1>2. /\ e \in Event /\ e.id = proc[p].evt.id /\ e.kind = proc[p].evt.kind
      /\ e.obj = proc[p].evt.obj /\ e.refs = proc[p].evt.refs
  BY <1>1, StampedType DEF AppendEvent
<1>3. MadeOf(e)
  BY <1>2 DEF PastHolds, Holds, MadeOf
<1>4. log' = Append(log, e) /\ open' = FALSE /\ idx' = idx
  BY <1>1 DEF PastHolds, AppendEvent
<1>5. log \in Seq(Line) /\ Len(log) \in Nat /\ e \in Line
  BY <1>2, LenProperties DEF Typed, TypeOK, Line
<1>6. /\ Len(log') = Len(log) + 1 /\ log'[Len(log) + 1] = e
      /\ \A i \in 1 .. Len(log) : log'[i] = log[i]
  BY <1>4, <1>5, AppendProperties
<1>7. /\ \A r : Holds(r) => Holds(r)'
      /\ \A f, x : FileHolds(f, x) => FileHolds(f, x)'
  <2>1. \E l \in Line : log' = Append(log, l)
    BY <1>4, <1>5
  <2>. QED  BY <2>1, HoldsOn
<1>8. LinesHold'
  <2>1. ASSUME NEW i \in 1 .. Len(log)
        PROVE  /\ log'[i].kind # "rde" => \A r \in log'[i].refs : \E k \in 1 .. i - 1 : log'[k].id = r
               /\ \A f \in Sorts : log'[i].kind \in KindsOf[f] =>
                    \E k \in 1 .. i : log'[k].id = log'[i].obj /\ log'[k].kind \in KindsOf[f]
    <3>1. log'[i] = log[i] /\ \A k \in 1 .. i : log'[k] = log[k]
      BY <1>5, <1>6
    <3>2. \A k \in 1 .. i - 1 : k \in 1 .. i
      BY <1>5
    <3>. QED  BY <3>1, <3>2 DEF PastHolds, LinesHold
  <2>2. PICK m : m = Len(log) + 1
    OBVIOUS
  <2>3. log'[m] = e /\ \A k \in 1 .. Len(log) : k \in 1 .. m - 1 /\ k \in 1 .. m /\ log'[k] = log[k]
    BY <1>5, <1>6, <2>2
  <2>4. /\ e.kind # "rde" => \A r \in e.refs : \E k \in 1 .. m - 1 : log'[k].id = r
        /\ \A f \in Sorts : e.kind \in KindsOf[f] =>
             \E k \in 1 .. m : log'[k].id = e.obj /\ log'[k].kind \in KindsOf[f]
    <3>1. \A r : Resolves(r) => \E k \in 1 .. m - 1 : log'[k].id = r
      BY <2>3 DEF Resolves
    <3>2. \A f, o : Known(f, o) => \E k \in 1 .. m : log'[k].id = o /\ log'[k].kind \in KindsOf[f]
      BY <2>3 DEF Known
    <3>3. m \in 1 .. m /\ log'[m] = e
      BY <1>5, <2>2, <2>3
    <3>. QED  BY <1>3, <3>1, <3>2, <3>3 DEF MadeOf
  <2>5. \A i \in 1 .. Len(log') : i \in 1 .. Len(log) \/ i = m
    BY <1>5, <1>6, <2>2
  <2>6. \A i \in 1 .. Len(log') :
          /\ log'[i].kind # "rde" => \A r \in log'[i].refs : \E k \in 1 .. i - 1 : log'[k].id = r
          /\ \A f \in Sorts : log'[i].kind \in KindsOf[f] =>
                    \E k \in 1 .. i : log'[k].id = log'[i].obj /\ log'[k].kind \in KindsOf[f]
    BY <2>1, <2>3, <2>4, <2>5
  <2>. QED  BY <2>6 DEF LinesHold
<1>9. ASSUME NEW q \in Procs PROVE Holds(proc[q])'
  <2>1. PICK r : r = proc'[q]
    OBVIOUS
  <2>2. Holds(r)
    <3>1. PICK j, where : proc' = [proc EXCEPT ![p] = j] /\ where \in {"idle", "read"}
                          /\ j = IF where = "idle" THEN Idle ELSE [proc[p] EXCEPT !.pc = where]
      BY DEF AppendEvent, Goto, AfterAppend
    <3>2. proc[p] \in Proc /\ Holds(proc[p]) /\ Holds(proc[q])
      BY DEF Typed, TypeOK, PastHolds
    <3>3. Holds(j)
      <4>1. CASE where = "idle"
        BY <3>1, <4>1 DEF Idle, Holds, MadeOf, NoEvent, Corrupt, Sorts, KindsOf
      <4>2. CASE where = "read"
        <5>1. j.pc = "read" /\ j.evt = proc[p].evt
          BY <3>1, <3>2, <4>2 DEF Proc
        <5>. QED  BY <3>2, <5>1 DEF Holds
      <4>. QED  BY <3>1, <4>1, <4>2
    <3>. QED  BY <2>1, <3>1, <3>2, <3>3 DEF Typed, TypeOK
  <2>3. Holds(r)'
    BY <1>7, <2>2
  <2>. QED  BY <2>1, <2>3 DEF Holds, MadeOf, Resolves, Known
<1>10. ASSUME NEW f \in IndexNames PROVE FileHolds(f, idx[f])'
  <2>1. PICK x : x = idx'[f]
    OBVIOUS
  <2>2. FileHolds(f, x)
    BY <1>4, <2>1 DEF PastHolds
  <2>3. FileHolds(f, x)'
    BY <1>7, <2>2
  <2>. QED  BY <2>1, <2>3 DEF FileHolds, FromPrefix
<1>. QED  BY <1>4, <1>8, <1>9, <1>10 DEF PastHolds

(* Every step keeps it, but for the append that is cut short. *)
LEMMA NextPast == Strong /\ Past /\ [Next]_vars => Past'
<1> SUFFICES ASSUME Strong, Past, [Next]_vars, torn' = 0 PROVE PastHolds'
  BY DEF Past
<1>0. Typed /\ AllGood
  BY DEF Strong
<1> USE DEF files, counts
<1>1. CASE UNCHANGED vars
  <2>1. PastHolds
    BY <1>1 DEF vars, Past
  <2>. QED  BY <1>1, <2>1 DEF vars, PastHolds, FileHolds, FromPrefix, Holds, MadeOf, Resolves, Known, LinesHold, IsVersion
<1>2. ASSUME NEW p \in Procs, BeginOp(p) \/ Step(p) \/ AppendTorn(p) \/ Crash(p) PROVE PastHolds'
  <2>1. ~ AppendTorn(p)
    BY <1>0, BoundAssumption DEF AppendTorn, Typed, TypeOK
  <2>2. CASE BeginOp(p)
    <3>1. torn' = torn
      BY <2>2 DEF BeginOp, BeginInit, BeginRecord, BeginCreate, BeginUpdate, BeginDecision, BeginRde,
                  BeginRebuild, Begin
    <3>. QED  BY <1>0, <2>2, <3>1, BeginOpHolds DEF Past
  <2>3. CASE Step(p) \/ Crash(p)
    <3>0. PastHolds
      BY <2>3 DEF Past, Step, WriteMeta, TouchLog, WriteCurrent, WriteVersion, WriteReport, LoadContext,
                  AppendEvent, AppendRejected, ReadLog, ReadLogRaises, TruncateIndex, WriteIndex, Crash
    <3>1. CASE LoadContext(p)
      BY <1>0, <3>0, <3>1, LoadHolds
    <3>2. CASE ReadLog(p) \/ TruncateIndex(p) \/ WriteIndex(p)
      BY <1>0, <3>0, <3>2, RebuildHolds
    <3>3. CASE AppendEvent(p)
      BY <1>0, <3>0, <3>3, AppendHolds
    <3>4. CASE \/ WriteMeta(p) \/ TouchLog(p) \/ WriteCurrent(p) \/ WriteVersion(p) \/ WriteReport(p)
               \/ AppendRejected(p) \/ ReadLogRaises(p) \/ Crash(p)
      <4>1. PICK where \in {"touch", "append", "version", "idle"} : Goto(p, where)
        BY <3>4 DEF WriteMeta, TouchLog, WriteCurrent, WriteVersion, WriteReport, AppendRejected,
                    ReadLogRaises, Crash
      <4>2. log' = log /\ open' = open /\ idx' = idx
        BY <3>4 DEF WriteMeta, TouchLog, WriteCurrent, WriteVersion, WriteReport, AppendRejected,
                    ReadLogRaises, Crash
      <4>3. \A f \in IndexNames : FileHolds(f, idx'[f])
        BY <3>0, <4>2 DEF PastHolds
      <4>. QED  BY <1>0, <3>0, <4>1, <4>2, <4>3, GotoHolds
    <3>. QED  BY <2>3, <3>1, <3>2, <3>3, <3>4 DEF Step
  <2>. QED  BY <1>2, <2>1, <2>2, <2>3
<1>. QED  BY <1>1, <1>2 DEF Next

(* A new store has seen nothing, and its indexes show that. *)
LEMMA InitPast == Init => Past
<1> SUFFICES ASSUME Init PROVE PastHolds
  BY DEF Past
<1>1. open = FALSE /\ (log = <<>> \/ log = <<Created>>) /\ Len(log) \in Nat
  BY DEF Init
<1>2. \A f \in IndexNames : FileHolds(f, idx[f])
  <2>1. ASSUME NEW f PROVE NoMap = Project(f, <<>>)
    <3>1. Relevant(f, <<>>) = {}
      BY DEF Relevant, ReadAll
    <3>2. DOMAIN Project(f, <<>>) = {}
      BY <3>1 DEF Project
    <3>. QED  BY <3>1, <3>2 DEF Project, NoMap
  <2>2. SubSeq(log, 1, 0) = <<>> /\ 0 \in 0 .. Len(log)
    BY SMTT(60), <1>1 DEF SubSeq
  <2>3. \A f : FromPrefix(f, NoMap)
    BY <2>1, <2>2 DEF FromPrefix
  <2>4. \A f \in IndexNames : idx[f].map = NoMap
    BY DEF Init
  <2>5. DOMAIN NoMap = {}
    BY DEF NoMap
  <2>. QED  BY <2>3, <2>4, <2>5 DEF FileHolds
<1>3. \A p \in Procs : Holds(proc[p])
  BY DEF Init, Idle, Holds, MadeOf, NoEvent, Corrupt, Sorts, KindsOf
<1>4. LinesHold
  BY <1>1 DEF LinesHold, Created, Sorts, KindsOf
<1>. QED  BY <1>1, <1>2, <1>3, <1>4 DEF PastHolds

(* As long as no append was cut short, every index file that can be loaded   *)
(* is the projection of a prefix of chronicle.jsonl, however many rebuilds   *)
(* race for it and whichever of them dies.                                   *)
THEOREM IndexesPast == Spec => []IndexIsPast
<1>1. Init => Strong /\ Past
  BY InitStrong, InitPast
<1>2. Strong /\ Past /\ [Next]_vars => (Strong /\ Past)'
  BY NextStrong, NextPast
<1>3. Past => IndexIsPast
  BY DEF Past, PastHolds, FileHolds, FromPrefix, IndexIsPast
<1>. QED  BY <1>1, <1>2, <1>3, PTL DEF Spec

(* As long as no append was cut short, whatever an event refers to (its      *)
(* artifact, its parent version, its base snapshot) is in a line above it,   *)
(* although the service took it from an index that others rewrite.           *)
THEOREM ReferencesFound == Spec => []ReferencesResolve
<1>1. Init => Strong /\ Past
  BY InitStrong, InitPast
<1>2. Strong /\ Past /\ [Next]_vars => (Strong /\ Past)'
  BY NextStrong, NextPast
<1>3. Past => ReferencesResolve
  BY DEF Past, PastHolds, LinesHold, ReferencesResolve
<1>. QED  BY <1>1, <1>2, <1>3, PTL DEF Spec

(***************************************************************************)
(* One process at a time                                                    *)
(***************************************************************************)

Snapshots(o) ==
  {j \in 1 .. Len(log) : /\ log[j].kind \in {"context", "created_artifact", "versioned"}
                         /\ log[j].obj = o}

(* e, if it were appended now, would build on the latest snapshot *)
BuildsOn(e) ==
  \A j \in Snapshots(e.obj) : (\A k \in Snapshots(e.obj) : k <= j) => e.refs = {log[j].id}

(* the indexes show the first n lines, and the rest changes no index but     *)
(* that of the RDE records                                                   *)
IndexesUpTo(n) ==
  /\ \A i \in n + 1 .. Len(log) : log[i].kind \in {"note", "rde"}
  /\ \A f \in IndexNames : idx[f] = [state |-> "whole", map |-> Project(f, SubSeq(log, 1, n))]

AllCurrent == \A f \in IndexNames : Current(f)

(* a rebuild of the only process works on the log as it is *)
SoloSteps(p) ==
  /\ proc[p].pc \in {"truncate", "write"} =>
       proc[p].snap = log /\ \A i \in 1 .. proc[p].todo - 1 : Current(IndexFiles[i])
  /\ proc[p].pc = "write" => idx[IndexFiles[proc[p].todo]].state = "empty"
  /\ proc[p].pc = "load" => AllCurrent
  /\ proc[p].op = "record" => proc[p].evt.kind = "note"
  /\ proc[p].op = "init" => proc[p].evt.kind = "chronicle"

(* what its operations find *)
SoloIndexes(p) ==
  torn = 0 /\ crashes = 0 =>
    /\ exists /\ (\/ proc[p].pc \in {"idle", "current", "version", "report"}
                  \/ proc[p].pc = "append" /\ proc[p].op # "init") =>
         \E n \in 0 .. Len(log) : IndexesUpTo(n)
    /\ proc[p].pc = "meta" \/ meta # 0 \/ (proc[p].pc = "idle" /\ ~exists)

(* what they have recorded and are about to record *)
SoloHistory(p) ==
  torn = 0 =>
    /\ \A i \in 1 .. Len(log) :
         log[i].kind = "context" \/ (log[i].kind = "versioned" /\ crashes = 0) => BuildsOnLatest(i)
    /\ proc[p].pc = "append" /\ proc[p].evt.kind = "context" => BuildsOn(proc[p].evt)
    /\ (crashes = 0 /\ proc[p].pc \in {"current", "version", "append"} /\ proc[p].evt.kind = "versioned")
         => BuildsOn(proc[p].evt)

(* every line is readable, and an id of its own *)
Unspoilt ==
  torn = 0 => /\ \A i \in 1 .. Len(log) : log[i] \notin Broken
              /\ \A i, j \in 1 .. Len(log) : log[i].id = log[j].id => i = j

(* Each index has a file of its own.                                         *)
LEMMA IndexFilesDiffer == \A i, j \in 1 .. 5 : IndexFiles[i] = IndexFiles[j] => i = j
<1>1. \A i \in 1 .. 5 : i \in {1, 2, 3, 4, 5}
  OBVIOUS
<1>2. \A i, j \in {1, 2, 3, 4, 5} : IndexFiles[i] = IndexFiles[j] => i = j
  BY DEF IndexFiles
<1>. QED  BY <1>1, <1>2

(* Where a process is after Goto. *)
LEMMA GotoFacts ==
  ASSUME Typed, NEW p \in Procs, NEW where, Goto(p, where)
  PROVE  /\ proc'[p].pc = where
         /\ where = "idle" => proc'[p].op = "rebuild"
         /\ where # "idle" => /\ proc'[p].op = proc[p].op /\ proc'[p].evt = proc[p].evt
                              /\ proc'[p].snap = proc[p].snap /\ proc'[p].todo = proc[p].todo
<1>1. proc \in [Procs -> Proc] /\ proc[p] \in Proc
  BY DEF Typed, TypeOK
<1>2. CASE where = "idle"
  BY <1>1, <1>2, IdleType DEF Goto
<1>3. CASE where # "idle"
  <2>1. PICK j : j = [proc[p] EXCEPT !.pc = where]
    OBVIOUS
  <2>2. proc'[p] = j
    BY <1>1, <1>3, <2>1 DEF Goto
  <2>. QED  BY <1>1, <1>3, <2>1, <2>2 DEF Proc
<1>. QED  BY <1>2, <1>3

(* Where it is after Begin. *)
LEMMA BeginFacts ==
  ASSUME Typed, NEW p \in Procs, NEW o, NEW where, NEW e, Begin(p, o, where, e)
  PROVE  /\ proc[p].pc = "idle" /\ proc'[p].pc = where /\ proc'[p].op = o /\ proc'[p].evt = e
         /\ UNCHANGED <<acked, torn, crashes>>
<1>1. PICK j : j = [Idle EXCEPT !.pc = where, !.op = o, !.evt = e]
  OBVIOUS
<1>2. proc'[p] = j
  BY <1>1 DEF Begin, Typed, TypeOK
<1>. QED  BY <1>1, <1>2 DEF Begin, Idle

(* Where it is after the load of its context. *)
LEMMA LoadFacts ==
  ASSUME Typed, NEW p \in Procs, LoadContext(p)
  PROVE  \/ proc'[p].pc = "idle" /\ proc'[p].op = "rebuild"
         \/ /\ proc'[p].pc = "append" /\ proc'[p].op = proc[p].op
            /\ proc'[p].evt.kind = proc[p].evt.kind
            /\ Loadable("contexts")
            /\ \E c \in DOMAIN Load("contexts") :
                 proc'[p].evt.obj = c /\ proc'[p].evt.refs = {Latest("contexts", c)}
<1>1. CASE Goto(p, "idle")
  BY <1>1, GotoFacts
<1>2. CASE /\ Loadable("contexts")
           /\ \E c \in DOMAIN Load("contexts") :
                proc' = [proc EXCEPT ![p].pc = "append", ![p].evt.obj = c,
                                     ![p].evt.refs = {Latest("contexts", c)}]
  <2>1. PICK c \in DOMAIN Load("contexts") :
          proc' = [proc EXCEPT ![p].pc = "append", ![p].evt.obj = c,
                               ![p].evt.refs = {Latest("contexts", c)}]
    BY <1>2
  <2>2. PICK l : l = Latest("contexts", c)
    OBVIOUS
  <2>3. proc[p] \in Proc /\ proc[p].evt \in Event /\ proc \in [Procs -> Proc]
    BY DEF Typed, TypeOK, EventPrepared, LoadContext
  <2>4. PICK e, j : e = [proc[p].evt EXCEPT !.obj = c, !.refs = {l}]
                    /\ j = [proc[p] EXCEPT !.pc = "append", !.evt = e]
    OBVIOUS
  <2>5. proc'[p] = j
    BY <2>1, <2>2, <2>3, <2>4 DEF Proc
  <2>6. j.pc = "append" /\ j.op = proc[p].op /\ j.evt = e
        /\ e.kind = proc[p].evt.kind /\ e.obj = c /\ e.refs = {l}
    BY <2>3, <2>4 DEF Proc, Event
  <2>. QED  BY <1>2, <2>2, <2>5, <2>6
<1>. QED  BY <1>1, <1>2 DEF LoadContext

(* The steps of a rebuild. *)
LEMMA WriteFacts ==
  ASSUME Typed, NEW p \in Procs, SoloSteps(p), WriteIndex(p)
  PROVE  /\ \/ /\ proc'[p].pc = "truncate" /\ proc'[p].snap = log
               /\ proc'[p].op = proc[p].op /\ proc'[p].evt = proc[p].evt
               /\ \A i \in 1 .. proc'[p].todo - 1 : Current(IndexFiles[i])'
            \/ /\ proc'[p].pc \in {"load", "idle"} /\ AllCurrent'
               /\ \/ proc'[p].op = "rebuild" /\ proc'[p].pc = "idle"
                  \/ proc'[p].op = proc[p].op /\ proc'[p].evt = proc[p].evt
         /\ log' = log
<1>1. PICK r : r = proc[p]
  OBVIOUS
<1>2. /\ r \in Proc /\ proc \in [Procs -> Proc] /\ DOMAIN idx = IndexNames
      /\ r.todo \in 1 .. 5 /\ r.pc = "write" /\ r.snap = log /\ log' = log
  BY <1>1 DEF Typed, TypeOK, Proc, WriteIndex, SoloSteps
<1>3. PICK t, g : t = r.todo /\ g = IndexFiles[t]
  OBVIOUS
<1>4. idx[g].state = "empty" /\ \A i \in 1 .. t - 1 : Current(IndexFiles[i])
  BY <1>1, <1>2, <1>3 DEF SoloSteps
<1>5. idx' = [idx EXCEPT ![g] = [state |-> "whole", map |-> Project(g, log)]]
  BY <1>1, <1>2, <1>3, <1>4 DEF WriteIndex
<1>6. g \in IndexNames
  BY <1>2, <1>3, IndexNamesType
<1>7. \A i \in 1 .. t : Current(IndexFiles[i])'
  <2>1. ASSUME NEW i \in 1 .. t PROVE Current(IndexFiles[i])'
    <3>1. CASE i = t
      BY <1>2, <1>3, <1>5, <1>6, <3>1 DEF Current
    <3>2. CASE i # t
      <4>1. i \in 1 .. t - 1 /\ i \in 1 .. 5 /\ t \in 1 .. 5
        BY <1>2, <1>3, <3>2
      <4>2. IndexFiles[i] # g /\ IndexFiles[i] \in IndexNames
        BY <1>3, <3>2, <4>1, IndexFilesDiffer, IndexNamesType
      <4>3. Current(IndexFiles[i])
        BY <1>4, <4>1
      <4>. QED  BY <1>2, <1>5, <4>2, <4>3 DEF Current
    <3>. QED  BY <3>1, <3>2
  <2>. QED  BY <2>1
<1>8. CASE MoreIndexes(p)
  <2>1. PICK j : j = [r EXCEPT !.pc = "truncate", !.todo = t + 1]
    OBVIOUS
  <2>2. proc'[p] = j
    BY <1>1, <1>2, <1>3, <1>8, <2>1 DEF WriteIndex, Proc
  <2>3. j.pc = "truncate" /\ j.snap = log /\ j.todo = t + 1 /\ j.op = r.op /\ j.evt = r.evt
    BY <1>2, <2>1 DEF Proc
  <2>4. 1 .. proc'[p].todo - 1 = 1 .. t
    BY <1>2, <1>3, <2>2, <2>3
  <2>5. \A i \in 1 .. proc'[p].todo - 1 : Current(IndexFiles[i])'
    BY <1>7, <2>4
  <2>. QED  BY <1>1, <1>2, <2>2, <2>3, <2>5
<1>9. CASE ~ MoreIndexes(p)
  <2>1. t = 5
    BY <1>1, <1>2, <1>3, <1>9, IndexNamesType DEF MoreIndexes
  <2>2. AllCurrent'
    <3>1. \A f \in IndexNames : \E i \in 1 .. 5 : f = IndexFiles[i]
      BY DEF IndexNames
    <3>. QED  BY <1>7, <2>1, <3>1 DEF AllCurrent, Current
  <2>3. PICK where \in {"load", "idle"} : Goto(p, where)
    BY <1>9 DEF WriteIndex
  <2>. QED  BY <1>2, <2>2, <2>3, GotoFacts
<1>. QED  BY <1>8, <1>9

(* A step of the only process keeps what its rebuild has done. *)
LEMMA SoloStepsNext ==
  ASSUME Strong, NEW p, Procs = {p}, SoloSteps(p), [Next]_vars
  PROVE  SoloSteps(p)'
<1>0. Typed /\ p \in Procs /\ proc[p] \in Proc /\ proc \in [Procs -> Proc] /\ DOMAIN idx = IndexNames
  BY DEF Strong, Typed, TypeOK
<1> USE DEF files, counts
<1>1. CASE UNCHANGED vars
  BY <1>1 DEF vars, SoloSteps, AllCurrent, Current
<1>2. CASE BeginOp(p)
  <2>1. /\ proc'[p].pc \in {"meta", "append", "current", "report", "read"}
        /\ proc'[p].op = "record" => proc'[p].evt.kind = "note"
        /\ proc'[p].op = "init" => proc'[p].evt.kind = "chronicle"
    <3>1. CASE BeginInit(p)
      <4>1. PICK e : e = [NewEvent("chronicle", next, {}) EXCEPT !.cid = next]
        OBVIOUS
      <4>2. e.kind = "chronicle"
        BY <4>1 DEF NewEvent
      <4>3. Begin(p, "init", "meta", e)
        BY <3>1, <4>1 DEF BeginInit
      <4>. QED  BY <1>0, <4>2, <4>3, BeginFacts
    <3>2. CASE BeginRecord(p)
      <4>1. NewEvent("note", next, {}).kind = "note"
        BY DEF NewEvent
      <4>. QED  BY <1>0, <3>2, <4>1, BeginFacts DEF BeginRecord
    <3>3. CASE BeginCreate(p)
      BY <1>0, <3>3, BeginFacts DEF BeginCreate
    <3>4. CASE BeginUpdate(p)
      <4>1. PICK e : Begin(p, "update", "current", e)
        BY <3>4 DEF BeginUpdate
      <4>. QED  BY <1>0, <4>1, BeginFacts
    <3>5. CASE BeginDecision(p)
      <4>1. PICK e : Begin(p, "decision", "append", e)
        BY <3>5 DEF BeginDecision
      <4>. QED  BY <1>0, <4>1, BeginFacts
    <3>6. CASE BeginRde(p)
      <4>1. PICK e : Begin(p, "rde", "report", e)
        BY <3>6 DEF BeginRde
      <4>. QED  BY <1>0, <4>1, BeginFacts
    <3>7. CASE BeginRebuild(p)
      <4>1. PICK o \in {"update_context", "rebuild"}, e \in {NoEvent, NewEvent("context", next, {})} : Begin(p, o, "read", e)
        BY <3>7 DEF BeginRebuild
      <4>. QED  BY <1>0, <4>1, BeginFacts
    <3>. QED  BY <1>2, <3>1, <3>2, <3>3, <3>4, <3>5, <3>6, <3>7 DEF BeginOp
  <2>. QED  BY <2>1 DEF SoloSteps
<1>3. CASE \/ WriteMeta(p) \/ TouchLog(p) \/ WriteCurrent(p) \/ WriteVersion(p) \/ WriteReport(p)
           \/ AppendEvent(p) \/ AppendRejected(p) \/ ReadLogRaises(p) \/ AppendTorn(p) \/ Crash(p)
  <2>1. PICK where \in {"touch", "append", "version", "read", "idle"} : Goto(p, where)
    BY <1>3 DEF WriteMeta, TouchLog, WriteCurrent, WriteVersion, WriteReport, AppendEvent, AfterAppend,
                AppendRejected, ReadLogRaises, AppendTorn, Crash
  <2>. QED  BY <1>0, <2>1, GotoFacts DEF SoloSteps
<1>4. CASE LoadContext(p)
  BY <1>0, <1>4, LoadFacts DEF SoloSteps
<1>5. CASE ReadLog(p)
  <2>1. PICK j : j = [proc[p] EXCEPT !.pc = "truncate", !.snap = log, !.todo = 1]
    OBVIOUS
  <2>2. proc'[p] = j /\ log' = log
    BY <1>0, <1>5, <2>1 DEF ReadLog, Proc
  <2>3. j.pc = "truncate" /\ j.snap = log /\ j.todo = 1 /\ j.op = proc[p].op /\ j.evt = proc[p].evt
    BY <1>0, <2>1 DEF Proc
  <2>. QED  BY <2>2, <2>3 DEF SoloSteps
<1>6. CASE TruncateIndex(p)
  <2>1. PICK t, g : t = proc[p].todo /\ g = IndexFiles[t]
    OBVIOUS
  <2>2. t \in 1 .. 5 /\ g \in IndexNames
    BY <1>0, <2>1, IndexNamesType DEF Proc
  <2>3. /\ proc'[p].pc = "write" /\ proc'[p].snap = log /\ proc'[p].todo = t /\ log' = log
        /\ proc'[p].op = proc[p].op /\ proc'[p].evt = proc[p].evt
    BY <1>0, <1>6, <2>1, GotoFacts DEF TruncateIndex, SoloSteps
  <2>4. idx' = [idx EXCEPT ![g] = [state |-> "empty", map |-> NoMap]]
    BY <1>6, <2>1 DEF TruncateIndex
  <2>5. ASSUME NEW i \in 1 .. t - 1 PROVE Current(IndexFiles[i])'
    <3>1. i \in 1 .. 5 /\ i # t
      BY <2>2
    <3>2. IndexFiles[i] # g /\ IndexFiles[i] \in IndexNames
      BY <2>1, <2>2, <3>1, IndexFilesDiffer, IndexNamesType
    <3>3. Current(IndexFiles[i])
      BY <1>6, <2>1 DEF TruncateIndex, SoloSteps
    <3>. QED  BY <1>0, <2>3, <2>4, <3>2, <3>3 DEF Current
  <2>6. idx'[g].state = "empty"
    BY <1>0, <2>2, <2>4
  <2>. QED  BY <2>1, <2>3, <2>5, <2>6 DEF SoloSteps
<1>7. CASE WriteIndex(p)
  BY <1>0, <1>7, WriteFacts DEF SoloSteps
<1>8. [Next]_vars => \/ BeginOp(p) \/ Step(p) \/ AppendTorn(p) \/ Crash(p) \/ UNCHANGED vars
  BY DEF Next
<1>. QED  BY <1>1, <1>2, <1>3, <1>4, <1>5, <1>6, <1>7, <1>8 DEF Step

(* What an append adds when the log ends in a whole line. *)
LEMMA WholeAppend ==
  ASSUME Strong, PastHolds, NEW p \in Procs, AppendEvent(p)
  PROVE  \E e \in Event :
           /\ e.id = proc[p].evt.id /\ e.kind = proc[p].evt.kind
           /\ e.obj = proc[p].evt.obj /\ e.refs = proc[p].evt.refs
           /\ e.id \notin Intact
           /\ log' = Append(log, e) /\ Len(log') = Len(log) + 1 /\ log'[Len(log) + 1] = e
           /\ \A i \in 1 .. Len(log) : log'[i] = log[i]
<1>1. PICK e : e = Stamped(p)
  OBVIOUS
<1>2. /\ e \in Event /\ e.id = proc[p].evt.id /\ e.kind = proc[p].evt.kind
      /\ e.obj = proc[p].evt.obj /\ e.refs = proc[p].evt.refs
  BY <1>1, StampedType DEF AppendEvent, Strong
<1>3. log' = Append(log, e)
  BY <1>1 DEF PastHolds, AppendEvent
<1>4. log \in Seq(Line) /\ e \in Line
  BY <1>2 DEF Strong, Typed, TypeOK, Line
<1>5. e.id \notin Intact
  <2>1. PICK r : r = proc[p]
    OBVIOUS
  <2>2. Good(r) /\ r.pc = "append" /\ r.op # "rebuild"
    BY <2>1 DEF Strong, AllGood, Typed, EventPrepared, AppendEvent
  <2>. QED  BY <1>2, <2>1, <2>2 DEF Good, Waiting
<1>. QED  BY <1>2, <1>3, <1>4, <1>5, AppendProperties

(* As long as no append is cut short, every line is readable.                *)
LEMMA NextUnspoilt == Strong /\ Past /\ Unspoilt /\ [Next]_vars => Unspoilt'
<1> SUFFICES ASSUME Strong, Past, Unspoilt, [Next]_vars, torn' = 0
             PROVE  /\ \A i \in 1 .. Len(log') : log'[i] \notin Broken
                    /\ \A i, j \in 1 .. Len(log') : log'[i].id = log'[j].id => i = j
  BY DEF Unspoilt
<1>1. CASE log' = log /\ open' = open /\ torn' = torn
  BY <1>1 DEF Unspoilt
<1>2. ASSUME NEW p \in Procs, AppendEvent(p), torn' = torn
      PROVE  /\ \A i \in 1 .. Len(log') : log'[i] \notin Broken
             /\ \A i, j \in 1 .. Len(log') : log'[i].id = log'[j].id => i = j
  <2>1. PICK e \in Event :
           /\ e.id \notin Intact
           /\ Len(log') = Len(log) + 1 /\ log'[Len(log) + 1] = e
           /\ \A i \in 1 .. Len(log) : log'[i] = log[i]
    BY <1>2, WholeAppend DEF Past
  <2>2. \A i \in 1 .. Len(log) : log[i] \notin Broken /\ log[i].id # e.id
    BY <1>2, <2>1 DEF Unspoilt, Intact, ReadAll
  <2>3. Len(log) \in Nat
    BY LenProperties DEF Strong, Typed, TypeOK
  <2>4. \A i \in 1 .. Len(log') : i \in 1 .. Len(log) \/ i = Len(log) + 1
    BY <2>1, <2>3
  <2>5. e \notin Broken
    BY BrokenLine
  <2>6. \A i, j \in 1 .. Len(log) : log[i].id = log[j].id => i = j
    BY <1>2 DEF Unspoilt
  <2>. QED  BY <2>1, <2>2, <2>4, <2>5, <2>6
<1>. QED  BY <1>1, <1>2, LogMoves DEF Strong

(* An index that shows every snapshot of the log names the latest one.       *)
LEMMA LatestIsLast ==
  ASSUME Typed, torn = 0, PastHolds, Unspoilt, NEW f \in Sorts, NEW n \in 0 .. Len(log),
         \A i \in n + 1 .. Len(log) : log[i].kind \in {"note", "rde"},
         NEW m, m = Project(f, SubSeq(log, 1, n)), NEW k \in DOMAIN m,
         NEW j \in Snapshots(k), \A i \in Snapshots(k) : i <= j
  PROVE  m[k].latest = log[j].id
<1>1. PICK lines : lines = SubSeq(log, 1, n)
  OBVIOUS
<1>2. log \in Seq(Line) /\ Len(log) \in Nat
  BY LenProperties DEF Typed, TypeOK
<1>3. lines \in Seq(Line) /\ Len(lines) = n /\ \A i \in 1 .. n : lines[i] = log[i] /\ i \in 1 .. Len(log)
  <2>1. 1 .. n \subseteq 1 .. Len(log)
    BY <1>2
  <2>2. lines = [i \in 1 .. n |-> log[i]]
    BY SMTT(60), <1>1, <1>2 DEF SubSeq
  <2>3. \A i \in 1 .. n : lines[i] = log[i] /\ lines[i] \in Line
    BY <1>2, <2>1, <2>2, ElementOfSeq
  <2>4. n \in Nat
    BY <1>2
  <2>5. lines \in Seq(Line) /\ Len(lines) = n
    BY <2>2, <2>3, <2>4
  <2>6. \A i \in 1 .. n : i \in 1 .. Len(log)
    BY <2>1
  <2>. QED  BY <2>3, <2>5, <2>6
<1> DEFINE is == Relevant(f, lines)
           Kept(h) == {lines[i].id : i \in {x \in is : lines[x].obj = h}}
           Last(h) == lines[LastOf(h, lines, is)].id
<1>4. m = [h \in {lines[i].obj : i \in is} |->
             IF f = "artifacts"
               THEN [latest |-> Last(h), kept |-> Kept(h), rde |-> Attached(Kept(h), lines)]
               ELSE [latest |-> Last(h), kept |-> {Last(h)}, rde |-> {}]]
  BY <1>1 DEF Project
<1>5. is = {i \in 1 .. n : lines[i] \notin Broken /\ lines[i].kind \in KindsOf[f]}
  BY <1>3 DEF Relevant, ReadAll
<1>6. is \in SUBSET (1 .. Len(lines))
  BY <1>3, <1>5
<1> HIDE DEF is
<1>7. PICK i0 \in is : lines[i0].obj = k
  BY <1>4
<1>8. PICK l : l = LastOf(k, lines, is)
  OBVIOUS
<1>9. l \in is /\ lines[l].obj = k /\ \A i \in is : lines[i].obj = k => i <= l
  BY <1>3, <1>6, <1>7, <1>8, LastOfLine
<1>10. m[k].latest = lines[l].id
  <2> HIDE DEF Kept
  <2>1. m[k].latest = Last(k)
    BY <1>4, <1>7
  <2>. QED  BY <1>8, <2>1
<1>11. KindsOf[f] \subseteq {"context", "created_artifact", "versioned"}
  BY DEF Sorts, KindsOf
<1>12. l \in 1 .. n /\ lines[l] = log[l] /\ log[l].kind \in KindsOf[f] /\ l \in Snapshots(k)
  BY <1>3, <1>5, <1>9, <1>11 DEF Snapshots
<1>13. l <= j /\ j \in 1 .. Len(log) /\ log[j].obj = k
       /\ log[j].kind \in {"context", "created_artifact", "versioned"}
  BY <1>12 DEF Snapshots
<1>14. j \in 1 .. n
  <2>1. j \notin n + 1 .. Len(log)
    BY <1>13
  <2>. QED  BY <1>2, <1>13, <2>1
<1>15. log[j].kind \in KindsOf[f]
  <2>1. PICK g \in Sorts : log[j].kind \in KindsOf[g]
    <3>1. /\ KindsOf["contexts"] = {"context"} /\ "contexts" \in Sorts
          /\ KindsOf["artifacts"] = {"created_artifact", "versioned"} /\ "artifacts" \in Sorts
      BY DEF Sorts, KindsOf
    <3>. QED  BY <1>13, <3>1
  <2>2. PICK a \in 1 .. j : log[a].id = k /\ log[a].kind \in KindsOf[g]
    BY <1>13, <2>1 DEF PastHolds, LinesHold
  <2>3. PICK b \in 1 .. l : log[b].id = k /\ log[b].kind \in KindsOf[f]
    <3>1. l \in 1 .. Len(log) /\ log[l].obj = k
      BY <1>3, <1>9, <1>12
    <3>. QED  BY <1>12, <3>1 DEF PastHolds, LinesHold
  <2>4. a \in 1 .. Len(log) /\ b \in 1 .. Len(log)
    BY <1>2, <1>12, <1>13, <2>2, <2>3
  <2>5. a = b
    BY <2>2, <2>3, <2>4 DEF Unspoilt
  <2>6. f = g
    BY <2>2, <2>3, <2>5 DEF Sorts, KindsOf
  <2>. QED  BY <2>1, <2>6
<1>16. j \in is /\ lines[j].obj = k
  BY <1>3, <1>5, <1>13, <1>14, <1>15 DEF Unspoilt
<1>17. j = l
  BY <1>9, <1>13, <1>16, <1>12, <1>14, <1>2
<1>. QED  BY <1>10, <1>12, <1>17

(* A counter that is 0 after a step was 0 before it, and nothing failed.     *)
LEMMA NothingFailed ==
  ASSUME Typed, NEW p, Procs = {p}, [Next]_vars
  PROVE  /\ torn' = 0 => torn = 0
         /\ torn' = 0 => BeginOp(p) \/ Step(p) \/ Crash(p) \/ UNCHANGED vars
         /\ crashes' = 0 => crashes = 0 /\ (BeginOp(p) \/ Step(p) \/ AppendTorn(p) \/ UNCHANGED vars)
<1> USE DEF files, counts
<1>0. torn \in Nat /\ crashes \in Nat
  BY BoundAssumption DEF Typed, TypeOK
<1>1. CASE UNCHANGED vars
  BY <1>1 DEF vars
<1>2. CASE BeginOp(p)
  BY <1>2 DEF BeginOp, BeginInit, BeginRecord, BeginCreate, BeginUpdate, BeginDecision, BeginRde,
              BeginRebuild, Begin
<1>3. CASE Step(p)
  BY <1>3 DEF Step, WriteMeta, TouchLog, WriteCurrent, WriteVersion, WriteReport, LoadContext,
              AppendEvent, AppendRejected, ReadLog, ReadLogRaises, TruncateIndex, WriteIndex
<1>4. CASE AppendTorn(p)
  <2>1. torn' = torn + 1 /\ crashes' = crashes
    BY <1>4 DEF AppendTorn
  <2>. QED  BY <1>0, <1>4, <2>1
<1>5. CASE Crash(p)
  <2>1. crashes' = crashes + 1 /\ torn' = torn
    BY <1>5 DEF Crash
  <2>. QED  BY <1>0, <1>5, <2>1
<1>. QED  BY <1>1, <1>2, <1>3, <1>4, <1>5 DEF Next

Showing == \E n \in 0 .. Len(log) : IndexesUpTo(n)

(* A step that touches neither the log nor the indexes.                      *)
LEMMA ShowingStays ==
  ASSUME log' = log, idx' = idx, Showing
  PROVE  Showing'
BY DEF Showing, IndexesUpTo

(* Indexes that show the whole log. *)
LEMMA WholeShown ==
  ASSUME NEW l \in Seq(Line), NEW f
  PROVE  /\ Len(l) \in 0 .. Len(l) /\ Len(l) + 1 .. Len(l) = {}
         /\ Project(f, SubSeq(l, 1, Len(l))) = Project(f, l)
<1>1. Len(l) \in Nat /\ SubSeq(l, 1, Len(l)) = l
  BY WholePrefix, LenProperties
<1>2. Len(l) \in 0 .. Len(l) /\ Len(l) + 1 .. Len(l) = {}
  BY <1>1
<1>3. Project(f, SubSeq(l, 1, Len(l))) = Project(f, l)
  BY <1>1
<1>. QED  BY <1>2, <1>3

(* An operation of the only process begins on indexes that show all but the  *)
(* notes and RDE records at the end of the log.                              *)
LEMMA SoloIndexesNext ==
  ASSUME Strong, Past, Unspoilt, NEW p, Procs = {p}, SoloSteps(p), SoloIndexes(p), [Next]_vars
  PROVE  SoloIndexes(p)'
<1> SUFFICES ASSUME torn' = 0, crashes' = 0
             PROVE  /\ exists' /\ (\/ proc'[p].pc \in {"idle", "current", "version", "report"}
                                   \/ proc'[p].pc = "append" /\ proc'[p].op # "init") => Showing'
                    /\ proc'[p].pc = "meta" \/ meta' # 0 \/ (proc'[p].pc = "idle" /\ ~exists')
  BY DEF SoloIndexes, Showing, IndexesUpTo
<1>0. /\ Typed /\ p \in Procs /\ torn = 0 /\ crashes = 0 /\ Strong' /\ PastHolds
      /\ BeginOp(p) \/ Step(p) \/ UNCHANGED vars
  <2>1. Typed /\ p \in Procs
    BY DEF Strong
  <2>2. torn = 0 /\ crashes = 0 /\ (BeginOp(p) \/ Step(p) \/ UNCHANGED vars)
    <3>1. ~ (AppendTorn(p) /\ torn' = 0)
      <4>1. torn \in Nat
        BY <2>1, BoundAssumption DEF Typed, TypeOK
      <4>2. AppendTorn(p) => torn' = torn + 1
        BY DEF AppendTorn
      <4>. QED  BY <4>1, <4>2
    <3>. QED  BY <2>1, <3>1, NothingFailed
  <2>. QED  BY <2>1, <2>2, NextStrong DEF Past
<1>01. /\ exists /\ (\/ proc[p].pc \in {"idle", "current", "version", "report"}
                     \/ proc[p].pc = "append" /\ proc[p].op # "init") => Showing
       /\ proc[p].pc = "meta" \/ meta # 0 \/ (proc[p].pc = "idle" /\ ~exists)
  BY <1>0 DEF SoloIndexes, Showing
<1>02. Good(proc[p])
  BY <1>0 DEF Strong, AllGood
<1> USE DEF files, counts
<1>1. CASE UNCHANGED vars
  BY <1>01, <1>1, ShowingStays DEF vars
<1>2. CASE BeginOp(p)
  <2>1. /\ proc[p].pc = "idle" /\ log' = log /\ idx' = idx /\ exists' = exists
        /\ \/ proc'[p].pc = "meta"
           \/ meta' = meta /\ meta # 0
    <3>1. CASE BeginInit(p)
      BY <1>0, <3>1, BeginFacts DEF BeginInit
    <3>2. CASE \/ BeginRecord(p) \/ BeginCreate(p) \/ BeginUpdate(p)
               \/ BeginDecision(p) \/ BeginRde(p) \/ BeginRebuild(p)
      BY <3>2 DEF BeginRecord, BeginCreate, BeginUpdate, BeginDecision, BeginRde, BeginRebuild, Begin, Initialized
    <3>. QED  BY <1>2, <3>1, <3>2 DEF BeginOp
  <2>. QED  BY <1>01, <2>1, ShowingStays
<1>3. CASE WriteMeta(p)
  <2>1. proc[p].evt \in Event
    BY <1>0, <1>3 DEF Typed, EventPrepared, WriteMeta
  <2>2. meta' # 0
    BY <1>3, <2>1 DEF WriteMeta, Event, Ids
  <2>3. proc'[p].pc = "touch"
    BY <1>0, <1>3, GotoFacts DEF WriteMeta
  <2>. QED  BY <2>2, <2>3
<1>4. CASE TouchLog(p)
  <2>1. proc'[p].pc = "append" /\ proc'[p].op = "init"
    BY <1>0, <1>02, <1>4, GotoFacts DEF TouchLog, Good
  <2>2. meta' = meta /\ meta # 0
    BY <1>01, <1>4 DEF TouchLog
  <2>. QED  BY <2>1, <2>2
<1>5. CASE WriteCurrent(p) \/ WriteVersion(p) \/ WriteReport(p)
  <2>1. log' = log /\ idx' = idx /\ exists' = exists /\ meta' = meta
        /\ proc[p].pc \in {"current", "version", "report"}
    BY <1>5 DEF WriteCurrent, WriteVersion, WriteReport
  <2>. QED  BY <1>01, <2>1, ShowingStays
<1>6. CASE LoadContext(p)
  <2>1. AllCurrent /\ log' = log /\ idx' = idx /\ meta' = meta /\ proc[p].pc = "load"
    BY <1>6 DEF SoloSteps, LoadContext
  <2>2. log \in Seq(Line)
    BY <1>0 DEF Typed, TypeOK
  <2>3. Showing
    <3>1. PICK n : n = Len(log)
      OBVIOUS
    <3>2. n \in 0 .. Len(log) /\ n + 1 .. Len(log) = {}
      BY <2>2, <3>1, WholeShown
    <3>3. \A f \in IndexNames : idx[f] = [state |-> "whole", map |-> Project(f, SubSeq(log, 1, n))]
      BY <2>1, <2>2, <3>1, WholeShown DEF AllCurrent, Current
    <3>. QED  BY <3>2, <3>3 DEF Showing, IndexesUpTo
  <2>. QED  BY <1>01, <2>1, <2>3, ShowingStays
<1>7. CASE AppendEvent(p)
  <2>1. proc[p].pc = "append" /\ meta' = meta /\ meta # 0 /\ exists' = TRUE /\ idx' = idx
        /\ (proc[p].op = "init" \/ exists)
    BY <1>01, <1>7 DEF AppendEvent, Initialized
  <2>2. PICK where : Goto(p, where) /\ where = AfterAppend(p)
    BY <1>7 DEF AppendEvent
  <2>3. CASE where = "read"
    BY <1>0, <2>1, <2>2, <2>3, GotoFacts
  <2>4. CASE where = "idle"
    <3>1. proc[p].op \in {"record", "rde"}
      BY <2>2, <2>4 DEF AfterAppend
    <3>2. PICK r : r = proc[p]
      OBVIOUS
    <3>3. r.evt.kind \in {"note", "rde"}
      BY <1>02, <3>1, <3>2 DEF Good, SoloSteps
    <3>4. PICK e \in Event :
             /\ e.kind = proc[p].evt.kind
             /\ log' = Append(log, e) /\ Len(log') = Len(log) + 1 /\ log'[Len(log) + 1] = e
             /\ \A i \in 1 .. Len(log) : log'[i] = log[i]
      BY <1>0, <1>7, WholeAppend
    <3>5. PICK n \in 0 .. Len(log) : IndexesUpTo(n)
      BY <1>01, <2>1, <3>1 DEF Showing
    <3>6. log \in Seq(Line) /\ Len(log) \in Nat /\ e \in Line
      BY <1>0, LenProperties DEF Typed, TypeOK, Line
    <3>7. SubSeq(log', 1, n) = SubSeq(log, 1, n) /\ n \in 0 .. Len(log')
      BY <3>4, <3>6, PrefixOfAppend
    <3>8. \A i \in n + 1 .. Len(log') : log'[i].kind \in {"note", "rde"}
      <4>1. \A i \in n + 1 .. Len(log') : i = Len(log) + 1 \/ (i \in n + 1 .. Len(log) /\ i \in 1 .. Len(log))
        BY <3>4, <3>6
      <4>. QED  BY <3>2, <3>3, <3>4, <3>5, <4>1 DEF IndexesUpTo
    <3>9. Showing'
      BY <2>1, <3>5, <3>7, <3>8 DEF Showing, IndexesUpTo
    <3>. QED  BY <2>1, <3>9
  <2>. QED  BY <2>2, <2>3, <2>4 DEF AfterAppend
<1>8. CASE AppendRejected(p)
  <2>1. log' = log /\ idx' = idx /\ exists' = exists /\ meta' = meta
        /\ proc[p].pc = "append" /\ proc[p].op # "init"
    BY <1>8 DEF AppendRejected
  <2>. QED  BY <1>01, <2>1, ShowingStays
<1>81. CASE ReadLogRaises(p)
  <2>1. Decodes(log)
    BY <1>0, BrokenLine DEF Unspoilt, Decodes
  <2>. QED  BY <1>81, <2>1 DEF ReadLogRaises
<1>9. CASE ReadLog(p) \/ TruncateIndex(p)
  <2>1. meta' = meta /\ proc[p].pc \in {"read", "truncate"}
    BY <1>9 DEF ReadLog, TruncateIndex
  <2>2. proc'[p].pc \in {"truncate", "write"}
    <3>1. CASE TruncateIndex(p)
      BY <1>0, <3>1, GotoFacts DEF TruncateIndex
    <3>2. CASE ReadLog(p)
      <4>1. PICK j : j = [proc[p] EXCEPT !.pc = "truncate", !.snap = log, !.todo = 1]
        OBVIOUS
      <4>2. proc[p] \in Proc /\ proc \in [Procs -> Proc]
        BY <1>0 DEF Typed, TypeOK
      <4>3. proc'[p] = j
        BY <1>0, <3>2, <4>1, <4>2 DEF ReadLog, Proc
      <4>. QED  BY <4>1, <4>2, <4>3 DEF Proc
    <3>. QED  BY <1>9, <3>1, <3>2
  <2>. QED  BY <1>01, <2>1, <2>2
<1>10. CASE WriteIndex(p)
  <2>1. meta' = meta /\ proc[p].pc = "write" /\ log' = log
    BY <1>10 DEF WriteIndex
  <2>2. CASE proc'[p].pc = "truncate"
    BY <1>01, <2>1, <2>2
  <2>3. CASE proc'[p].pc \in {"load", "idle"} /\ AllCurrent'
    <3>1. log \in Seq(Line)
      BY <1>0 DEF Typed, TypeOK
    <3>2. PICK n : n = Len(log)
      OBVIOUS
    <3>3. n \in 0 .. Len(log) /\ n + 1 .. Len(log) = {}
      BY <3>1, <3>2, WholeShown
    <3>4. \A f \in IndexNames : idx'[f] = [state |-> "whole", map |-> Project(f, SubSeq(log, 1, n))]
      BY <2>1, <2>3, <3>1, <3>2, WholeShown DEF AllCurrent, Current
    <3>5. Showing'
      BY <2>1, <3>3, <3>4 DEF Showing, IndexesUpTo
    <3>. QED  BY <1>01, <2>1, <3>5
  <2>. QED  BY <1>0, <1>10, <2>2, <2>3, WriteFacts
<1>. QED  BY <1>0, <1>1, <1>2, <1>3, <1>4, <1>5, <1>6, <1>7, <1>8, <1>81, <1>9, <1>10 DEF Step

(* A snapshot made of what a current index says builds on the latest one.    *)
LEMMA ShownIsLatest ==
  ASSUME Typed, torn = 0, PastHolds, Unspoilt, Showing, NEW f \in Sorts, NEW k \in DOMAIN Load(f),
         NEW e, e.obj = k, e.refs = {Latest(f, k)}
  PROVE  BuildsOn(e)
<1>1. PICK n \in 0 .. Len(log) : IndexesUpTo(n)
  BY DEF Showing
<1>2. f \in IndexNames
  BY IndexNamesType DEF Sorts
<1>3. PICK m : m = Project(f, SubSeq(log, 1, n))
  OBVIOUS
<1>4. idx[f].map = m
  <2>1. idx[f] = [state |-> "whole", map |-> m]
    BY <1>1, <1>2, <1>3 DEF IndexesUpTo
  <2>. QED  BY <2>1
<1>5. k \in DOMAIN m /\ e.refs = {m[k].latest}
  BY <1>4 DEF Load, Latest
<1>6. ASSUME NEW j \in Snapshots(k), \A i \in Snapshots(k) : i <= j
      PROVE  m[k].latest = log[j].id
  <2>1. \A i \in n + 1 .. Len(log) : log[i].kind \in {"note", "rde"}
    BY <1>1 DEF IndexesUpTo
  <2>. QED  BY <1>3, <1>5, <1>6, <2>1, LatestIsLast
<1>. QED  BY <1>5, <1>6 DEF BuildsOn

(* A new context has no earlier snapshot. *)
LEMMA FreshBuilds ==
  ASSUME Strong, torn = 0, PastHolds, Unspoilt, NEW e, e.obj = next
  PROVE  BuildsOn(e)
<1>1. ASSUME NEW j \in Snapshots(next) PROVE FALSE
  <2>1. j \in 1 .. Len(log) /\ log[j].obj = next /\ \E f \in Sorts : log[j].kind \in KindsOf[f]
    BY DEF Snapshots, Sorts, KindsOf
  <2>2. PICK a \in 1 .. j : log[a].id = next
    BY <2>1 DEF PastHolds, LinesHold
  <2>3. Len(log) \in Nat /\ next \in Nat
    BY LenProperties, BoundAssumption DEF Strong, Typed, TypeOK
  <2>4. a \in 1 .. Len(log)
    BY <2>1, <2>2, <2>3
  <2>5. next \in Intact
    BY <2>2, <2>4 DEF Intact, ReadAll, Unspoilt
  <2>6. next < next
    BY <2>5 DEF Strong, Used
  <2>. QED  BY <2>3, <2>6
<1>. QED  BY <1>1 DEF BuildsOn

(* Appending an event that builds on the latest snapshot. *)
LEMMA HistoryAppend ==
  ASSUME Strong, torn = 0, PastHolds, NEW p \in Procs, SoloHistory(p), AppendEvent(p)
  PROVE  \A i \in 1 .. Len(log') :
           log'[i].kind = "context" \/ (log'[i].kind = "versioned" /\ crashes' = 0) => BuildsOnLatest(i)'
<1>1. PICK e \in Event :
         /\ e.kind = proc[p].evt.kind /\ e.obj = proc[p].evt.obj /\ e.refs = proc[p].evt.refs
         /\ Len(log') = Len(log) + 1 /\ log'[Len(log) + 1] = e
         /\ \A i \in 1 .. Len(log) : log'[i] = log[i]
  BY WholeAppend
<1>2. Len(log) \in Nat
  BY LenProperties DEF Strong, Typed, TypeOK
<1>3. crashes' = crashes /\ proc[p].pc = "append"
  BY DEF AppendEvent
<1>4. ASSUME NEW i \in 1 .. Len(log), log[i].kind = "context" \/ (log[i].kind = "versioned" /\ crashes = 0)
      PROVE  BuildsOnLatest(i)'
  <2>1. BuildsOnLatest(i)
    BY <1>4 DEF SoloHistory
  <2>2. \A j \in 1 .. i - 1 : log'[j] = log[j]
    BY <1>1, <1>2
  <2>3. Latests(i)' = Latests(i) /\ \A j \in Latests(i) : log'[j] = log[j]
    BY <1>1, <2>2 DEF Latests
  <2>. QED  BY <1>1, <2>1, <2>3 DEF BuildsOnLatest
<1>5. PICK m : m = Len(log) + 1
  OBVIOUS
<1>6. ASSUME e.kind = "context" \/ (e.kind = "versioned" /\ crashes = 0)
      PROVE  BuildsOnLatest(m)'
  <2>1. BuildsOn(proc[p].evt)
    BY <1>1, <1>3, <1>6 DEF SoloHistory
  <2>2. 1 .. m - 1 = 1 .. Len(log)
    BY <1>2, <1>5
  <2>3. Latests(m)' = Snapshots(e.obj) /\ \A j \in Snapshots(e.obj) : log'[j] = log[j]
    BY <1>1, <1>5, <2>2 DEF Latests, Snapshots
  <2>. QED  BY <1>1, <1>5, <2>1, <2>3 DEF BuildsOnLatest, BuildsOn
<1>7. \A i \in 1 .. Len(log') : i \in 1 .. Len(log) \/ i = m
  BY <1>1, <1>2, <1>5
<1>. QED  BY <1>1, <1>3, <1>4, <1>5, <1>6, <1>7

(* A step of the only process records histories without gaps. *)
LEMMA SoloHistoryNext ==
  ASSUME Strong, Past, Unspoilt, NEW p, Procs = {p}, SoloSteps(p), SoloIndexes(p), SoloHistory(p), [Next]_vars
  PROVE  SoloHistory(p)'
<1> DEFINE Ready(e, pc, c) ==
      /\ pc = "append" /\ e.kind = "context" => BuildsOn(e)
      /\ c = 0 /\ pc \in {"current", "version", "append"} /\ e.kind = "versioned" => BuildsOn(e)
<1> SUFFICES ASSUME torn' = 0
             PROVE  /\ \A i \in 1 .. Len(log') :
                         log'[i].kind = "context" \/ (log'[i].kind = "versioned" /\ crashes' = 0)
                           => BuildsOnLatest(i)'
                    /\ log' = log => Ready(proc'[p].evt, proc'[p].pc, crashes')
                    /\ log' # log => proc'[p].pc \in {"idle", "read"}
  <2> DEFINE e == proc'[p].evt
  <2>1. log' = log => (BuildsOn(proc[p].evt)' <=> BuildsOn(e))
    BY DEF BuildsOn, Snapshots
  <2>. QED  BY <2>1 DEF SoloHistory
<1>0. /\ Typed /\ p \in Procs /\ torn = 0 /\ PastHolds
      /\ BeginOp(p) \/ Step(p) \/ Crash(p) \/ UNCHANGED vars
      /\ crashes' = 0 => crashes = 0
  BY NothingFailed DEF Strong, Past
<1>01. /\ \A i \in 1 .. Len(log) :
            log[i].kind = "context" \/ (log[i].kind = "versioned" /\ crashes = 0) => BuildsOnLatest(i)
       /\ Ready(proc[p].evt, proc[p].pc, crashes)
  BY <1>0 DEF SoloHistory
<1>02. Good(proc[p])
  BY <1>0 DEF Strong, AllGood
<1>03. log' = log => \A i : BuildsOnLatest(i)' <=> BuildsOnLatest(i)
  BY DEF BuildsOnLatest, Latests
<1>04. ASSUME log' = log, Ready(proc'[p].evt, proc'[p].pc, crashes')
       PROVE  /\ \A i \in 1 .. Len(log') :
                   log'[i].kind = "context" \/ (log'[i].kind = "versioned" /\ crashes' = 0)
                     => BuildsOnLatest(i)'
              /\ log' = log => Ready(proc'[p].evt, proc'[p].pc, crashes')
              /\ log' # log => proc'[p].pc \in {"idle", "read"}
  BY <1>0, <1>01, <1>03, <1>04
<1> HIDE DEF Ready
<1> USE DEF files, counts
<1>1. CASE UNCHANGED vars
  BY <1>01, <1>04, <1>1 DEF vars
<1>2. CASE BeginOp(p)
  <2>0. log' = log
    BY <1>2 DEF BeginOp, BeginInit, BeginRecord, BeginCreate, BeginUpdate, BeginDecision, BeginRde, BeginRebuild
  <2>1. Ready(proc'[p].evt, proc'[p].pc, crashes')
    <3>1. CASE BeginInit(p) \/ BeginRde(p) \/ BeginRebuild(p)
      <4>1. PICK o \in AllOps, where \in {"meta", "report", "read"} : \E e : Begin(p, o, where, e)
        BY <3>1 DEF BeginInit, BeginRde, BeginRebuild, AllOps
      <4>. QED  BY <1>0, <4>1, BeginFacts DEF Ready
    <3>2. CASE BeginRecord(p)
      <4>1. PICK e : /\ \E o \in AllOps : Begin(p, o, "append", e)
                     /\ \E kind \in {"note", "context", "rule"} : e = NewEvent(kind, next, {})
        BY <3>2 DEF BeginRecord, AllOps
      <4>2. e.obj = next /\ e.kind # "versioned"
        BY <4>1 DEF NewEvent
      <4>3. BuildsOn(e)
        BY <1>0, <4>2, FreshBuilds
      <4>. QED  BY <1>0, <4>1, <4>2, <4>3, BeginFacts DEF Ready
    <3>3. CASE BeginCreate(p)
      <4>1. NewEvent("created_artifact", next, {}).kind = "created_artifact"
        BY DEF NewEvent
      <4>. QED  BY <1>0, <3>3, <4>1, BeginFacts DEF Ready, BeginCreate
    <3>4. CASE BeginDecision(p)
      <4>1. PICK refs : Begin(p, "decision", "append", NewEvent("decision", next, refs))
        BY <3>4 DEF BeginDecision
      <4>2. NewEvent("decision", next, refs).kind = "decision"
        BY DEF NewEvent
      <4>. QED  BY <1>0, <4>1, <4>2, BeginFacts DEF Ready
    <3>5. CASE BeginUpdate(p)
      <4>1. PICK a \in DOMAIN Load("artifacts") :
              Begin(p, "update", "current", NewEvent("versioned", a, {Latest("artifacts", a)}))
        BY <3>5 DEF BeginUpdate
      <4>2. PICK e : e = NewEvent("versioned", a, {Latest("artifacts", a)})
        OBVIOUS
      <4>3. e.obj = a /\ e.refs = {Latest("artifacts", a)} /\ e.kind = "versioned"
        BY <4>2 DEF NewEvent
      <4>4. crashes = 0 => Showing
        BY <1>0, <3>5, <4>1, BeginFacts DEF SoloIndexes, Showing, BeginUpdate, Initialized
      <4>5. crashes = 0 => BuildsOn(e)
        BY <1>0, <4>3, <4>4, ShownIsLatest DEF Sorts
      <4>6. proc'[p].evt = e /\ proc'[p].pc = "current" /\ crashes' = crashes
        BY <1>0, <4>1, <4>2, BeginFacts
      <4>. QED  BY <4>3, <4>5, <4>6 DEF Ready
    <3>. QED  BY <1>2, <3>1, <3>2, <3>3, <3>4, <3>5 DEF BeginOp
  <2>. QED  BY <1>04, <2>0, <2>1
<1>3. CASE WriteMeta(p) \/ AppendRejected(p) \/ ReadLogRaises(p) \/ Crash(p) \/ TruncateIndex(p)
  <2>1. PICK where \in {"touch", "idle", "write"} : Goto(p, where)
    BY <1>3 DEF WriteMeta, AppendRejected, ReadLogRaises, Crash, TruncateIndex
  <2>2. log' = log
    BY <1>3 DEF WriteMeta, AppendRejected, ReadLogRaises, Crash, TruncateIndex
  <2>3. Ready(proc'[p].evt, proc'[p].pc, crashes')
    BY <1>0, <2>1, GotoFacts DEF Ready
  <2>. QED  BY <1>04, <2>2, <2>3
<1>4. CASE TouchLog(p) \/ WriteCurrent(p) \/ WriteVersion(p) \/ WriteReport(p)
  <2>1. PICK where \in {"append", "version"} : Goto(p, where)
    BY <1>4 DEF TouchLog, WriteCurrent, WriteVersion, WriteReport
  <2>2. log' = log /\ crashes' = crashes
    BY <1>4 DEF TouchLog, WriteCurrent, WriteVersion, WriteReport
  <2>3. PICK r : r = proc[p]
    OBVIOUS
  <2>4. /\ r.evt.kind # "context"
        /\ r.evt.kind = "versioned" => r.pc \in {"current", "version"}
    <3>1. CASE TouchLog(p)
      BY <1>02, <2>3, <3>1 DEF TouchLog, Good, SoloSteps
    <3>2. CASE WriteReport(p)
      BY <1>02, <2>3, <3>2 DEF WriteReport, Good, IsVersion
    <3>3. CASE WriteCurrent(p) \/ WriteVersion(p)
      BY <1>02, <2>3, <3>3 DEF WriteCurrent, WriteVersion, Good, IsVersion
    <3>. QED  BY <1>4, <3>1, <3>2, <3>3
  <2>5. proc'[p].evt = r.evt /\ proc'[p].pc = where
    BY <1>0, <2>1, <2>3, GotoFacts
  <2>6. Ready(proc'[p].evt, proc'[p].pc, crashes')
    BY <1>01, <2>2, <2>3, <2>4, <2>5 DEF Ready
  <2>. QED  BY <1>04, <2>2, <2>6
<1>5. CASE LoadContext(p)
  <2>1. log' = log /\ idx' = idx /\ AllCurrent /\ proc[p].pc = "load"
    BY <1>5 DEF LoadContext, SoloSteps
  <2>2. log \in Seq(Line)
    BY <1>0 DEF Typed, TypeOK
  <2>3. Showing
    <3>1. PICK n : n = Len(log)
      OBVIOUS
    <3>2. n \in 0 .. Len(log) /\ n + 1 .. Len(log) = {}
      BY <2>2, <3>1, WholeShown
    <3>3. \A f \in IndexNames : idx[f] = [state |-> "whole", map |-> Project(f, SubSeq(log, 1, n))]
      BY <2>1, <2>2, <3>1, WholeShown DEF AllCurrent, Current
    <3>. QED  BY <3>2, <3>3 DEF Showing, IndexesUpTo
  <2>4. CASE proc'[p].pc = "idle"
    BY <1>04, <2>1, <2>4 DEF Ready
  <2>5. CASE /\ proc'[p].pc = "append" /\ proc'[p].evt.kind = proc[p].evt.kind
             /\ \E c \in DOMAIN Load("contexts") :
                  proc'[p].evt.obj = c /\ proc'[p].evt.refs = {Latest("contexts", c)}
    <3>1. PICK e : e = proc'[p].evt
      OBVIOUS
    <3>2. BuildsOn(e)
      BY <1>0, <2>3, <2>5, <3>1, ShownIsLatest DEF Sorts
    <3>. QED  BY <1>04, <2>1, <3>1, <3>2 DEF Ready
  <2>. QED  BY <1>0, <1>5, <2>4, <2>5, LoadFacts
<1>6. CASE AppendEvent(p)
  <2>1. PICK where \in {"idle", "read"} : Goto(p, where)
    BY <1>6 DEF AppendEvent, AfterAppend
  <2>2. proc'[p].pc \in {"idle", "read"}
    BY <1>0, <2>1, GotoFacts
  <2>3. \A i \in 1 .. Len(log') :
          log'[i].kind = "context" \/ (log'[i].kind = "versioned" /\ crashes' = 0) => BuildsOnLatest(i)'
    BY <1>0, <1>6, HistoryAppend
  <2>. QED  BY <2>2, <2>3 DEF Ready
<1>7. CASE ReadLog(p)
  <2>1. PICK j : j = [proc[p] EXCEPT !.pc = "truncate", !.snap = log, !.todo = 1]
    OBVIOUS
  <2>2. proc[p] \in Proc /\ proc \in [Procs -> Proc]
    BY <1>0 DEF Typed, TypeOK
  <2>3. proc'[p] = j /\ log' = log
    BY <1>0, <1>7, <2>1, <2>2 DEF ReadLog, Proc
  <2>4. j.pc = "truncate"
    BY <2>1, <2>2 DEF Proc
  <2>. QED  BY <1>04, <2>3, <2>4 DEF Ready
<1>8. CASE WriteIndex(p)
  <2>1. log' = log /\ proc'[p].pc \in {"truncate", "load", "idle"}
    BY <1>0, <1>8, WriteFacts
  <2>. QED  BY <1>04, <2>1 DEF Ready
<1>. QED  BY <1>0, <1>1, <1>2, <1>3, <1>4, <1>5, <1>6, <1>7, <1>8 DEF Step

Solo == \A p : Procs = {p} => SoloSteps(p) /\ SoloIndexes(p) /\ SoloHistory(p)

(* A new store is as one process expects it.                                 *)
LEMMA InitSolo == Init => Unspoilt /\ Solo
<1> SUFFICES ASSUME Init PROVE Unspoilt /\ Solo
  OBVIOUS
<1>1. log = <<>> \/ log = <<Created>>
  BY DEF Init
<1>2. Created \notin Broken /\ Created.kind = "chronicle"
  BY CreatedEvent, BrokenLine DEF Created
<1>3. Unspoilt
  BY <1>1, <1>2 DEF Unspoilt
<1>4. ASSUME NEW p, Procs = {p} PROVE SoloSteps(p) /\ SoloIndexes(p) /\ SoloHistory(p)
  <2>1. proc[p] = Idle /\ Idle.pc = "idle" /\ Idle.op = "rebuild"
    BY <1>4, IdleType DEF Init
  <2>2. SoloSteps(p)
    BY <2>1 DEF SoloSteps
  <2>3. SoloHistory(p)
    BY <1>1, <1>2, <2>1 DEF SoloHistory
  <2>4. SoloIndexes(p)
    <3>1. CASE NewStore
      BY <2>1, <3>1 DEF Init, SoloIndexes
    <3>2. CASE ~NewStore
      <4>1. log = <<Created>> /\ meta = 1 /\ \A f \in IndexNames : idx[f] = [state |-> "whole", map |-> NoMap]
        BY <3>2 DEF Init
      <4>2. Created \in Line
        BY BoundAssumption DEF Created, Event, Kinds, Ids, Line
      <4>3. log \in Seq(Line) /\ Len(log) = 1
        BY <4>1, <4>2
      <4>4. \A f \in IndexNames : Project(f, log) = NoMap
        <5>1. ASSUME NEW f \in IndexNames PROVE Relevant(f, log) = {}
          <6>1. "chronicle" \notin KindsOf[f]
            BY IndexNamesType DEF KindsOf
          <6>2. \A i \in 1 .. Len(log) : log[i].kind = "chronicle"
            BY <1>2, <4>1
          <6>. QED  BY <6>1, <6>2 DEF Relevant, ReadAll
        <5>2. ASSUME NEW f \in IndexNames PROVE DOMAIN Project(f, log) = {}
          BY <5>1 DEF Project
        <5>. QED  BY <5>1, <5>2 DEF Project, NoMap
      <4>5. \A f \in IndexNames : idx[f] = [state |-> "whole", map |-> Project(f, SubSeq(log, 1, 1))]
        BY <4>1, <4>3, <4>4, WholePrefix
      <4>6. IndexesUpTo(1) /\ 1 \in 0 .. Len(log)
        BY <4>3, <4>5 DEF IndexesUpTo
      <4>. QED  BY <4>1, <4>6 DEF SoloIndexes
    <3>. QED  BY <3>1, <3>2
  <2>. QED  BY <2>2, <2>3, <2>4
<1>. QED  BY <1>3, <1>4 DEF Solo

(* Every step of the only process keeps what it relies on.                   *)
LEMMA NextSolo == Strong /\ Past /\ Unspoilt /\ Solo /\ [Next]_vars => Solo'
<1> SUFFICES ASSUME Strong, Past, Unspoilt, Solo, [Next]_vars, NEW p, Procs = {p}
             PROVE  (SoloSteps(p) /\ SoloIndexes(p) /\ SoloHistory(p))'
  BY DEF Solo
<1>1. SoloSteps(p) /\ SoloIndexes(p) /\ SoloHistory(p)
  BY DEF Solo
<1>. QED  BY <1>1, SoloStepsNext, SoloIndexesNext, SoloHistoryNext

Careful == Strong /\ Past /\ Unspoilt /\ Solo

(* The invariants of the store, taken together.                              *)
LEMMA CarefulAlways == Spec => []Careful
<1>1. Init => Careful
  BY InitStrong, InitPast, InitSolo DEF Careful
<1>2. Careful /\ [Next]_vars => Careful'
  BY NextStrong, NextPast, NextUnspoilt, NextSolo DEF Careful
<1>. QED  BY <1>1, <1>2, PTL DEF Spec

(* When commands run one at a time, every new snapshot is based on the       *)
(* latest one, and between commands the indexes show the log up to notes and *)
(* RDE records; an update of a context may even follow a crash.              *)
THEOREM SequentialCommands ==
  ASSUME NEW p, Procs = {p}
  PROVE  Spec => []SequentialStore
<1>1. Careful => SequentialStore
  <2> SUFFICES ASSUME Careful PROVE SequentialStore
    OBVIOUS
  <2>1. SoloIndexes(p) /\ SoloHistory(p)
    BY DEF Careful, Solo
  <2>2. SequentialHistory
    BY <2>1 DEF SequentialHistory, SoloHistory
  <2>3. SequentialIndexesCurrent
    BY <2>1 DEF SequentialIndexesCurrent, SoloIndexes, IndexesUpTo
  <2>. QED  BY <2>2, <2>3 DEF SequentialStore
<1>. QED  BY <1>1, CarefulAlways, PTL

(* A rebuild that runs alone to its end leaves every index file a projection *)
(* of the whole log, whatever crashes and torn lines came before it; only a  *)
(* line that is not UTF-8 keeps it from its end.                             *)
THEOREM RebuildsRestore ==
  ASSUME NEW one, Procs = {one}
  PROVE  Spec => RebuildRestores
<1>1. Careful /\ [Next]_vars =>
        [\A p \in Procs : crashes' = crashes =>
           /\ proc[p].pc = "write" /\ proc'[p].pc \in {"idle", "load"}
                => \A f \in IndexNames : Current(f)'
           /\ proc[p].pc = "read" /\ proc'[p].pc = "idle" => ~Decodes(log)]_vars
  <2> SUFFICES ASSUME Careful, [Next]_vars, crashes' = crashes
               PROVE  /\ proc[one].pc = "write" /\ proc'[one].pc \in {"idle", "load"}
                           => \A f \in IndexNames : Current(f)'
                      /\ proc[one].pc = "read" /\ proc'[one].pc = "idle" => ~Decodes(log)
    OBVIOUS
  <2>0. Typed /\ one \in Procs /\ SoloSteps(one)
    BY DEF Careful, Solo, Strong
  <2>1. UNCHANGED vars => proc' = proc
    BY DEF vars
  <2>2. ~ Crash(one)
    <3>1. crashes \in Nat
      BY <2>0, BoundAssumption DEF Typed, TypeOK
    <3>2. Crash(one) => crashes' = crashes + 1
      BY DEF Crash
    <3>. QED  BY <3>1, <3>2
  <2>3. BeginOp(one) \/ AppendTorn(one) => proc[one].pc \in {"idle", "append"}
    BY DEF BeginOp, BeginInit, BeginRecord, BeginCreate, BeginUpdate, BeginDecision, BeginRde,
           BeginRebuild, Begin, AppendTorn
  <2>4. \/ proc' = proc
        \/ proc[one].pc \in {"idle", "append"}
        \/ Step(one)
    BY <2>1, <2>2, <2>3 DEF Next
  <2>5. ASSUME proc[one].pc = "write", proc'[one].pc \in {"idle", "load"}
        PROVE  \A f \in IndexNames : Current(f)'
    <3>1. WriteIndex(one)
      BY <2>4, <2>5 DEF Step, WriteMeta, TouchLog, WriteCurrent, WriteVersion, WriteReport,
              LoadContext, AppendEvent, AppendRejected, ReadLog, ReadLogRaises, TruncateIndex
    <3>. QED  BY <2>0, <2>5, <3>1, WriteFacts DEF AllCurrent
  <2>6. ASSUME proc[one].pc = "read", proc'[one].pc = "idle" PROVE ~Decodes(log)
    <3>1. ReadLog(one) \/ ReadLogRaises(one)
      BY <2>4, <2>6 DEF Step, WriteMeta, TouchLog, WriteCurrent, WriteVersion, WriteReport,
              LoadContext, AppendEvent, AppendRejected, TruncateIndex, WriteIndex
    <3>2. ~ ReadLog(one)
      BY <2>0, <2>6 DEF ReadLog, Typed, TypeOK, Proc
    <3>. QED  BY <3>1, <3>2 DEF ReadLogRaises
  <2>. QED  BY <2>5, <2>6
<1>2. Spec => [][Next]_vars
  BY DEF Spec
<1>. QED  BY <1>1, <1>2, CarefulAlways, PTL DEF RebuildRestores, Current

(***************************************************************************)
(* Doctor                                                                   *)
(***************************************************************************)

(* what was acknowledged and cannot be read has left an unreadable line *)
LossSeen == (\A i \in 1 .. Len(log) : log[i] \notin Broken) => acked \subseteq Intact

(* An acknowledged event is only lost to a line that no longer parses.       *)
LEMMA NextSeen == Strong /\ LossSeen /\ [Next]_vars => LossSeen'
<1> SUFFICES ASSUME Strong, LossSeen, [Next]_vars, \A i \in 1 .. Len(log') : log'[i] \notin Broken
             PROVE  acked' \subseteq Intact'
  BY DEF LossSeen
<1> USE DEF files, counts
<1>1. CASE log' = log /\ acked' = acked
  BY <1>1 DEF LossSeen, Intact, ReadAll
<1>2. ASSUME NEW p \in Procs, AppendEvent(p) \/ AppendTorn(p) PROVE acked' \subseteq Intact'
  <2>1. Typed /\ log \in Seq(Line) /\ Len(log) \in Nat /\ (open => log # <<>>)
    BY LenProperties DEF Strong, Typed, TypeOK, OpenLine
  <2>2. ASSUME open, NEW l \in Broken, log' = Glued(l) PROVE FALSE
    <3>1. Len(log) \in 1 .. Len(log')
      BY <2>1, <2>2, GlueType, EmptySeq, LenProperties
    <3>2. log'[Len(log)] = l
      BY <2>1, <2>2, GlueType, EmptySeq, LenProperties
    <3>. QED  BY <3>1, <3>2
  <2>3. PICK l \in Broken \cup {Stamped(p)} : log' = Append(log, l) /\ (AppendEvent(p) => l = Stamped(p))
    BY <1>2, <2>1, <2>2, AppendForms
  <2>4. Stamped(p).id = proc[p].evt.id /\ Stamped(p) \in Event
    BY <1>2, <2>1, StampedType DEF AppendEvent, AppendTorn
  <2>5. l \in Line
    BY <2>4, BrokenLine DEF Line
  <2>6. /\ Len(log') = Len(log) + 1 /\ log'[Len(log) + 1] = l
        /\ \A i \in 1 .. Len(log) : log'[i] = log[i] /\ i \in 1 .. Len(log')
    BY <2>1, <2>3, <2>5, AppendProperties
  <2>7. Len(log) + 1 \in 1 .. Len(log')
    BY <2>1, <2>6
  <2>8. acked \subseteq Intact /\ Intact \subseteq Intact' /\ l.id \in Intact'
    BY <2>6, <2>7 DEF LossSeen, Intact, ReadAll
  <2>9. acked' = acked \/ (AppendEvent(p) /\ acked' = acked \cup {proc[p].evt.id})
    BY <1>2 DEF AppendEvent, AppendTorn
  <2>. QED  BY <2>3, <2>4, <2>8, <2>9
<1>3. (log' = log /\ acked' = acked) \/ \E p \in Procs : AppendEvent(p) \/ AppendTorn(p)
  <2>1. CASE UNCHANGED vars
    BY <2>1 DEF vars
  <2>2. ASSUME NEW p \in Procs, BeginOp(p) \/ Step(p) \/ AppendTorn(p) \/ Crash(p)
        PROVE  (log' = log /\ acked' = acked) \/ AppendEvent(p) \/ AppendTorn(p)
    <3>1. CASE BeginOp(p)
      BY <3>1 DEF BeginOp, BeginInit, BeginRecord, BeginCreate, BeginUpdate, BeginDecision, BeginRde,
                  BeginRebuild, Begin
    <3>2. CASE Step(p) \/ Crash(p)
      BY <3>2 DEF Step, WriteMeta, TouchLog, WriteCurrent, WriteVersion, WriteReport, LoadContext,
                  AppendRejected, ReadLog, ReadLogRaises, TruncateIndex, WriteIndex, Crash
    <3>. QED  BY <2>2, <3>1, <3>2
  <2>. QED  BY <2>1, <2>2 DEF Next
<1>. QED  BY <1>1, <1>2, <1>3

(* A new store has lost nothing.                                             *)
LEMMA InitSeen == Init => LossSeen
<1> SUFFICES ASSUME Init PROVE acked \subseteq Intact
  BY DEF LossSeen
<1>1. (log = <<>> /\ acked = {}) \/ (log = <<Created>> /\ acked = {1})
  BY DEF Init
<1>2. Created \notin Broken /\ Created.id = 1
  BY CreatedEvent, BrokenLine
<1>. QED  BY <1>1, <1>2 DEF Intact, ReadAll

(* Each check's result counts. *)
LEMMA FoundChecks ==
  Found = {MetadataCheck, RequiredFilesCheck, LinesCheck, IndexesCheck, ArtifactFilesCheck,
           ExportsCheck({"artifacts", "contexts", "decisions", "rules"}), ExportsCheck(IndexNames)}
<1>1. DOMAIN Checks = {"metadata", "required", "lines", "indexes", "artifacts", "graph", "html"}
  BY DEF Checks
<1>2. /\ Checks["metadata"] = MetadataCheck /\ Checks["required"] = RequiredFilesCheck
      /\ Checks["lines"] = LinesCheck /\ Checks["indexes"] = IndexesCheck
      /\ Checks["artifacts"] = ArtifactFilesCheck
      /\ Checks["graph"] = ExportsCheck({"artifacts", "contexts", "decisions", "rules"})
      /\ Checks["html"] = ExportsCheck(IndexNames)
  BY DEF Checks
<1>. QED  BY <1>1, <1>2 DEF Found

(* No error means that nothing acknowledged was lost, no warning that every  *)
(* index loads and every version has its file, and one command at a time     *)
(* without failures never makes doctor complain.                             *)
THEOREM DoctorRight ==
  ASSUME IsFiniteSet(Procs)
  PROVE  Spec => []DoctorIsRight
<1> DEFINE Inv == Careful /\ FilesPrecedeEvents /\ LossSeen
<1>1. Init => Inv
  BY InitStrong, InitPast, InitSolo, InitSeen DEF Careful
<1>2. Inv /\ [Next]_vars => Inv'
  BY NextStrong, NextPast, NextUnspoilt, NextSolo, NextFiles, NextSeen DEF Careful
<1>3. Inv => DoctorIsRight
  <2> SUFFICES ASSUME Inv, Quiescent
               PROVE  /\ Status \in {"ok", "warning"} => Initialized /\ acked \subseteq Readable
                      /\ Status = "ok" =>
                           /\ \A f \in IndexNames : Loadable(f)
                           /\ \A i \in ReadAll(log) : IsVersion(log[i]) => vfile[log[i].obj][log[i].id] = "whole"
                      /\ exists /\ torn = 0 /\ crashes = 0 /\ Cardinality(Procs) = 1 => Status = "ok"
    BY DEF DoctorIsRight
  <2>1. ASSUME Status \in {"ok", "warning"} PROVE Initialized /\ acked \subseteq Readable
    <3>1. "error" \notin Found /\ Decodes(log)
      BY <2>1 DEF Status
    <3>2. MetadataCheck # "error" /\ RequiredFilesCheck # "error" /\ LinesCheck # "error"
      BY <3>1, FoundChecks
    <3>. QED  BY <3>1, <3>2 DEF MetadataCheck, RequiredFilesCheck, LinesCheck, Initialized, LossSeen,
                                Readable
  <2>2. ASSUME Status = "ok"
        PROVE  /\ \A f \in IndexNames : Loadable(f)
               /\ \A i \in ReadAll(log) : IsVersion(log[i]) => vfile[log[i].obj][log[i].id] = "whole"
    <3>1. ExportsCheck(IndexNames) # "warning"
      <4>1. "warning" \notin Found
        BY <2>2 DEF Status
      <4>. QED  BY <4>1, FoundChecks
    <3>. QED  BY <3>1 DEF ExportsCheck, FilesPrecedeEvents, ReadAll
  <2>3. ASSUME exists, torn = 0, crashes = 0, Cardinality(Procs) = 1 PROVE Status = "ok"
    <3>1. PICK p : Procs = {p}
      <4>1. IsFiniteSet(Procs) => (Cardinality(Procs) = 1 <=> \E x : Procs = {x})
        BY FS_Singleton
      <4>. QED  BY <2>3, <4>1
    <3>2. SoloIndexes(p) /\ proc[p].pc = "idle"
      BY <3>1 DEF Careful, Solo, Quiescent
    <3>3. meta # 0 /\ exists
      BY <2>3, <3>2 DEF SoloIndexes
    <3>4. \A f \in IndexNames : idx[f].state = "whole"
      <4>1. PICK n \in 0 .. Len(log) : IndexesUpTo(n)
        BY <2>3, <3>2 DEF SoloIndexes
      <4>2. \A f \in IndexNames : idx[f] = [state |-> "whole", map |-> Project(f, SubSeq(log, 1, n))]
        BY <4>1 DEF IndexesUpTo
      <4>3. ASSUME NEW m PROVE [state |-> "whole", map |-> m].state = "whole"
        OBVIOUS
      <4>. QED  BY <4>2, <4>3
    <3>5. MetadataCheck = "ok" /\ RequiredFilesCheck = "ok"
      BY <3>3 DEF MetadataCheck, RequiredFilesCheck
    <3>6. LinesCheck = "ok"
      BY <2>3 DEF LinesCheck, Careful, Unspoilt
    <3>7. IndexesCheck = "ok"
      BY <3>4 DEF IndexesCheck
    <3>8. ArtifactFilesCheck = "ok"
      <4>1. ASSUME NEW i \in ReadAll(log), log[i].kind \in {"created_artifact", "versioned"}
            PROVE  CurrentExists(log[i].obj) /\ VersionExists(log[i].obj, log[i].id)
        <5>1. vfile[log[i].obj][log[i].id] = "whole" /\ i \in 1 .. Len(log) /\ log[i] \notin Broken
          BY <4>1 DEF FilesPrecedeEvents, ReadAll, IsVersion
        <5>2. log[i].id \in Ids
          <6>1. log[i] \in Line
            BY <5>1, ElementOfSeq DEF Careful, Strong, Typed, TypeOK
          <6>. QED  BY <5>1, <6>1 DEF Line, Event
        <5>. QED  BY <5>1, <5>2 DEF CurrentExists, VersionExists
      <4>. QED  BY <4>1 DEF ArtifactFilesCheck
    <3>9. /\ ExportsCheck({"artifacts", "contexts", "decisions", "rules"}) = "ok"
          /\ ExportsCheck(IndexNames) = "ok"
      <4>1. \A f \in IndexNames : Loadable(f)
        BY <3>4 DEF Loadable
      <4>. QED  BY <3>3, <4>1, IndexNamesType DEF ExportsCheck, Initialized
    <3>10. Decodes(log)
      BY <2>3, BrokenLine DEF Careful, Unspoilt, Decodes
    <3>. QED  BY <3>5, <3>6, <3>7, <3>8, <3>9, <3>10, FoundChecks DEF Status
  <2>. QED  BY <2>1, <2>2, <2>3
<1>. QED  BY <1>1, <1>2, <1>3, PTL DEF Spec

=============================================================================
