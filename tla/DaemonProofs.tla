---------------------------- MODULE DaemonProofs -----------------------------
(***************************************************************************)
(* The two halves of the loopback daemon.  ApiWrites: what holds of its    *)
(* writes for any number of threads, requests, keys, failures and stops.   *)
(* DaemonToken: what holds of its credential file for every set of         *)
(* processes and inode numbers and every number of runs.                   *)
(***************************************************************************)
EXTENDS ApiWrites, DaemonToken, FiniteSetTheorems, SequenceTheorems, WellFoundedInduction, TLAPS

----------------------------------------------------------------------------
(* ApiWrites                                                                *)

Line == [ep : Endpoints, key : Keys, id : Nat, fits : BOOLEAN]

(* Every running request came through DoPost, the lines are numbered *)
Typed ==
  /\ log \in Seq(Line) /\ audit \in Seq(Nat)
  /\ \A i \in 1 .. Len(log) : log[i].id = i
  /\ thread \in [Threads -> [pc : {"free", "check", "append", "rebuild", "lookup", "audit"},
                              req : Request \cup {AnyRequest}, own : Nat, found : Nat]]
  /\ \A t \in Threads : thread[t].pc # "free" => thread[t].req \in Commit

IsFirst(id, ep, key) ==
  /\ id \in 1 .. Len(log)
  /\ log[id].ep = ep /\ log[id].key = key
  /\ \A i \in 1 .. id - 1 : log[i].ep # ep \/ log[i].key # key

Wrote(t) == thread[t].pc \in {"rebuild", "lookup", "audit"}

(* Between its append and its reply a thread has an event of its own *)
Owns(t) ==
  LET me == thread[t] IN
  /\ me.own \in 1 .. Len(log)
  /\ log[me.own].ep = me.req.ep /\ log[me.own].key = me.req.key
  /\ me.pc = "rebuild" => me.req.ep # "diffs"
  /\ me.pc = "audit" /\ me.req.ep = "diffs" => IsFirst(me.found, me.req.ep, me.req.key)
  /\ me.req.ep # "diffs" => me.pc # "lookup" /\ me.found = me.own

Owned ==
  \A t \in Threads : Wrote(t) =>
    /\ Owns(t)
    /\ \A u \in Threads : Wrote(u) /\ thread[u].own = thread[t].own => u = t

(* Nobody audits an event or an assertion before its own thread does *)
Unaudited ==
  \A t \in Threads : Wrote(t) /\ thread[t].req.ep # "diffs" =>
    \A i \in 1 .. Len(audit) : audit[i] # thread[t].own

(* The threads that have found no event of a key and are about to append one *)
Appending(r) ==
  {t \in Threads : thread[t].pc = "append" /\ thread[t].req.ep = r.ep /\ thread[t].req.key = r.key}

(* What a key has and may still get *)
Room == \A r \in Commit :
  Cardinality(Matches(log, r)) + Cardinality(Appending(r)) <= Cardinality(Threads)

Inv == Typed /\ Owned /\ RepliesTrue /\ AuditBacked /\ Unaudited /\ Room

----------------------------------------------------------------------------
(* The lookup *)

LEMMA Least ==
  ASSUME NEW n \in Nat, NEW T \in SUBSET (1 .. n), T # {}
  PROVE  \E i \in T : \A j \in T : i <= j
<1>1. T \subseteq Nat  OBVIOUS
<1>2. \E x \in T : \A y \in T : ~ (<<y, x>> \in OpToRel(<, Nat))
  BY <1>1, WFMin, NatLessThanWellFounded
<1>3. PICK x \in T : \A y \in T : ~ (y < x)
  BY <1>1, <1>2 DEF OpToRel
<1>4. \A y \in T : x <= y  BY <1>1, <1>3
<1>. QED  BY <1>4

LEMMA LookupNamesFirst ==
  ASSUME Typed, NEW r \in Request
  PROVE  /\ Matches(log, r) = {} => FindDuplicate(log, r) = 0
         /\ Matches(log, r) # {} => IsFirst(FindDuplicate(log, r), r.ep, r.key)
<1>1. CASE Matches(log, r) = {}  BY <1>1 DEF FindDuplicate
<1>2. CASE Matches(log, r) # {}
  <2>1. Len(log) \in Nat  BY LenProperties DEF Typed
  <2>2. Matches(log, r) \in SUBSET (1 .. Len(log))  BY DEF Matches
  <2>3. \E i \in Matches(log, r) : \A j \in Matches(log, r) : i <= j
    BY <1>2, <2>1, <2>2, Least
  <2>4. PICK i \in Matches(log, r) : /\ \A j \in Matches(log, r) : i <= j
                                     /\ FindDuplicate(log, r) = log[i].id
    BY <1>2, <2>3 DEF FindDuplicate
  <2>5. FindDuplicate(log, r) = i  BY <2>2, <2>4 DEF Typed
  <2>6. \A j \in 1 .. i - 1 : j \in 1 .. Len(log) /\ j \notin Matches(log, r)
    BY <2>1, <2>2, <2>4
  <2>. QED  BY <1>2, <2>2, <2>4, <2>5, <2>6 DEF IsFirst, Matches
<1>. QED  BY <1>1, <1>2

LEMMA MatchesFinite ==
  ASSUME Typed, NEW r
  PROVE  /\ IsFiniteSet(Matches(log, r)) /\ Cardinality(Matches(log, r)) \in Nat
         /\ Matches(log, r) \subseteq 1 .. Len(log)
<1>1. Len(log) \in Nat  BY LenProperties DEF Typed
<1>2. IsFiniteSet(1 .. Len(log))  BY <1>1, FS_Interval
<1>3. Matches(log, r) \subseteq 1 .. Len(log)  BY DEF Matches
<1>. QED  BY <1>2, <1>3, FS_Subset, FS_CardinalityType

LEMMA AppendingFinite ==
  ASSUME NEW r
  PROVE  /\ IsFiniteSet(Appending(r)) /\ Cardinality(Appending(r)) \in Nat
         /\ Cardinality(Appending(r)) <= Cardinality(Threads) /\ Cardinality(Threads) \in Nat
<1>1. Appending(r) \subseteq Threads  BY DEF Appending
<1>. QED  BY <1>1, ThreadsAssumption, FS_Subset, FS_CardinalityType

----------------------------------------------------------------------------
(* Replies *)

TrueReply(a) ==
  /\ a.accepted /\ (a.dup \/ a.ep = "diffs") => IsFirst(a.id, a.ep, a.key)
  /\ a.accepted =>
       /\ \E i \in 1 .. Len(log) : log[i].id = a.id /\ log[i].ep = a.ep /\ log[i].key = a.key
       /\ ~a.dup => a.own # 0 /\ (a.ep # "diffs" => a.id = a.own)

LEMMA RepliesOneByOne == RepliesTrue <=> \A a \in replies : TrueReply(a)
BY DEF RepliesTrue, DuplicateNamesFirst, AcceptedLogged, TrueReply, IsFirst

(* One more reply, while the log stays as it is *)
LEMMA OneMoreReply ==
  ASSUME RepliesTrue, UNCHANGED log, NEW a, replies' = replies \cup {a}, TrueReply(a)
  PROVE  RepliesTrue'
<1>1. \A b \in replies' : TrueReply(b)
  BY RepliesOneByOne
<1>2. \A b : TrueReply(b) => TrueReply(b)'
  BY DEF TrueReply, IsFirst
<1>3. \A b \in replies' : TrueReply(b)'
  BY <1>1, <1>2
<1>. QED  BY <1>3, RepliesOneByOne DEF RepliesTrue, DuplicateNamesFirst, AcceptedLogged, TrueReply, IsFirst

----------------------------------------------------------------------------
(* Steps that append no event *)

(* Nobody has found a key free that was not known to be *)
LEMMA RoomStays ==
  ASSUME Typed, Room, UNCHANGED log, \A r \in Commit : Appending(r)' \subseteq Appending(r)
  PROVE  Room'
<1> SUFFICES ASSUME NEW r \in Commit
             PROVE  Cardinality(Matches(log, r)) + Cardinality(Appending(r)') <= Cardinality(Threads)
  BY DEF Room
<1>1. Appending(r)' \subseteq Appending(r)  OBVIOUS
<1>2. /\ IsFiniteSet(Appending(r)') /\ Cardinality(Appending(r)') \in Nat
      /\ Cardinality(Appending(r)') <= Cardinality(Appending(r))
  BY <1>1, AppendingFinite, FS_Subset, FS_CardinalityType
<1>3. Cardinality(Matches(log, r)) + Cardinality(Appending(r)) <= Cardinality(Threads)
  BY DEF Room
<1>. QED  BY <1>2, <1>3, AppendingFinite, MatchesFinite

(* A thread that is free, or only looks, has written nothing yet *)
LEMMA Away ==
  ASSUME Inv, NEW t \in Threads, NEW me, thread' = [thread EXCEPT ![t] = me],
         me \in [pc : {"free", "check", "append"}, req : Request \cup {AnyRequest}, own : Nat, found : Nat],
         me.pc # "free" => me.req \in Commit,
         UNCHANGED <<log, audit>>
  PROVE  Typed' /\ Owned' /\ AuditBacked' /\ Unaudited'
<1>1. Typed'
  BY DEF Inv, Typed
<1>2. \A u \in Threads : Wrote(u)' => u # t /\ Wrote(u) /\ thread'[u] = thread[u]
  BY DEF Inv, Typed, Wrote
<1>3. Owned'
  BY <1>2 DEF Inv, Owned, Owns, IsFirst
<1>4. AuditBacked'
  BY DEF Inv, AuditBacked
<1>5. Unaudited'
  BY <1>2 DEF Inv, Unaudited
<1>. QED  BY <1>1, <1>3, <1>4, <1>5

LEMMA FreeIsTyped ==
  Free \in [pc : {"free", "check", "append"}, req : Request \cup {AnyRequest}, own : Nat, found : Nat]
BY DEF Free

LEMMA NothingChanges ==
  ASSUME Inv, UNCHANGED <<log, audit, thread, replies>>
  PROVE  Inv'
<1>1. Typed' /\ AuditBacked'  BY DEF Inv, Typed, AuditBacked
<1>2. Owned' /\ Unaudited'  BY DEF Inv, Owned, Unaudited, Owns, Wrote, IsFirst
<1>3. RepliesTrue'  BY DEF Inv, RepliesTrue, DuplicateNamesFirst, AcceptedLogged
<1>4. Room'
  <2>1. \A r \in Commit : Appending(r)' \subseteq Appending(r)  BY DEF Appending
  <2>. QED  BY <2>1, RoomStays DEF Inv
<1>. QED  BY <1>1, <1>2, <1>3, <1>4 DEF Inv

LEMMA DoPostKeeps ==
  ASSUME Inv, NEW t \in Threads, DoPost(t)
  PROVE  Inv'
<1>1. CASE UNCHANGED thread
  <2>1. UNCHANGED <<log, audit, thread, replies>>  BY <1>1 DEF DoPost
  <2>. QED  BY <2>1, NothingChanges
<1>2. ASSUME NEW r \in Commit, thread' = [thread EXCEPT ![t] = [Free EXCEPT !.pc = "check", !.req = r]]
      PROVE  Inv'
  <2> DEFINE me == [Free EXCEPT !.pc = "check", !.req = r]
  <2>1. /\ me \in [pc : {"free", "check", "append"}, req : Request \cup {AnyRequest}, own : Nat, found : Nat]
        /\ me.pc = "check" /\ me.req = r
    BY FreeIsTyped DEF Free, Commit
  <2>2. UNCHANGED <<log, audit, replies>>  BY DEF DoPost
  <2> HIDE DEF me
  <2>3. Typed' /\ Owned' /\ AuditBacked' /\ Unaudited'
    BY <1>2, <2>1, <2>2, Away DEF me
  <2>4. \A q \in Commit : Appending(q)' \subseteq Appending(q)
    BY <1>2, <2>1 DEF Appending, Inv, Typed, me
  <2>5. Room'  BY <2>2, <2>4, RoomStays DEF Inv
  <2>6. RepliesTrue'
    BY <2>2 DEF Inv, RepliesTrue, DuplicateNamesFirst, AcceptedLogged
  <2>. QED  BY <2>3, <2>5, <2>6 DEF Inv
<1>. QED  BY <1>1, <1>2 DEF DoPost

(* A thread answers and is free again *)
LEMMA ReplyKeeps ==
  ASSUME Inv, NEW t \in Threads, NEW accepted, NEW dup, NEW id,
         Reply(t, accepted, dup, id), UNCHANGED log,
         accepted => /\ \E i \in 1 .. Len(log) :
                         log[i].id = id /\ log[i].ep = thread[t].req.ep /\ log[i].key = thread[t].req.key
                     /\ ~dup => /\ thread[t].own # 0
                                /\ thread[t].req.ep # "diffs" => id = thread[t].own
                     /\ dup \/ thread[t].req.ep = "diffs" =>
                          IsFirst(id, thread[t].req.ep, thread[t].req.key)
  PROVE  RepliesTrue' /\ Room' /\ (UNCHANGED audit => Inv')
<1> DEFINE a == [ep |-> thread[t].req.ep, key |-> thread[t].req.key, accepted |-> accepted,
                 dup |-> dup, id |-> id, own |-> thread[t].own]
<1>1. replies' = replies \cup {a} /\ thread' = [thread EXCEPT ![t] = Free]
  BY DEF Reply
<1>2. TrueReply(a)  BY DEF TrueReply
<1> HIDE DEF a
<1>3. RepliesTrue'  BY <1>1, <1>2, OneMoreReply DEF Inv
<1>4. \A r \in Commit : Appending(r)' \subseteq Appending(r)
  BY <1>1 DEF Appending, Inv, Typed, Free
<1>5. Room'  BY <1>4, RoomStays DEF Inv
<1>6. ASSUME UNCHANGED audit PROVE Typed' /\ Owned' /\ AuditBacked' /\ Unaudited'
  <2>1. Free.pc = "free"  BY DEF Free
  <2>. QED  BY <1>1, <1>6, <2>1, FreeIsTyped, Away
<1>. QED  BY <1>3, <1>5, <1>6 DEF Inv

LEMMA RejectKeeps ==
  ASSUME Inv, NEW t \in Threads, Reject(t), UNCHANGED <<log, audit>>
  PROVE  Inv'
BY ReplyKeeps DEF Reject

(* The lookup: a duplicate is answered, a diff of nothing refused, the rest   *)
(* goes on, and then the key has no event and every thread of it no reply.    *)
LEMMA CheckDuplicateKeeps ==
  ASSUME Inv, NEW t \in Threads, CheckDuplicate(t)
  PROVE  Inv'
<1> DEFINE r == thread[t].req
           found == FindDuplicate(log, r)
<1>0. UNCHANGED <<log, audit>>  BY DEF CheckDuplicate
<1>1. r \in Commit /\ r \in Request  BY DEF CheckDuplicate, Inv, Typed, Commit
<1>2. /\ Matches(log, r) = {} => found = 0
      /\ Matches(log, r) # {} => IsFirst(found, r.ep, r.key)
  BY <1>1, LookupNamesFirst DEF Inv
<1>3. CASE found # 0 /\ Reply(t, TRUE, TRUE, found)
  <2>1. IsFirst(found, r.ep, r.key)  BY <1>2, <1>3
  <2>2. log[found].id = found  BY <2>1 DEF Inv, Typed, IsFirst
  <2> HIDE DEF found
  <2>. QED  BY <1>0, <1>3, <2>1, <2>2, ReplyKeeps DEF IsFirst
<1>4. CASE Reject(t)  BY <1>0, <1>4, RejectKeeps
<1>5. CASE found = 0 /\ thread' = [thread EXCEPT ![t].pc = "append"] /\ UNCHANGED replies
  <2> DEFINE me == [thread[t] EXCEPT !.pc = "append"]
  <2>1. /\ thread' = [thread EXCEPT ![t] = me] /\ me.pc = "append" /\ me.req = r
        /\ me \in [pc : {"free", "check", "append"}, req : Request \cup {AnyRequest}, own : Nat, found : Nat]
    BY <1>5 DEF Inv, Typed
  <2> HIDE DEF me
  <2>2. Typed' /\ Owned' /\ AuditBacked' /\ Unaudited'
    BY <1>0, <1>1, <2>1, Away
  <2>3. Matches(log, r) = {}
    <3>1. ~IsFirst(0, r.ep, r.key)  BY LenProperties DEF IsFirst
    <3>. QED  BY <1>2, <1>5, <3>1
  <2>4. ASSUME NEW q \in Commit
        PROVE  Cardinality(Matches(log, q)) + Cardinality(Appending(q)') <= Cardinality(Threads)
    <3>1. CASE q.ep = r.ep /\ q.key = r.key
      <4>1. Matches(log, q) = {}  BY <2>3, <3>1 DEF Matches
      <4>2. Cardinality(Matches(log, q)) = 0  BY <4>1, FS_EmptySet
      <4>3. Appending(q)' \subseteq Threads  BY DEF Appending
      <4>4. Cardinality(Appending(q)') \in Nat /\ Cardinality(Appending(q)') <= Cardinality(Threads)
        BY <4>3, ThreadsAssumption, FS_Subset, FS_CardinalityType
      <4>. QED  BY <4>2, <4>4
    <3>2. CASE ~(q.ep = r.ep /\ q.key = r.key)
      <4>1. Appending(q)' \subseteq Appending(q)
        BY <2>1, <3>2 DEF Appending, Inv, Typed
      <4>2. /\ IsFiniteSet(Appending(q)') /\ Cardinality(Appending(q)') \in Nat
            /\ Cardinality(Appending(q)') <= Cardinality(Appending(q))
        BY <4>1, AppendingFinite, FS_Subset, FS_CardinalityType
      <4>3. Cardinality(Matches(log, q)) + Cardinality(Appending(q)) <= Cardinality(Threads)
        BY DEF Inv, Room
      <4>. QED  BY <4>2, <4>3, AppendingFinite, MatchesFinite DEF Inv
    <3>. QED  BY <3>1, <3>2
  <2>5. Room'  BY <1>0, <2>4 DEF Room
  <2>6. RepliesTrue'
    BY <1>0, <1>5 DEF Inv, RepliesTrue, DuplicateNamesFirst, AcceptedLogged
  <2>. QED  BY <2>2, <2>5, <2>6 DEF Inv
<1>. QED  BY <1>3, <1>4, <1>5 DEF CheckDuplicate

(* A thread goes on after its append: what it has written stays its own *)
LEMMA GoesOn ==
  ASSUME Inv, NEW t \in Threads, Wrote(t), NEW found \in Nat,
         thread' = [thread EXCEPT ![t].pc = "audit", ![t].found = found],
         thread[t].req.ep = "diffs" => IsFirst(found, thread[t].req.ep, thread[t].req.key),
         thread[t].req.ep # "diffs" => found = thread[t].found,
         UNCHANGED <<log, audit, replies>>
  PROVE  Inv'
<1>1. Typed'
  BY ZenonT(60) DEF Inv, Typed, Wrote
<1>2. /\ \A u \in Threads : /\ Wrote(u)' => Wrote(u)
                            /\ thread'[u].own = thread[u].own /\ thread'[u].req = thread[u].req
                            /\ u # t => thread'[u] = thread[u]
      /\ thread'[t].pc = "audit" /\ thread'[t].found = found
  BY DEF Inv, Typed, Wrote
<1>3. ASSUME NEW u \in Threads, Wrote(u)' PROVE Owns(u)'
  <2>0. Wrote(u) /\ Owns(u) /\ thread'[u].own = thread[u].own /\ thread'[u].req = thread[u].req
    BY <1>2, <1>3 DEF Inv, Owned
  <2>1. CASE u = t
    <3>1. thread'[u].pc = "audit" /\ thread'[u].found = found  BY <1>2, <2>1
    <3>2. thread'[u].req.ep = "diffs" => IsFirst(thread'[u].found, thread'[u].req.ep, thread'[u].req.key)
      BY <2>0, <2>1, <3>1
    <3>3. thread'[u].req.ep = "diffs" =>
            IsFirst(thread[u].found, thread[u].req.ep, thread[u].req.key)'
      BY <3>2 DEF IsFirst
    <3>4. thread'[u].req.ep # "diffs" => thread'[u].found = thread'[u].own
      BY <2>0, <2>1, <3>1 DEF Owns
    <3>. QED  BY <2>0, <3>1, <3>3, <3>4 DEF Owns
  <2>2. CASE u # t
    <3>1. thread'[u] = thread[u]  BY <1>2, <2>2
    <3>. QED  BY ZenonT(60), <2>0, <3>1 DEF Owns, IsFirst
  <2>. QED  BY <2>1, <2>2
<1>4. ASSUME NEW u \in Threads, NEW v \in Threads, Wrote(u)', Wrote(v)', thread'[v].own = thread'[u].own
      PROVE  v = u
  <2>1. Wrote(u) /\ Wrote(v) /\ thread[v].own = thread[u].own  BY <1>2, <1>4
  <2>. QED  BY <2>1 DEF Inv, Owned
<1>5. Unaudited'
  <2>1. ASSUME NEW u \in Threads, Wrote(u)', thread'[u].req.ep # "diffs", NEW i \in 1 .. Len(audit)
        PROVE  audit[i] # thread'[u].own
    <3>1. Wrote(u) /\ thread[u].req.ep # "diffs" /\ thread'[u].own = thread[u].own
      BY <1>2, <2>1
    <3>. QED  BY <3>1 DEF Inv, Unaudited
  <2>. QED  BY <2>1 DEF Unaudited
<1>6. Room'
  <2>1. \A r \in Commit : Appending(r)' \subseteq Appending(r)
    BY DEF Appending, Inv, Typed
  <2>. QED  BY <2>1, RoomStays DEF Inv
<1>7. RepliesTrue' /\ AuditBacked'
  BY DEF Inv, RepliesTrue, DuplicateNamesFirst, AcceptedLogged, AuditBacked
<1>8. Owned'  BY <1>3, <1>4 DEF Owned
<1>. QED  BY <1>1, <1>5, <1>6, <1>7, <1>8 DEF Inv

LEMMA RebuildKeeps ==
  ASSUME Inv, NEW t \in Threads, Rebuild(t)
  PROVE  Inv'
<1>1. UNCHANGED <<log, audit>>  BY DEF Rebuild
<1>2. CASE Reject(t)  BY <1>1, <1>2, RejectKeeps
<1>3. CASE thread' = [thread EXCEPT ![t].pc = "audit"] /\ UNCHANGED replies
  <2>1. thread' = [thread EXCEPT ![t].pc = "audit", ![t].found = thread[t].found]
    BY <1>3 DEF Inv, Typed
  <2>2. Wrote(t) /\ thread[t].found \in Nat  BY DEF Rebuild, Wrote, Inv, Typed
  <2>3. thread[t].req.ep # "diffs"  BY <2>2 DEF Rebuild, Inv, Owned, Owns
  <2>. QED  BY <1>1, <1>3, <2>1, <2>2, <2>3, GoesOn
<1>. QED  BY <1>2, <1>3 DEF Rebuild

LEMMA LookupOwnKeeps ==
  ASSUME Inv, NEW t \in Threads, LookupOwn(t)
  PROVE  Inv'
<1> DEFINE r == thread[t].req
           found == FindDuplicate(log, r)
<1>1. Wrote(t) /\ Owns(t) /\ r \in Request /\ thread[t].pc = "lookup"
  BY DEF LookupOwn, Wrote, Inv, Typed, Owned, Commit
<1>2. thread[t].own \in Matches(log, r)  BY <1>1 DEF Owns, Matches
<1>3. IsFirst(found, r.ep, r.key)  BY <1>1, <1>2, LookupNamesFirst DEF Inv
<1>4. found \in Nat  BY <1>3, LenProperties DEF IsFirst, Inv, Typed
<1>5. r.ep = "diffs"  BY <1>1 DEF Owns
<1>6. /\ thread' = [thread EXCEPT ![t].pc = "audit", ![t].found = found]
      /\ UNCHANGED <<log, audit, replies>>
  BY DEF LookupOwn
<1> HIDE DEF found
<1>. QED  BY <1>1, <1>3, <1>4, <1>5, <1>6, GoesOn

(* Only the record of a diff may repeat: its thread audits the first event    *)
(* of the key, which another thread may have written.                         *)
LEMMA WriteAuditKeeps ==
  ASSUME Inv, NEW t \in Threads, WriteAudit(t)
  PROVE  Inv'
<1> DEFINE r == thread[t].req
           found == thread[t].found
<1>1. /\ Wrote(t) /\ Owns(t) /\ thread[t].pc = "audit"
      /\ UNCHANGED log /\ audit' = Append(audit, found)
      /\ Reply(t, TRUE, FALSE, found) /\ found \in Nat
  BY DEF WriteAudit, Wrote, Inv, Typed, Owned
<1>2. thread' = [thread EXCEPT ![t] = Free]  BY <1>1 DEF Reply
<1>3. /\ found \in 1 .. Len(log) /\ log[found].id = found
      /\ log[found].ep = r.ep /\ log[found].key = r.key
      /\ r.ep = "diffs" => IsFirst(found, r.ep, r.key)
      /\ r.ep # "diffs" => found = thread[t].own
      /\ thread[t].own # 0
  <2>1. CASE r.ep = "diffs"  BY <1>1, <2>1 DEF Owns, IsFirst, Inv, Typed
  <2>2. CASE r.ep # "diffs"  BY <1>1, <2>2 DEF Owns, Inv, Typed
  <2>. QED  BY <2>1, <2>2
<1>4. RepliesTrue' /\ Room'
  BY <1>1, <1>3, ReplyKeeps
<1>5. \A u \in Threads : Wrote(u)' => u # t /\ Wrote(u) /\ thread'[u] = thread[u]
  BY <1>2 DEF Inv, Typed, Wrote, Free
<1>6. /\ Len(audit) \in Nat /\ Len(audit') = Len(audit) + 1 /\ audit' \in Seq(Nat)
      /\ \A i \in 1 .. Len(audit) : audit'[i] = audit[i]
      /\ audit'[Len(audit) + 1] = found
  BY <1>1, LenProperties, AppendProperties DEF Inv, Typed
<1>7. Typed'
  BY <1>1, <1>2, <1>6, FreeIsTyped DEF Inv, Typed, Free
<1>8. Owned'
  <2>1. ASSUME NEW u \in Threads, Wrote(u)'
        PROVE  Owns(u)' /\ \A v \in Threads : Wrote(v)' /\ thread'[v].own = thread'[u].own => v = u
    <3>1. Wrote(u) /\ thread'[u] = thread[u]  BY <1>5, <2>1
    <3>2. Owns(u)'  BY <1>1, <3>1 DEF Inv, Owned, Owns, IsFirst
    <3>3. \A v \in Threads : Wrote(v)' /\ thread'[v].own = thread'[u].own => v = u
      BY <1>5, <3>1 DEF Inv, Owned
    <3>. QED  BY <3>2, <3>3
  <2>. QED  BY <2>1 DEF Owned
<1>9. \A i \in 1 .. Len(audit) : audit[i] = found => r.ep = "diffs"
  BY <1>1, <1>3 DEF Inv, Unaudited
<1>10. AuditBacked'
  <2>1. \A i \in 1 .. Len(audit') : i \in 1 .. Len(audit) \/ i = Len(audit) + 1
    BY <1>6
  <2>2. \A i \in 1 .. Len(audit') : audit'[i] \in 1 .. Len(log)
    BY <1>3, <1>6, <2>1 DEF Inv, AuditBacked
  <2>3. ASSUME NEW i \in 1 .. Len(audit'), NEW j \in 1 .. Len(audit'), i # j, audit'[i] = audit'[j]
        PROVE  log[audit'[i]].ep = "diffs"
    <3>1. CASE i \in 1 .. Len(audit) /\ j \in 1 .. Len(audit)
      BY <1>6, <2>3, <3>1 DEF Inv, AuditBacked
    <3>2. CASE i = Len(audit) + 1 \/ j = Len(audit) + 1
      BY <1>3, <1>6, <1>9, <2>1, <2>3, <3>2
    <3>. QED  BY <2>1, <3>1, <3>2
  <2>. QED  BY <1>1, <2>2, <2>3 DEF AuditBacked
<1>11. Unaudited'
  <2> SUFFICES ASSUME NEW u \in Threads, Wrote(u)', thread'[u].req.ep # "diffs", NEW i \in 1 .. Len(audit')
               PROVE  audit'[i] # thread'[u].own
    BY DEF Unaudited
  <2>1. u # t /\ Wrote(u) /\ thread'[u] = thread[u]  BY <1>5
  <2>2. i \in 1 .. Len(audit) \/ i = Len(audit) + 1  BY <1>6
  <2>3. CASE i \in 1 .. Len(audit)  BY <1>6, <2>1, <2>3 DEF Inv, Unaudited
  <2>4. CASE i = Len(audit) + 1
    <3>1. Owns(u) /\ thread[u].own # thread[t].own  BY <1>1, <2>1 DEF Inv, Owned
    <3>2. log[thread[u].own].ep # "diffs"  BY <2>1, <3>1 DEF Owns
    <3>. QED  BY <1>3, <1>6, <2>1, <2>4, <3>1, <3>2
  <2>. QED  BY <2>2, <2>3, <2>4
<1>. QED  BY <1>4, <1>7, <1>8, <1>10, <1>11 DEF Inv

LEMMA StopKeeps ==
  ASSUME Inv, Stop
  PROVE  Inv'
<1>1. thread' = [t \in Threads |-> Free] /\ UNCHANGED <<log, audit, replies>>  BY DEF Stop
<1>2. \A t \in Threads : ~Wrote(t)' /\ thread'[t].pc = "free"  BY <1>1 DEF Wrote, Free
<1>3. Typed'  BY <1>1, FreeIsTyped DEF Inv, Typed, Free
<1>4. Owned' /\ Unaudited'  BY <1>2 DEF Owned, Unaudited
<1>5. RepliesTrue' /\ AuditBacked'
  BY <1>1 DEF Inv, RepliesTrue, DuplicateNamesFirst, AcceptedLogged, AuditBacked
<1>6. Room'
  <2>1. \A r \in Commit : Appending(r)' \subseteq Appending(r)  BY <1>2 DEF Appending
  <2>. QED  BY <1>1, <2>1, RoomStays DEF Inv
<1>. QED  BY <1>3, <1>4, <1>5, <1>6 DEF Inv

----------------------------------------------------------------------------
(* The step that appends an event *)

(* The new line is the last and has its number; what was first stays first *)
LEMMA LogGrows ==
  ASSUME Inv, NEW e \in Line, log' = Append(log, e)
  PROVE  /\ Len(log) \in Nat /\ Len(log') = Len(log) + 1 /\ log' \in Seq(Line)
         /\ \A i \in 1 .. Len(log) : i \in 1 .. Len(log') /\ log'[i] = log[i]
         /\ log'[Len(log) + 1] = e
         /\ \A id, ep, key : IsFirst(id, ep, key) => IsFirst(id, ep, key)'
<1>1. /\ Len(log) \in Nat /\ Len(log') = Len(log) + 1 /\ log' \in Seq(Line)
      /\ \A i \in 1 .. Len(log) : log'[i] = log[i]
      /\ log'[Len(log) + 1] = e
  BY LenProperties, AppendProperties DEF Inv, Typed
<1>2. \A i \in 1 .. Len(log) : i \in 1 .. Len(log')  BY <1>1
<1>3. ASSUME NEW id, NEW ep, NEW key, IsFirst(id, ep, key) PROVE IsFirst(id, ep, key)'
  <2>1. id \in 1 .. Len(log) /\ \A i \in 1 .. id - 1 : i \in 1 .. Len(log)
    BY <1>1, <1>3 DEF IsFirst
  <2>. QED  BY <1>1, <1>2, <1>3, <2>1 DEF IsFirst
<1>. QED  BY <1>1, <1>2, <1>3

LEMMA AppendKeepsReplies ==
  ASSUME Inv, NEW e \in Line, log' = Append(log, e), UNCHANGED replies
  PROVE  RepliesTrue'
<1>1. \A a \in replies : TrueReply(a)  BY RepliesOneByOne DEF Inv
<1>2. ASSUME NEW a \in replies PROVE TrueReply(a)'
  <2>1. TrueReply(a)  BY <1>1
  <2>2. a.accepted => \E i \in 1 .. Len(log') : log'[i].id = a.id /\ log'[i].ep = a.ep /\ log'[i].key = a.key
    BY <2>1, LogGrows DEF TrueReply
  <2>3. a.accepted /\ (a.dup \/ a.ep = "diffs") => IsFirst(a.id, a.ep, a.key)'
    BY <2>1, LogGrows DEF TrueReply
  <2>. QED  BY <2>1, <2>2, <2>3 DEF TrueReply
<1>3. \A a \in replies' : TrueReply(a)'  BY <1>2
<1>. QED
  BY <1>3 DEF RepliesTrue, DuplicateNamesFirst, AcceptedLogged, TrueReply, IsFirst

(* The thread's place among those that may append becomes an event of its key *)
LEMMA AppendKeepsRoom ==
  ASSUME Inv, NEW t \in Threads, AppendApiEvent(t), NEW e \in Line, log' = Append(log, e),
         e.ep = thread[t].req.ep, e.key = thread[t].req.key
  PROVE  Room'
<1> SUFFICES ASSUME NEW r \in Commit
             PROVE  Cardinality(Matches(log', r)) + Cardinality(Appending(r)') <= Cardinality(Threads)
  BY DEF Room
<1>1. Cardinality(Matches(log, r)) + Cardinality(Appending(r)) <= Cardinality(Threads)
  BY DEF Inv, Room
<1>2. /\ IsFiniteSet(Matches(log, r)) /\ Cardinality(Matches(log, r)) \in Nat
      /\ IsFiniteSet(Appending(r)) /\ Cardinality(Appending(r)) \in Nat /\ Cardinality(Threads) \in Nat
  BY MatchesFinite, AppendingFinite DEF Inv
<1>3. /\ Len(log) \in Nat /\ Len(log') = Len(log) + 1
      /\ \A i \in 1 .. Len(log) : i \in 1 .. Len(log') /\ log'[i] = log[i]
      /\ log'[Len(log) + 1] = e
  BY LogGrows
<1>4. \A i \in 1 .. Len(log') : i \in 1 .. Len(log) \/ i = Len(log) + 1  BY <1>3
<1>5. \A u \in Threads : u # t => thread'[u] = thread[u]
  BY DEF AppendApiEvent, Inv, Typed
<1>6. thread[t].pc = "append" /\ thread'[t].pc # "append"
  BY DEF AppendApiEvent, AfterAppend, Inv, Typed
<1>7. CASE r.ep = e.ep /\ r.key = e.key
  <2>1. Matches(log', r) = Matches(log, r) \cup {Len(log) + 1}
    BY <1>3, <1>4, <1>7 DEF Matches
  <2>2. Len(log) + 1 \notin Matches(log, r)  BY <1>3 DEF Matches
  <2>3. Cardinality(Matches(log', r)) = Cardinality(Matches(log, r)) + 1
    BY <1>2, <2>1, <2>2, FS_AddElement
  <2>4. t \in Appending(r)  BY <1>6, <1>7 DEF Appending
  <2>5. Appending(r)' = Appending(r) \ {t}  BY <1>5, <1>6 DEF Appending
  <2>6. Cardinality(Appending(r)') = Cardinality(Appending(r)) - 1
    BY <1>2, <2>4, <2>5, FS_RemoveElement
  <2>. QED  BY <1>1, <1>2, <2>3, <2>6
<1>8. CASE ~(r.ep = e.ep /\ r.key = e.key)
  <2>1. Matches(log', r) = Matches(log, r)
    BY <1>3, <1>4, <1>8 DEF Matches
  <2>2. Appending(r)' \subseteq Appending(r)  BY <1>5, <1>6 DEF Appending
  <2>3. Cardinality(Appending(r)') \in Nat /\ Cardinality(Appending(r)') <= Cardinality(Appending(r))
    BY <1>2, <2>2, FS_Subset, FS_CardinalityType
  <2>. QED  BY <1>1, <1>2, <2>1, <2>3
<1>. QED  BY <1>7, <1>8

LEMMA AppendApiEventKeeps ==
  ASSUME Inv, NEW t \in Threads, AppendApiEvent(t)
  PROVE  Inv'
<1> DEFINE r == thread[t].req
           id == Len(log) + 1
           e == [ep |-> r.ep, key |-> r.key, id |-> id, fits |-> r.ep = "events" => r.fits]
           me == [thread[t] EXCEPT !.own = id, !.found = id, !.pc = AfterAppend(r.ep)]
<1>1. /\ r \in Commit /\ r \in Request /\ thread[t].pc = "append"
      /\ log' = Append(log, e) /\ UNCHANGED <<audit, replies>>
      /\ thread' = [thread EXCEPT ![t].own = id, ![t].found = id, ![t].pc = AfterAppend(r.ep)]
  BY DEF AppendApiEvent, Inv, Typed, Commit
<1>2. e \in Line
  <2>1. Len(log) \in Nat  BY LenProperties DEF Inv, Typed
  <2>2. (r.ep = "events" => r.fits) \in BOOLEAN  OBVIOUS
  <2>. QED  BY <1>1, <2>1, <2>2 DEF Line, Request
<1>3. thread' = [thread EXCEPT ![t] = me]  BY <1>1 DEF Inv, Typed
<1>4. /\ e.ep = r.ep /\ e.key = r.key /\ e.id = id
      /\ me.req = r /\ me.own = id /\ me.found = id
      /\ me.pc \in {"rebuild", "lookup", "audit"}
      /\ r.ep = "diffs" => me.pc = "lookup"
      /\ r.ep # "diffs" => me.pc # "lookup"
  BY DEF AfterAppend, Inv, Typed
<1> HIDE DEF e, me
<1>5. /\ Len(log) \in Nat /\ Len(log') = Len(log) + 1 /\ log' \in Seq(Line)
      /\ \A i \in 1 .. Len(log) : i \in 1 .. Len(log') /\ log'[i] = log[i]
      /\ log'[id] = e
      /\ \A i, ep, key : IsFirst(i, ep, key) => IsFirst(i, ep, key)'
  BY <1>1, <1>2, LogGrows
<1>6. /\ \A u \in Threads : u # t => thread'[u] = thread[u]
      /\ thread'[t] = me
  BY <1>3 DEF Inv, Typed
<1>7. Typed'
  <2>1. \A i \in 1 .. Len(log') : i \in 1 .. Len(log) \/ i = id  BY <1>5
  <2>2. \A i \in 1 .. Len(log') : log'[i].id = i
    BY <1>4, <1>5, <2>1 DEF Inv, Typed
  <2>3. me \in [pc : {"free", "check", "append", "rebuild", "lookup", "audit"},
               req : Request \cup {AnyRequest}, own : Nat, found : Nat]
    <3>1. thread[t] \in [pc : {"free", "check", "append", "rebuild", "lookup", "audit"},
                         req : Request \cup {AnyRequest}, own : Nat, found : Nat]
      BY DEF Inv, Typed
    <3>2. AfterAppend(r.ep) \in {"free", "check", "append", "rebuild", "lookup", "audit"}
      BY DEF AfterAppend
    <3>3. id \in Nat  BY <1>5
    <3>. QED  BY <3>1, <3>2, <3>3 DEF me
  <2>. QED  BY <1>1, <1>3, <1>4, <1>5, <1>6, <2>2, <2>3 DEF Inv, Typed
<1>8. Owned'
  <2>1. ASSUME NEW u \in Threads, u # t, Wrote(u)'
        PROVE  Wrote(u) /\ thread'[u] = thread[u] /\ Owns(u) /\ Owns(u)' /\ thread'[u].own # id
    <3>1. Wrote(u) /\ thread'[u] = thread[u]  BY <1>6, <2>1 DEF Wrote
    <3>2. Owns(u)  BY <3>1 DEF Inv, Owned
    <3>3. thread[u].own \in 1 .. Len(log)  BY <3>2 DEF Owns
    <3>4. Owns(u)'  BY <1>5, <3>1, <3>2, <3>3 DEF Owns
    <3>. QED  BY <1>5, <3>1, <3>2, <3>3, <3>4
  <2>2. Owns(t)'
    <3>1. id \in 1 .. Len(log')  BY <1>5
    <3>2. me.pc = "audit" => r.ep # "diffs"  BY <1>4
    <3>3. me.pc = "rebuild" => r.ep # "diffs"  BY <1>4
    <3>. QED  BY <1>4, <1>5, <1>6, <3>1, <3>2, <3>3 DEF Owns
  <2>3. ASSUME NEW u \in Threads, NEW v \in Threads, Wrote(u)', Wrote(v)', thread'[v].own = thread'[u].own
        PROVE  v = u
    <3>1. CASE u # t /\ v # t  BY <2>1, <2>3, <3>1 DEF Inv, Owned
    <3>2. CASE u = t \/ v = t  BY <1>4, <1>6, <2>1, <2>3, <3>2
    <3>. QED  BY <3>1, <3>2
  <2>. QED  BY <2>1, <2>2, <2>3 DEF Owned
<1>9. AuditBacked'
  BY <1>1, <1>5 DEF Inv, AuditBacked
<1>10. Unaudited'
  <2>1. \A i \in 1 .. Len(audit) : audit[i] # id
    BY <1>5 DEF Inv, AuditBacked
  <2>2. ASSUME NEW u \in Threads, Wrote(u)', thread'[u].req.ep # "diffs"
        PROVE  \A i \in 1 .. Len(audit) : audit[i] # thread'[u].own
    <3>1. CASE u = t  BY <1>4, <1>6, <2>1, <3>1
    <3>2. CASE u # t
      <4>1. Wrote(u) /\ thread'[u] = thread[u]  BY <1>6, <2>2, <3>2 DEF Wrote
      <4>. QED  BY <2>2, <4>1 DEF Inv, Unaudited
    <3>. QED  BY <3>1, <3>2
  <2>. QED  BY <1>1, <2>2 DEF Unaudited
<1>11. RepliesTrue'  BY <1>1, <1>2, AppendKeepsReplies
<1>12. Room'  BY <1>1, <1>2, <1>4, AppendKeepsRoom
<1>. QED  BY <1>7, <1>8, <1>9, <1>10, <1>11, <1>12 DEF Inv

----------------------------------------------------------------------------
(* The theorems *)

LEMMA Begins == Init => Inv
<1> SUFFICES ASSUME Init PROVE Inv  OBVIOUS
<1>1. /\ log = <<>> /\ audit = <<>> /\ replies = {} /\ thread = [t \in Threads |-> Free]
      /\ Len(log) = 0 /\ Len(audit) = 0
  BY EmptySeq DEF Init
<1>2. \A t \in Threads : thread[t].pc = "free"  BY <1>1 DEF Free
<1>3. Typed
  BY <1>1, <1>2, EmptySeq, FreeIsTyped DEF Typed, Free
<1>4. Owned /\ Unaudited  BY <1>2 DEF Owned, Unaudited, Wrote
<1>5. RepliesTrue /\ AuditBacked
  BY <1>1 DEF RepliesTrue, DuplicateNamesFirst, AcceptedLogged, AuditBacked
<1>6. Room
  <2>1. \A r : Matches(log, r) = {} /\ Appending(r) = {}  BY <1>1, <1>2 DEF Matches, Appending
  <2>2. Cardinality(Threads) \in Nat  BY ThreadsAssumption, FS_CardinalityType
  <2>. QED  BY <2>1, <2>2, FS_EmptySet DEF Room
<1>. QED  BY <1>3, <1>4, <1>5, <1>6 DEF Inv

LEMMA Keeps == Inv /\ [Next]_vars => Inv'
<1> SUFFICES ASSUME Inv, [Next]_vars PROVE Inv'  OBVIOUS
<1>1. CASE Stop  BY <1>1, StopKeeps
<1>2. ASSUME NEW t \in Threads, DoPost(t) \/ Work(t) \/ AuditFails(t) PROVE Inv'
  <2>1. CASE DoPost(t)  BY <2>1, DoPostKeeps
  <2>2. CASE CheckDuplicate(t)  BY <2>2, CheckDuplicateKeeps
  <2>3. CASE AppendApiEvent(t)  BY <2>3, AppendApiEventKeeps
  <2>4. CASE Rebuild(t)  BY <2>4, RebuildKeeps
  <2>5. CASE LookupOwn(t)  BY <2>5, LookupOwnKeeps
  <2>6. CASE WriteAudit(t)  BY <2>6, WriteAuditKeeps
  <2>7. CASE AuditFails(t)  BY <2>7, RejectKeeps DEF AuditFails
  <2>. QED  BY <1>2, <2>1, <2>2, <2>3, <2>4, <2>5, <2>6, <2>7 DEF Work
<1>3. CASE UNCHANGED vars  BY <1>3, NothingChanges DEF vars
<1>. QED  BY <1>1, <1>2, <1>3 DEF Next

LEMMA Always == Spec => []Inv
BY Begins, Keeps, PTL DEF Spec

(* What a client is told of its event is true and stays true, for any number *)
(* of threads, requests, failures and stops: a duplicate, and a diff, name    *)
(* the first event of their key, and what was accepted is in the log.         *)
THEOREM RepliesStayTrue == Spec => []RepliesTrue
<1>1. Inv => RepliesTrue  BY DEF Inv
<1>. QED  BY <1>1, Always, PTL

(* Every audit record names an event in the log, and only diffs share one.    *)
THEOREM AuditIsBacked == Spec => []AuditBacked
<1>1. Inv => AuditBacked  BY DEF Inv
<1>. QED  BY <1>1, Always, PTL

(* However often a request is repeated and the daemon stopped, its key gets   *)
(* no more events than the daemon has threads.                                *)
THEOREM DuplicatesAreBounded == Spec => []DuplicatesBounded
<1>1. Inv => DuplicatesBounded
  <2> SUFFICES ASSUME Inv, NEW r \in Commit
               PROVE  Cardinality(Matches(log, r)) <= Cardinality(Threads)
    BY DEF DuplicatesBounded
  <2>1. Cardinality(Matches(log, r)) + Cardinality(Appending(r)) <= Cardinality(Threads)
    BY DEF Inv, Room
  <2>. QED  BY <2>1, AppendingFinite, MatchesFinite DEF Inv
<1>. QED  BY <1>1, Always, PTL

----------------------------------------------------------------------------
(* DaemonToken                                                              *)

(***************************************************************************)
(* The inductive invariant                                                  *)
(***************************************************************************)

Running(d) == daemon[d].pc # "off"

(* The process that runs owns the path: it made the file that is there.      *)
PathOwned ==
  \A d \in Daemons : Running(d) =>
    /\ path = daemon[d].ino /\ path \in Inodes
    /\ maker[path] = daemon[d].run
    /\ daemon[d].pc \in {"bind", "serving"} => token[path] = daemon[d].run
    /\ daemon[d].pc = "serving" => port = daemon[d].run

Alone == \A d, e \in Daemons : Running(d) /\ Running(e) => d = e

IInv == TypeOK /\ (~careless => PathOwned /\ Alone) /\ LeftBehindOnlyAbruptly

(***************************************************************************)
(* Steps of the control                                                     *)
(***************************************************************************)

(* Goto moves one process, which forgets its run when it ends. *)
LEMMA GotoMoves ==
  ASSUME TypeOK, NEW d \in Daemons, NEW where \in Pcs, Goto(d, where)
  PROVE  /\ daemon' \in [Daemons -> [pc : Pcs, run : 0 .. MaxRuns, ino : Inodes \cup {0}]]
         /\ daemon'[d].pc = where
         /\ where # "off" => daemon'[d].run = daemon[d].run /\ daemon'[d].ino = daemon[d].ino
         /\ \A e \in Daemons : e # d => daemon'[e] = daemon[e]
<1>1. CASE where = "off"
  BY <1>1, RunsAssumption DEF Goto, Off, TypeOK, Pcs
<1>2. CASE where # "off"
  BY <1>2 DEF Goto, TypeOK
<1> QED BY <1>1, <1>2

(* What a step that moves a process without touching the files keeps: all of *)
(* it, if the process does not end with its file in place.                   *)
LEMMA MoveKeeps ==
  ASSUME IInv, NEW d \in Daemons, NEW where \in Pcs, Goto(d, where), Running(d),
         UNCHANGED <<path, maker, runs>>,
         token' \in [Inodes -> 0 .. MaxRuns],
         port' \in 0 .. MaxRuns,
         killed' \in BOOLEAN, interrupted' \in BOOLEAN, failed' \in BOOLEAN, careless' = careless,
         killed => killed', interrupted => interrupted', failed => failed',
         ~careless => /\ where \in {"bind", "serving"} => token'[path] = daemon[d].run
                      /\ where = "serving" => port' = daemon[d].run,
         where = "off" => path # daemon[d].ino \/ killed' \/ interrupted' \/ failed'
  PROVE  IInv'
<1>1. TypeOK /\ Running(d) /\ daemon[d].ino \in Inodes \cup {0}
  BY DEF IInv, TypeOK
<1>2. TypeOK'
  BY <1>1, GotoMoves DEF TypeOK, history
<1>3. ASSUME ~careless PROVE PathOwned' /\ Alone'
  <2>1. \A e \in Daemons : e # d => ~Running(e)
    BY <1>1, <1>3 DEF IInv, Alone
  <2>2. \A e \in Daemons : e # d => ~Running(e)'
    BY <1>1, <2>1, GotoMoves DEF Running
  <2>3. /\ path = daemon[d].ino /\ path \in Inodes
        /\ maker[path] = daemon[d].run
    BY <1>1, <1>3 DEF IInv, PathOwned
  <2>4. PathOwned'
    BY <1>1, <1>3, <2>2, <2>3, GotoMoves DEF PathOwned, Running
  <2>5. Alone'
    BY <2>2 DEF Alone
  <2> QED BY <2>4, <2>5
<1>4. LeftBehindOnlyAbruptly'
  <2>1. SUFFICES ASSUME path # 0, ~killed', ~interrupted', ~failed'
                 PROVE  \E e \in Daemons : daemon'[e].pc # "off" /\ daemon'[e].ino = path
    BY DEF LeftBehindOnlyAbruptly
  <2>2. PICK e \in Daemons : daemon[e].pc # "off" /\ daemon[e].ino = path
    BY <2>1 DEF IInv, LeftBehindOnlyAbruptly
  <2>3. CASE e = d
    BY <1>1, <2>1, <2>2, <2>3, GotoMoves
  <2>4. CASE e # d
    BY <1>1, <2>2, <2>4, GotoMoves
  <2> QED BY <2>3, <2>4
<1> QED BY <1>2, <1>3, <1>4 DEF IInv

(***************************************************************************)
(* Every step keeps the invariant                                           *)
(***************************************************************************)

LEMMA Initially == TokenInit => IInv
<1> SUFFICES ASSUME TokenInit PROVE IInv
  OBVIOUS
<1>1. TypeOK
  <2>1. Off \in [pc : Pcs, run : 0 .. MaxRuns, ino : Inodes \cup {0}]
    BY RunsAssumption DEF Off, Pcs
  <2>2. 0 \in 0 .. MaxRuns
    BY RunsAssumption
  <2>3. daemon \in [Daemons -> [pc : Pcs, run : 0 .. MaxRuns, ino : Inodes \cup {0}]]
    BY <2>1 DEF TokenInit
  <2>4. maker \in [Inodes -> 0 .. MaxRuns] /\ token \in [Inodes -> 0 .. MaxRuns]
    BY <2>2 DEF TokenInit
  <2> QED BY <2>2, <2>3, <2>4 DEF TokenInit, TypeOK, history
<1>2. \A d \in Daemons : ~Running(d)
  BY DEF TokenInit, Running, Off
<1>3. PathOwned /\ Alone
  BY <1>2 DEF PathOwned, Alone
<1>4. LeftBehindOnlyAbruptly
  BY DEF TokenInit, LeftBehindOnlyAbruptly
<1> QED BY <1>1, <1>3, <1>4 DEF IInv

(* The exclusive creation: there is no file, so nobody runs. *)
LEMMA CreateKeeps == ASSUME NEW d \in Daemons, IInv, Create(d) PROVE IInv'
<1> USE DEF history
<1>1. /\ path = 0 /\ runs < MaxRuns /\ runs' = runs + 1
      /\ UNCHANGED <<port, killed, interrupted, failed, careless>>
  BY DEF Create
<1>2. PICK i \in Inodes :
        /\ path' = i
        /\ maker' = [maker EXCEPT ![i] = runs + 1]
        /\ token' = [token EXCEPT ![i] = 0]
        /\ daemon' = [daemon EXCEPT ![d] = [pc |-> "created", run |-> runs + 1, ino |-> i]]
  BY DEF Create
<1>3. i # 0 /\ runs + 1 \in 0 .. MaxRuns
  BY <1>1, InodesAssumption, RunsAssumption DEF IInv, TypeOK
<1>4. TypeOK'
  <2>1. /\ path' \in Inodes /\ maker' \in [Inodes -> 0 .. MaxRuns]
        /\ token' \in [Inodes -> 0 .. MaxRuns]
    BY <1>2, <1>3, RunsAssumption DEF IInv, TypeOK
  <2>2. daemon' \in [Daemons -> [pc : Pcs, run : 0 .. MaxRuns, ino : Inodes \cup {0}]]
    BY <1>2, <1>3 DEF IInv, TypeOK, Pcs
  <2> QED BY <1>1, <1>3, <2>1, <2>2 DEF IInv, TypeOK
<1>5. daemon'[d] = [pc |-> "created", run |-> runs + 1, ino |-> i]
      /\ \A e \in Daemons : e # d => daemon'[e] = daemon[e]
  BY <1>2 DEF IInv, TypeOK
<1>6. ASSUME ~careless PROVE PathOwned' /\ Alone'
  <2>1. \A e \in Daemons : ~Running(e)
    BY <1>1, <1>6, InodesAssumption DEF IInv, PathOwned
  <2>2. \A e \in Daemons : e # d => ~Running(e)'
    BY <1>5, <2>1 DEF Running
  <2>3. maker'[i] = runs + 1
    BY <1>2 DEF IInv, TypeOK
  <2>4. PathOwned'
    BY <1>2, <1>5, <2>2, <2>3 DEF PathOwned
  <2> QED BY <2>2, <2>4 DEF Alone
<1>7. LeftBehindOnlyAbruptly'
  BY <1>2, <1>5 DEF LeftBehindOnlyAbruptly
<1> QED BY <1>1, <1>4, <1>6, <1>7 DEF IInv

(* The steps of a start that was created, up to serving. *)
LEMMA StartKeeps ==
  ASSUME NEW d \in Daemons, IInv, Identify(d) \/ WriteToken(d) \/ Bind(d)
  PROVE  IInv'
<1> USE DEF history, file
<1>0. /\ token \in [Inodes -> 0 .. MaxRuns] /\ port \in 0 .. MaxRuns
      /\ killed \in BOOLEAN /\ interrupted \in BOOLEAN /\ failed \in BOOLEAN
      /\ daemon[d].run \in 0 .. MaxRuns
  BY DEF IInv, TypeOK
<1>1. CASE Identify(d)
  <2>1. PICK where \in {"identified", "cleanup"} : Goto(d, where)
    BY <1>1 DEF Identify
  <2>2. where \in Pcs
    BY DEF Pcs
  <2>3. Running(d) /\ UNCHANGED <<file, port, runs, history>>
    BY <1>1 DEF Identify, Running
  <2> QED BY <1>0, <2>1, <2>2, <2>3, MoveKeeps
<1>2. CASE WriteToken(d)
  <2>1. Running(d) /\ UNCHANGED <<path, maker, port, runs, history>>
    BY <1>2 DEF WriteToken, Running
  <2>2. CASE Goto(d, "bind") /\ token' = [token EXCEPT ![daemon[d].ino] = daemon[d].run]
    <3>1. token' \in [Inodes -> 0 .. MaxRuns]
      BY <1>0, <2>2
    <3>2. ~careless => token'[path] = daemon[d].run
      BY <1>0, <2>1, <2>2 DEF IInv, PathOwned
    <3>3. "bind" \in Pcs
      BY DEF Pcs
    <3> QED BY <1>0, <2>1, <2>2, <3>1, <3>2, <3>3, MoveKeeps
  <2>3. CASE Goto(d, "cleanup") /\ UNCHANGED token
    <3>1. "cleanup" \in Pcs
      BY DEF Pcs
    <3> QED BY <1>0, <2>1, <2>3, <3>1, MoveKeeps
  <2> QED BY <1>2, <2>2, <2>3 DEF WriteToken
<1>3. CASE Bind(d)
  <2>1. Running(d) /\ daemon[d].pc = "bind" /\ UNCHANGED <<file, runs, history>>
    BY <1>3 DEF Bind, Running
  <2>2. ~careless => token[path] = daemon[d].run
    BY <2>1 DEF IInv, PathOwned
  <2>3. CASE Goto(d, "serving") /\ port' = daemon[d].run
    <3>1. "serving" \in Pcs
      BY DEF Pcs
    <3> QED BY <1>0, <2>1, <2>2, <2>3, <3>1, MoveKeeps
  <2>4. CASE Goto(d, "cleanup") /\ UNCHANGED port
    <3>1. "cleanup" \in Pcs
      BY DEF Pcs
    <3> QED BY <1>0, <2>1, <2>4, <3>1, MoveKeeps
  <2> QED BY <1>3, <2>3, <2>4 DEF Bind
<1> QED BY <1>1, <1>2, <1>3

(* Where a run ends: the cleanup looks, a signal or a kill arrives. *)
LEMMA EndKeeps ==
  ASSUME NEW d \in Daemons, IInv,
         LookAtPath(d) \/ OsFails(d) \/ Interrupt(d) \/ InterruptUncleaned(d) \/ Kill(d)
  PROVE  IInv'
<1> USE DEF history, file
<1>0. /\ token \in [Inodes -> 0 .. MaxRuns] /\ port \in 0 .. MaxRuns
      /\ killed \in BOOLEAN /\ interrupted \in BOOLEAN /\ failed \in BOOLEAN
  BY DEF IInv, TypeOK
<1>1. /\ "off" \in Pcs /\ "unlink" \in Pcs /\ "cleanup" \in Pcs
      /\ 0 \in 0 .. MaxRuns
  BY RunsAssumption DEF Pcs
<1>2. CASE LookAtPath(d)
  <2>1. Running(d) /\ UNCHANGED <<file, port, runs, history>>
    BY <1>2 DEF LookAtPath, Running
  <2>2. \/ Goto(d, "unlink")
        \/ Goto(d, "off") /\ path # daemon[d].ino
    BY <1>2 DEF LookAtPath
  <2> QED BY <1>0, <1>1, <2>1, <2>2, MoveKeeps
<1>3. CASE Interrupt(d)
  <2>1. Running(d) /\ Goto(d, "cleanup") /\ UNCHANGED <<file, runs, history>>
    BY <1>3 DEF Interrupt, Running
  <2>2. port' \in 0 .. MaxRuns
    BY <1>0, <1>1, <1>3 DEF Interrupt
  <2> QED BY <1>0, <1>1, <2>1, <2>2, MoveKeeps
<1>4. CASE InterruptUncleaned(d)
  <2>1. /\ Running(d) /\ Goto(d, "off") /\ interrupted' = TRUE
        /\ UNCHANGED <<file, port, runs, killed, failed, careless>>
    BY <1>4 DEF InterruptUncleaned, Running
  <2> QED BY <1>0, <1>1, <2>1, MoveKeeps
<1>5. CASE Kill(d)
  <2>1. /\ Running(d) /\ Goto(d, "off") /\ killed' = TRUE
        /\ UNCHANGED <<file, runs, interrupted, failed, careless>>
    BY <1>5 DEF Kill, Running
  <2>2. port' \in 0 .. MaxRuns
    BY <1>0, <1>1, <1>5 DEF Kill
  <2> QED BY <1>0, <1>1, <2>1, <2>2, MoveKeeps
<1>6. CASE OsFails(d)
  <2>1. /\ Running(d) /\ Goto(d, "off") /\ failed' = TRUE
        /\ UNCHANGED <<file, port, runs, killed, interrupted, careless>>
    BY <1>6 DEF OsFails, Running
  <2> QED BY <1>0, <1>1, <2>1, MoveKeeps
<1> QED BY <1>2, <1>3, <1>4, <1>5, <1>6

(* Removing the file: by its own run, which is alone, or by the operator,    *)
(* who removes that of a running daemon only carelessly.                     *)
LEMMA UnlinkKeeps == ASSUME NEW d \in Daemons, IInv, Unlink(d) PROVE IInv'
<1> USE DEF history
<1>1. /\ Running(d) /\ path' = 0 /\ Goto(d, "off") /\ "off" \in Pcs
      /\ UNCHANGED <<maker, token, port, runs, killed, interrupted, failed, careless>>
  BY DEF Unlink, Running, Pcs
<1>2. TypeOK /\ TypeOK'
  BY <1>1, GotoMoves DEF IInv, TypeOK
<1>3. ASSUME ~careless PROVE PathOwned' /\ Alone'
  <2>1. \A e \in Daemons : ~Running(e)'
    BY <1>1, <1>2, <1>3, GotoMoves DEF IInv, Alone, Running
  <2> QED BY <2>1 DEF PathOwned, Alone
<1>4. LeftBehindOnlyAbruptly'
  BY <1>1 DEF LeftBehindOnlyAbruptly
<1> QED BY <1>1, <1>2, <1>3, <1>4 DEF IInv

LEMMA RemoveKeeps == ASSUME IInv, RemoveStale PROVE IInv'
<1> USE DEF history
<1>1. /\ path' = 0 /\ careless' = (careless \/ \E d \in Daemons : Running(d))
      /\ UNCHANGED <<maker, token, port, daemon, runs, killed, interrupted, failed>>
  BY DEF RemoveStale, Running
<1>2. TypeOK'
  <2>1. careless' \in BOOLEAN
    BY <1>1 DEF IInv, TypeOK
  <2> QED BY <1>1, <2>1 DEF IInv, TypeOK
<1>3. ASSUME ~careless' PROVE PathOwned' /\ Alone'
  <2>1. \A e \in Daemons : ~Running(e)'
    BY <1>1, <1>3 DEF Running
  <2> QED BY <2>1 DEF PathOwned, Alone
<1>4. LeftBehindOnlyAbruptly'
  BY <1>1 DEF LeftBehindOnlyAbruptly
<1> QED BY <1>2, <1>3, <1>4 DEF IInv

LEMMA NextKeeps == IInv /\ [TokenNext]_tokenVars => IInv'
<1> SUFFICES ASSUME IInv, [TokenNext]_tokenVars PROVE IInv'
  OBVIOUS
<1>1. CASE RemoveStale
  BY <1>1, RemoveKeeps
<1>2. CASE \E d \in Daemons : Step(d)
  BY <1>2, CreateKeeps, StartKeeps, EndKeeps, UnlinkKeeps DEF Step
<1>3. CASE UNCHANGED tokenVars
  BY <1>3 DEF tokenVars, file, history, IInv, TypeOK, PathOwned, Alone, Running,
              LeftBehindOnlyAbruptly
<1> QED BY <1>1, <1>2, <1>3 DEF TokenNext

LEMMA Invariance == TokenSpec => []IInv
<1>1. TokenInit => IInv
  BY Initially
<1>2. IInv /\ [TokenNext]_tokenVars => IInv'
  BY NextKeeps
<1> QED BY <1>1, <1>2, PTL DEF TokenSpec

(***************************************************************************)
(* The theorems                                                             *)
(***************************************************************************)

(* The file, the port and the processes keep their types. *)
THEOREM DaemonTypes == TokenSpec => []TypeOK
<1>1. IInv => TypeOK
  BY DEF IInv
<1> QED BY <1>1, Invariance, PTL

(* The exclusive creation of the file keeps a second daemon with the same    *)
(* token path from starting, unless the operator removes the file of a       *)
(* running one.                                                              *)
THEOREM DaemonIsAlone == TokenSpec => []OneDaemonPerPath
<1>1. IInv => OneDaemonPerPath
  BY DEF IInv, Alone, Running, OneDaemonPerPath
<1> QED BY <1>1, Invariance, PTL

(* What a client reads at the token path is the token of the daemon that     *)
(* serves, although inode numbers are reused and runs end at any step.       *)
THEOREM ServingPublished == TokenSpec => []ServingIsPublished
<1>1. IInv => ServingIsPublished
  BY InodesAssumption DEF IInv, PathOwned, Running, ServingIsPublished
<1> QED BY <1>1, Invariance, PTL

(* A file that nobody owns is there only after a kill, or after a signal or  *)
(* an error of the system that met the start before, or the cleanup after,   *)
(* the protected part.                                                       *)
THEOREM FileLeftBehind == TokenSpec => []LeftBehindOnlyAbruptly
<1>1. IInv => LeftBehindOnlyAbruptly
  BY DEF IInv
<1> QED BY <1>1, Invariance, PTL
=============================================================================
