-------------------------- MODULE UiSessionProofs ---------------------------
(***************************************************************************)
(* Proofs about UiSession, for every set of threads and of request ids and  *)
(* every value of the bounds: the safety invariants of the session, and that *)
(* it implements AtMostOnce.                                                *)
(***************************************************************************)
EXTENDS UiSession, UiReview, SequenceTheorems, FiniteSetTheorems, WellFoundedInduction, TLAPS

(***************************************************************************)
(* The inductive invariant                                                  *)
(***************************************************************************)

(* Who is inside a critical section holds its lock. *)
Locked ==
  \A t \in Threads :
    /\ thread[t].pc \in {"consult", "consume", "refuse"} => bootLock = t
    /\ thread[t].pc \in {"look", "add", "conflict"} => idLock = t

(* The bootstrap: what was consumed stays so, and one thread grants. *)
Bootstrap ==
  /\ consumed => ~url
  /\ life \in granted => consumed
  /\ \A t \in Threads :
       /\ thread[t].pc = "consume" => ~consumed
       /\ thread[t].pc = "grant" => consumed /\ life \notin granted
  /\ \A t, u \in Threads : thread[t].pc = "grant" /\ thread[u].pc = "grant" => t = u

(* The request ids: who executes has registered its own. *)
Ids ==
  /\ \A t \in Threads :
       /\ thread[t].pc = "add" => thread[t].req.rid \notin seen
       /\ thread[t].pc = "execute" =>
            thread[t].req.rid \in seen /\ <<life, thread[t].req.rid>> \notin done
  /\ \A t, u \in Threads :
       thread[t].pc = "execute" /\ thread[u].pc = "execute" /\ t # u =>
         thread[t].req.rid # thread[u].req.rid
  /\ \A r \in RequestIds : <<life, r>> \in done => r \in seen

(* Nothing of a later life exists, and credentials come from a grant. *)
Credentials ==
  /\ \A l \in granted : l <= life
  /\ \A w \in done : w[1] <= life /\ w[1] \in granted
  /\ cookies \subseteq granted
  /\ \A t \in Threads : thread[t].pc \in {"id", "look", "add", "conflict", "execute"} =>
       /\ thread[t].req.cookie = life /\ thread[t].req.token = life /\ Mutation
       /\ life \in granted

IInv == TypeOK /\ Locked /\ Bootstrap /\ Ids /\ Credentials

(***************************************************************************)
(* Steps of the control                                                     *)
(***************************************************************************)

LEMMA RequestExists == AnyRequest \in Request
<1>1. PICK i \in RequestIds : TRUE
  BY IdsAssumption
<1>2. [path |-> "other", secret |-> 0, cookie |-> 0, token |-> 0, json |-> TRUE, rid |-> i]
        \in Request
  BY BoundsAssumption DEF Request, Paths
<1> QED BY <1>2 DEF AnyRequest

(* Goto moves one thread, which keeps its request unless it is freed. *)
LEMMA GotoMoves ==
  ASSUME TypeOK, NEW t \in Threads, NEW where \in Pcs, Goto(t, where)
  PROVE  /\ thread' \in [Threads -> [pc : Pcs, req : Request]]
         /\ thread'[t].pc = where
         /\ where # "free" => thread'[t].req = thread[t].req
         /\ \A u \in Threads : u # t => thread'[u] = thread[u]
<1>1. CASE where = "free"
  BY <1>1, RequestExists DEF Goto, Free, TypeOK, Pcs
<1>2. CASE where # "free"
  BY <1>2 DEF Goto, TypeOK
<1> QED BY <1>1, <1>2

LEMMA FreeType == Free \in [pc : Pcs, req : Request]
BY RequestExists DEF Free, Pcs

(***************************************************************************)
(* Every step keeps the invariant                                           *)
(***************************************************************************)

LEMMA Initially == Init => IInv
<1> SUFFICES ASSUME Init PROVE IInv
  OBVIOUS
<1>1. \A t \in Threads : thread[t].pc = "free"
  BY DEF Init, Free
<1>2. TypeOK
  <2>1. thread \in [Threads -> [pc : Pcs, req : Request]]
    BY FreeType DEF Init
  <2>2. life \in Lives /\ age \in 0 .. TTL + 1 /\ requests \in 0 .. MaxRequests
    BY BoundsAssumption DEF Init, Lives
  <2> QED BY <2>1, <2>2 DEF Init, TypeOK
<1>3. Locked /\ Bootstrap /\ Ids /\ Credentials
  BY <1>1 DEF Init, Locked, Bootstrap, Ids, Credentials
<1> QED BY <1>2, <1>3 DEF IInv

LEMMA Unchanged == IInv /\ UNCHANGED vars => IInv'
  BY DEF IInv, TypeOK, Locked, Bootstrap, Ids, Credentials, vars, shared, client

(* The passing of time moves no thread. *)
LEMMA TickKeeps == IInv /\ Tick => IInv'
<1> SUFFICES ASSUME IInv, Tick PROVE IInv'
  OBVIOUS
<1> USE DEF Tick, shared, client
<1>1. TypeOK'
  BY BoundsAssumption DEF IInv, TypeOK
<1>2. Locked' /\ Bootstrap' /\ Ids' /\ Credentials'
  BY DEF IInv, Locked, Bootstrap, Ids, Credentials
<1> QED BY <1>1, <1>2 DEF IInv

(* A new life starts with free threads, and nothing done or granted is of it. *)
LEMMA RestartKeeps == IInv /\ Restart => IInv'
<1> SUFFICES ASSUME IInv, Restart PROVE IInv'
  OBVIOUS
<1> USE DEF Restart, client
<1>1. \A t \in Threads : thread'[t].pc = "free"
  BY DEF Free
<1>2. TypeOK'
  <2>1. thread' \in [Threads -> [pc : Pcs, req : Request]]
    BY FreeType
  <2>2. life' \in Lives /\ age' \in 0 .. TTL + 1 /\ requests' \in 0 .. MaxRequests
    BY BoundsAssumption DEF IInv, TypeOK, Lives
  <2> QED BY <2>1, <2>2 DEF IInv, TypeOK
<1>3. Locked'
  BY <1>1 DEF Locked
<1>4. life \in Nat /\ life' = life + 1
  BY BoundsAssumption DEF IInv, TypeOK, Lives
<1>5. life' \notin granted
  BY <1>4 DEF IInv, Credentials
<1>6. \A w \in done : w[1] # life'
  BY <1>4 DEF IInv, Credentials
<1>7. Bootstrap'
  BY <1>1, <1>5 DEF Bootstrap
<1>8. Ids'
  <2>1. \A r \in RequestIds : <<life', r>> \notin done
    BY <1>6
  <2> QED BY <1>1, <2>1 DEF Ids
<1>9. Credentials'
  <2>1. \A l \in granted : l \in Nat
    BY BoundsAssumption DEF IInv, TypeOK, Lives
  <2>2. \A w \in done : w[1] \in granted
    BY DEF IInv, Credentials
  <2>3. \A l \in granted : l <= life'
    BY <2>1, <1>4 DEF IInv, Credentials
  <2> QED BY <1>1, <2>2, <2>3 DEF IInv, Credentials
<1> QED BY <1>2, <1>3, <1>7, <1>8, <1>9 DEF IInv

(* A request past the gates carries this life's cookie, which was granted. *)
LEMMA ReceiveKeeps == ASSUME NEW t \in Threads PROVE IInv /\ Receive(t) => IInv'
<1> SUFFICES ASSUME IInv, Receive(t) PROVE IInv'
  OBVIOUS
<1> USE DEF shared
<1>1. PICK r \in Request :
        /\ Sendable(r)
        /\ \/ /\ thread' = [thread EXCEPT ![t] = [pc |-> "boot", req |-> r]]
              /\ UNCHANGED tokens
           \/ /\ GatesPassed(r)
              /\ thread' = [thread EXCEPT ![t] = [pc |-> "id", req |-> r]]
              /\ UNCHANGED tokens
           \/ tokens' = tokens \cup {life} /\ UNCHANGED thread
           \/ UNCHANGED <<thread, tokens>>
  BY DEF Receive
<1>2. TypeOK'
  <2>1. thread' \in [Threads -> [pc : Pcs, req : Request]]
    BY <1>1 DEF IInv, TypeOK, Pcs
  <2>2. tokens' \subseteq Lives
    BY <1>1 DEF IInv, TypeOK
  <2>3. requests' \in 0 .. MaxRequests
    BY BoundsAssumption DEF IInv, TypeOK, Receive
  <2> QED BY <2>1, <2>2, <2>3 DEF IInv, TypeOK, Receive
<1>3. \A u \in Threads : \/ thread'[u] = thread[u]
                         \/ thread'[u].pc = "boot"
                         \/ thread'[u].pc = "id" /\ thread'[u].req = r /\ GatesPassed(r)
  BY <1>1 DEF IInv, TypeOK
<1>4. GatesPassed(r) => r.cookie = life /\ r.token = life /\ Mutation /\ life \in granted
  <2>1. life # 0
    BY DEF IInv, TypeOK, Lives
  <2>2. r.cookie \in cookies \cup {0}
    BY <1>1 DEF Sendable
  <2> QED BY <2>1, <2>2 DEF GatesPassed, Authorized, IInv, Credentials
<1>5. UNCHANGED <<life, age, consumed, url, bootLock, idLock, seen, cookies, granted, done>>
  BY DEF Receive
<1>6. Locked'
  BY <1>3, <1>5 DEF IInv, Locked
<1>7. Bootstrap'
  BY <1>3, <1>5 DEF IInv, Bootstrap
<1>8. Ids'
  BY <1>3, <1>5 DEF IInv, Ids
<1>9. Credentials'
  BY <1>3, <1>4, <1>5 DEF IInv, Credentials
<1> QED BY <1>2, <1>6, <1>7, <1>8, <1>9 DEF IInv

(* Under bootstrap_lock: only its holder looks at the bootstrap or retires it. *)
LEMMA BootstrapKeeps ==
  ASSUME NEW t \in Threads, IInv,
         LockBootstrap(t) \/ ConsultBootstrap(t) \/ ConsumeBootstrap(t) \/ RefuseBootstrap(t)
  PROVE  IInv'
<1> USE DEF client
<1>0. UNCHANGED <<life, age, idLock, seen, cookies, tokens, granted, done, requests>>
  BY DEF LockBootstrap, ConsultBootstrap, ConsumeBootstrap, RefuseBootstrap
<1>1. CASE LockBootstrap(t)
  <2>1. Goto(t, "consult") /\ "consult" \in Pcs
    BY <1>1 DEF LockBootstrap, Pcs
  <2>2. bootLock = NoThread /\ bootLock' = t /\ UNCHANGED <<consumed, url>>
    BY <1>1 DEF LockBootstrap
  <2>3. \A u \in Threads : thread[u].pc \notin {"consult", "consume", "refuse"}
    BY <2>2, ThreadsAssumption DEF IInv, Locked
  <2>4. TypeOK'
    BY <1>0, <2>1, <2>2, GotoMoves DEF IInv, TypeOK
  <2>5. Locked'
    BY <1>0, <2>1, <2>2, <2>3, GotoMoves DEF IInv, Locked
  <2>6. Bootstrap'
    BY <1>0, <2>1, <2>2, GotoMoves DEF IInv, Bootstrap
  <2>7. Ids'
    BY <1>0, <2>1, GotoMoves DEF IInv, Ids
  <2>8. Credentials'
    BY <1>0, <2>1, GotoMoves DEF IInv, Credentials
  <2> QED BY <2>4, <2>5, <2>6, <2>7, <2>8 DEF IInv
<1>2. CASE ConsultBootstrap(t)
  <2>1. PICK where \in {"refuse", "consume"} :
          Goto(t, where) /\ (where = "consume" => ~consumed /\ ~Expired)
    BY <1>2 DEF ConsultBootstrap
  <2>2. bootLock = t /\ bootLock' = t
    BY <1>2 DEF ConsultBootstrap, IInv, Locked
  <2>3. where \in Pcs /\ where # "free"
    BY DEF Pcs
  <2>4. \/ Expired /\ consumed' = TRUE /\ url' = FALSE
        \/ ~Expired /\ UNCHANGED <<consumed, url>>
    BY <1>2 DEF ConsultBootstrap
  <2>5. \A u \in Threads : u # t => thread[u].pc \notin {"consult", "consume", "refuse"}
    BY <2>2 DEF IInv, Locked
  <2>6. TypeOK'
    BY <1>0, <2>1, <2>2, <2>3, <2>4, GotoMoves DEF IInv, TypeOK
  <2>7. Locked'
    BY <1>0, <2>1, <2>2, <2>3, GotoMoves DEF IInv, Locked
  <2>8. Bootstrap'
    BY <1>0, <2>1, <2>3, <2>4, <2>5, GotoMoves DEF IInv, Bootstrap
  <2>9. Ids'
    BY <1>0, <2>1, <2>3, GotoMoves DEF IInv, Ids
  <2>10. Credentials'
    BY <1>0, <2>1, <2>3, GotoMoves DEF IInv, Credentials
  <2> QED BY <2>6, <2>7, <2>8, <2>9, <2>10 DEF IInv
<1>3. CASE ConsumeBootstrap(t)
  <2>1. Goto(t, "grant") /\ "grant" \in Pcs /\ thread[t].pc = "consume"
    BY <1>3 DEF ConsumeBootstrap, Pcs
  <2>2. consumed' = TRUE /\ url' = FALSE /\ bootLock' = NoThread
    BY <1>3 DEF ConsumeBootstrap
  <2>3. bootLock = t /\ ~consumed
    BY <2>1 DEF IInv, Locked, Bootstrap
  <2>4. \A u \in Threads : u # t =>
          thread[u].pc \notin {"consult", "consume", "refuse", "grant"}
    BY <2>3 DEF IInv, Locked, Bootstrap
  <2>5. TypeOK'
    BY <1>0, <2>1, <2>2, GotoMoves DEF IInv, TypeOK
  <2>6. Locked'
    BY <1>0, <2>1, <2>4, GotoMoves DEF IInv, Locked
  <2>7. Bootstrap'
    BY <1>0, <2>1, <2>2, <2>3, <2>4, GotoMoves DEF IInv, Bootstrap
  <2>8. Ids'
    BY <1>0, <2>1, GotoMoves DEF IInv, Ids
  <2>9. Credentials'
    BY <1>0, <2>1, GotoMoves DEF IInv, Credentials
  <2> QED BY <2>5, <2>6, <2>7, <2>8, <2>9 DEF IInv
<1>4. CASE RefuseBootstrap(t)
  <2>1. Goto(t, "free") /\ "free" \in Pcs /\ thread[t].pc = "refuse"
    BY <1>4 DEF RefuseBootstrap, Pcs
  <2>2. bootLock' = NoThread /\ UNCHANGED <<consumed, url>>
    BY <1>4 DEF RefuseBootstrap
  <2>3. \A u \in Threads : u # t => thread[u].pc \notin {"consult", "consume", "refuse"}
    BY <2>1 DEF IInv, Locked
  <2>4. TypeOK'
    BY <1>0, <2>1, <2>2, GotoMoves DEF IInv, TypeOK
  <2>5. Locked'
    BY <1>0, <2>1, <2>3, GotoMoves DEF IInv, Locked
  <2>6. Bootstrap'
    BY <1>0, <2>1, <2>2, GotoMoves DEF IInv, Bootstrap
  <2>7. Ids'
    BY <1>0, <2>1, GotoMoves DEF IInv, Ids
  <2>8. Credentials'
    BY <1>0, <2>1, GotoMoves DEF IInv, Credentials
  <2> QED BY <2>4, <2>5, <2>6, <2>7, <2>8 DEF IInv
<1> QED BY <1>1, <1>2, <1>3, <1>4

(* The grant: once granted, this life never is again. *)
LEMMA GrantKeeps == ASSUME NEW t \in Threads, IInv, GrantSession(t) PROVE IInv'
<1> USE DEF shared
<1>1. Goto(t, "free") /\ "free" \in Pcs /\ thread[t].pc = "grant"
  BY DEF GrantSession, Pcs
<1>2. /\ UNCHANGED <<life, age, consumed, url, bootLock, idLock, seen, done, requests>>
      /\ granted' = granted \cup {life}
      /\ \/ cookies' = cookies \cup {life} /\ tokens' = tokens \cup {life}
         \/ UNCHANGED <<cookies, tokens>>
  BY DEF GrantSession
<1>3. \A u \in Threads : u # t => thread[u].pc # "grant"
  BY <1>1 DEF IInv, Bootstrap
<1>4. consumed
  BY <1>1 DEF IInv, Bootstrap
<1>5. TypeOK'
  <2>1. cookies' \subseteq Lives /\ tokens' \subseteq Lives /\ granted' \subseteq Lives
    BY <1>2 DEF IInv, TypeOK
  <2> QED BY <1>1, <1>2, <2>1, GotoMoves DEF IInv, TypeOK
<1>6. Locked'
  BY <1>1, <1>2, GotoMoves DEF IInv, Locked
<1>7. Bootstrap'
  BY <1>1, <1>2, <1>3, <1>4, GotoMoves DEF IInv, Bootstrap
<1>8. Ids'
  BY <1>1, <1>2, GotoMoves DEF IInv, Ids
<1>9. Credentials'
  <2>1. life \in Nat
    BY BoundsAssumption DEF IInv, TypeOK, Lives
  <2>2. \A l \in granted' : l <= life'
    BY <1>2, <2>1 DEF IInv, Credentials
  <2> QED BY <1>1, <1>2, <2>2, GotoMoves DEF IInv, Credentials
<1> QED BY <1>5, <1>6, <1>7, <1>8, <1>9 DEF IInv

(* Under mutation_request_ids_lock: an id that is added was not there, and   *)
(* nobody else can add it before.                                            *)
LEMMA IdsKeep ==
  ASSUME NEW t \in Threads, IInv,
         LockIds(t) \/ LookForId(t) \/ AddId(t) \/ RefuseDuplicate(t)
  PROVE  IInv'
<1> USE DEF client, shared
<1>0. UNCHANGED <<life, age, consumed, url, bootLock, cookies, tokens, granted, done, requests>>
  BY DEF LockIds, LookForId, AddId, RefuseDuplicate
<1>1. CASE LockIds(t)
  <2>1. Goto(t, "look") /\ "look" \in Pcs /\ thread[t].pc = "id"
    BY <1>1 DEF LockIds, Pcs
  <2>2. idLock = NoThread /\ idLock' = t /\ UNCHANGED seen
    BY <1>1 DEF LockIds
  <2>3. \A u \in Threads : thread[u].pc \notin {"look", "add", "conflict"}
    BY <2>2, ThreadsAssumption DEF IInv, Locked
  <2>4. TypeOK'
    BY <1>0, <2>1, <2>2, GotoMoves DEF IInv, TypeOK
  <2>5. Locked'
    BY <1>0, <2>1, <2>2, <2>3, GotoMoves DEF IInv, Locked
  <2>6. Bootstrap'
    BY <1>0, <2>1, GotoMoves DEF IInv, Bootstrap
  <2>7. Ids'
    BY <1>0, <2>1, <2>2, GotoMoves DEF IInv, Ids
  <2>8. Credentials'
    BY <1>0, <2>1, GotoMoves DEF IInv, Credentials
  <2> QED BY <2>4, <2>5, <2>6, <2>7, <2>8 DEF IInv
<1>2. CASE LookForId(t)
  <2>1. PICK where \in {"conflict", "add"} :
          Goto(t, where) /\ (where = "add" => thread[t].req.rid \notin seen)
    BY <1>2 DEF LookForId
  <2>2. where \in Pcs /\ where # "free" /\ thread[t].pc = "look"
    BY <1>2 DEF LookForId, Pcs
  <2>3. idLock = t /\ UNCHANGED <<idLock, seen>>
    BY <1>2, <2>2 DEF LookForId, IInv, Locked
  <2>4. TypeOK'
    BY <1>0, <2>1, <2>2, <2>3, GotoMoves DEF IInv, TypeOK
  <2>5. Locked'
    BY <1>0, <2>1, <2>2, <2>3, GotoMoves DEF IInv, Locked
  <2>6. Bootstrap'
    BY <1>0, <2>1, <2>2, GotoMoves DEF IInv, Bootstrap
  <2>7. Ids'
    BY <1>0, <2>1, <2>2, <2>3, GotoMoves DEF IInv, Ids
  <2>8. Credentials'
    BY <1>0, <2>1, <2>2, GotoMoves DEF IInv, Credentials
  <2> QED BY <2>4, <2>5, <2>6, <2>7, <2>8 DEF IInv
<1>3. CASE AddId(t)
  <2>1. Goto(t, "execute") /\ "execute" \in Pcs /\ thread[t].pc = "add"
    BY <1>3 DEF AddId, Pcs
  <2>2. seen' = seen \cup {thread[t].req.rid} /\ idLock' = NoThread
    BY <1>3 DEF AddId
  <2>3. idLock = t /\ thread[t].req.rid \notin seen
    BY <2>1 DEF IInv, Locked, Ids
  <2>4. \A u \in Threads : u # t => thread[u].pc \notin {"look", "add", "conflict"}
    BY <2>3 DEF IInv, Locked
  <2>5. thread[t].req.rid \in RequestIds
    BY DEF IInv, TypeOK, Request
  <2>6. <<life, thread[t].req.rid>> \notin done
    BY <2>3, <2>5 DEF IInv, Ids
  <2>7. TypeOK'
    <3>1. seen' \subseteq RequestIds
      BY <2>2, <2>5 DEF IInv, TypeOK
    <3> QED BY <1>0, <2>1, <2>2, <3>1, GotoMoves DEF IInv, TypeOK
  <2>8. Locked'
    BY <1>0, <2>1, <2>4, GotoMoves DEF IInv, Locked
  <2>9. Bootstrap'
    BY <1>0, <2>1, GotoMoves DEF IInv, Bootstrap
  <2>10. Ids'
    BY <1>0, <2>1, <2>2, <2>3, <2>4, <2>6, GotoMoves DEF IInv, Ids
  <2>11. Credentials'
    BY <1>0, <2>1, GotoMoves DEF IInv, Credentials
  <2> QED BY <2>7, <2>8, <2>9, <2>10, <2>11 DEF IInv
<1>4. CASE RefuseDuplicate(t)
  <2>1. Goto(t, "free") /\ "free" \in Pcs /\ thread[t].pc = "conflict"
    BY <1>4 DEF RefuseDuplicate, Pcs
  <2>2. idLock' = NoThread /\ UNCHANGED seen
    BY <1>4 DEF RefuseDuplicate
  <2>3. \A u \in Threads : u # t => thread[u].pc \notin {"look", "add", "conflict"}
    BY <2>1 DEF IInv, Locked
  <2>4. TypeOK'
    BY <1>0, <2>1, <2>2, GotoMoves DEF IInv, TypeOK
  <2>5. Locked'
    BY <1>0, <2>1, <2>3, GotoMoves DEF IInv, Locked
  <2>6. Bootstrap'
    BY <1>0, <2>1, GotoMoves DEF IInv, Bootstrap
  <2>7. Ids'
    BY <1>0, <2>1, <2>2, GotoMoves DEF IInv, Ids
  <2>8. Credentials'
    BY <1>0, <2>1, GotoMoves DEF IInv, Credentials
  <2> QED BY <2>4, <2>5, <2>6, <2>7, <2>8 DEF IInv
<1> QED BY <1>1, <1>2, <1>3, <1>4

(* The write: of an id that nobody else executes. *)
LEMMA ExecuteKeeps == ASSUME NEW t \in Threads, IInv, Execute(t) PROVE IInv'
<1> USE DEF shared
<1> DEFINE rid == thread[t].req.rid
<1>1. Goto(t, "free") /\ "free" \in Pcs /\ thread[t].pc = "execute"
  BY DEF Execute, Pcs
<1>2. /\ UNCHANGED <<life, age, consumed, url, bootLock, idLock, seen, cookies, tokens,
                     granted, requests>>
      /\ done' = done \cup {<<life, rid>>} \/ UNCHANGED done
  BY DEF Execute
<1>3. \A u \in Threads : u # t /\ thread[u].pc = "execute" => thread[u].req.rid # rid
  BY <1>1 DEF IInv, Ids
<1>4. rid \in RequestIds /\ rid \in seen /\ life \in granted
  BY <1>1 DEF IInv, TypeOK, Request, Ids, Credentials
<1>5. TypeOK'
  <2>1. done' \subseteq Lives \X RequestIds
    BY <1>2, <1>4 DEF IInv, TypeOK
  <2> QED BY <1>1, <1>2, <2>1, GotoMoves DEF IInv, TypeOK
<1>6. Locked'
  BY <1>1, <1>2, GotoMoves DEF IInv, Locked
<1>7. Bootstrap'
  BY <1>1, <1>2, GotoMoves DEF IInv, Bootstrap
<1>8. Ids'
  <2>1. \A u \in Threads : thread'[u].pc = "execute" =>
          <<life, thread'[u].req.rid>> \notin done'
    BY <1>1, <1>2, <1>3, GotoMoves DEF IInv, Ids
  <2> QED BY <1>1, <1>2, <1>4, <2>1, GotoMoves DEF IInv, Ids
<1>9. Credentials'
  <2>1. life <= life
    BY BoundsAssumption DEF IInv, TypeOK, Lives
  <2>2. \A w \in done' : w[1] <= life' /\ w[1] \in granted'
    BY <1>2, <1>4, <2>1 DEF IInv, Credentials
  <2> QED BY <1>1, <1>2, <2>2, GotoMoves DEF IInv, Credentials
<1> QED BY <1>5, <1>6, <1>7, <1>8, <1>9 DEF IInv

LEMMA NextKeeps == IInv /\ [Next]_vars => IInv'
<1> SUFFICES ASSUME IInv, [Next]_vars PROVE IInv'
  OBVIOUS
<1>1. CASE Tick
  BY <1>1, TickKeeps
<1>2. CASE Restart
  BY <1>2, RestartKeeps
<1>3. CASE \E t \in Threads : Receive(t)
  BY <1>3, ReceiveKeeps
<1>4. CASE \E t \in Threads : Work(t)
  <2> PICK t \in Threads : Work(t)
    BY <1>4
  <2> QED BY BootstrapKeeps, GrantKeeps, IdsKeep, ExecuteKeeps DEF Work
<1>5. CASE UNCHANGED vars
  BY <1>5, Unchanged
<1> QED BY <1>1, <1>2, <1>3, <1>4, <1>5 DEF Next

LEMMA Invariance == Spec => []IInv
<1>1. Init => IInv
  BY Initially
<1>2. IInv /\ [Next]_vars => IInv'
  BY NextKeeps
<1> QED BY <1>1, <1>2, PTL DEF Spec

(***************************************************************************)
(* The theorems                                                             *)
(***************************************************************************)

(* The server's state and the threads keep their types. *)
THEOREM SessionTypes == Spec => []TypeOK
<1>1. IInv => TypeOK
  BY DEF IInv
<1> QED BY <1>1, Invariance, PTL

(* A bootstrap secret establishes at most one session: however many threads  *)
(* exchange it at once, one is granted, and the secret is retired by then.   *)
THEOREM OneSessionPerLife == Spec => []OneSession
<1>1. IInv => OneSession
  <2> SUFFICES ASSUME IInv PROVE OneSession
    OBVIOUS
  <2>1. \A t \in Threads : thread[t].pc = "grant" => consumed /\ ~url /\ life \notin granted
    BY DEF IInv, Bootstrap
  <2>2. \A t, u \in Threads : thread[t].pc = "grant" /\ u # t =>
          thread[u].pc \notin {"consume", "grant"}
    BY DEF IInv, Bootstrap
  <2> QED BY <2>1, <2>2 DEF OneSession
<1> QED BY <1>1, Invariance, PTL

(* A mutation request id executes at most one write in the life of a server, *)
(* with any number of threads that received it.                              *)
THEOREM IdsExecuteOnce == Spec => []ExecutedOnce
<1>1. IInv => ExecutedOnce
  BY DEF IInv, Ids, ExecutedOnce
<1> QED BY <1>1, Invariance, PTL

(* What was written was written with credentials of a life that granted them *)
(* in an exchange, and a thread past the gates has those of this very life.  *)
THEOREM WritesNeedCredentials == Spec => [](WritesHaveSession /\ WritersAreCurrent)
<1>1. IInv => WritesHaveSession /\ WritersAreCurrent
  BY DEF IInv, Credentials, WritesHaveSession, WritersAreCurrent
<1> QED BY <1>1, Invariance, PTL

(***************************************************************************)
(* The refinement: the server implements AtMostOnce                         *)
(***************************************************************************)

Granting == {t \in Threads : thread[t].pc = "grant"}
Writing == {thread[t].req.rid : t \in {u \in Threads : thread[u].pc = "execute"}}

(* What the promise sees of a step: a thread that moves elsewhere is unseen. *)
LEMMA Unseen ==
  ASSUME TypeOK, NEW t \in Threads, thread[t].pc \notin {"grant", "execute"},
         thread'[t].pc \notin {"grant", "execute"},
         \A u \in Threads : u # t => thread'[u] = thread[u]
  PROVE  UNCHANGED <<Granting, Writing>>
<1>1. Granting' = Granting
  BY DEF Granting
<1>2. \A u \in Threads : thread'[u].pc = "execute" <=> thread[u].pc = "execute"
  OBVIOUS
<1>3. \A u \in Threads : thread[u].pc = "execute" => thread'[u] = thread[u]
  OBVIOUS
<1>4. Writing' = Writing
  BY <1>2, <1>3 DEF Writing
<1> QED BY <1>1, <1>4

(* A step that changes nothing the promise names is a stutter of it. *)
LEMMA Stutters ==
  UNCHANGED <<life, consumed, granted, seen, done, Granting, Writing>>
    => UNCHANGED Promise!vars
<1> SUFFICES ASSUME UNCHANGED <<life, consumed, granted, seen, done, Granting, Writing>>
             PROVE  UNCHANGED Promise!vars
  OBVIOUS
<1>1. (~consumed)' = ~consumed
  OBVIOUS
<1> QED BY <1>1, Zenon DEF Promise!vars, Granting, Writing

LEMMA PromiseInit == Init => Promise!Init
<1> SUFFICES ASSUME Init PROVE Promise!Init
  OBVIOUS
<1>1. Granting = {} /\ Writing = {}
  BY DEF Init, Free, Granting, Writing
<1> QED BY <1>1 DEF Init, Promise!Init, Granting, Writing

(* Under bootstrap_lock: looking may retire, consuming is the exchange. *)
LEMMA BootstrapSteps ==
  ASSUME NEW t \in Threads, IInv,
         LockBootstrap(t) \/ ConsultBootstrap(t) \/ ConsumeBootstrap(t) \/ RefuseBootstrap(t)
  PROVE  [Promise!Next]_(Promise!vars)
<1> USE DEF client
<1>0. UNCHANGED <<life, seen, granted, done>> /\ TypeOK
  BY DEF LockBootstrap, ConsultBootstrap, ConsumeBootstrap, RefuseBootstrap, IInv
<1>1. CASE LockBootstrap(t) \/ RefuseBootstrap(t)
  <2>1. PICK where \in {"consult", "free"} : Goto(t, where)
    BY <1>1 DEF LockBootstrap, RefuseBootstrap
  <2>2. thread[t].pc \in {"boot", "refuse"} /\ UNCHANGED consumed
    BY <1>1 DEF LockBootstrap, RefuseBootstrap
  <2>3. thread'[t].pc = where /\ \A u \in Threads : u # t => thread'[u] = thread[u]
    BY <1>0, <2>1, GotoMoves DEF Pcs
  <2>4. UNCHANGED <<Granting, Writing>>
    BY <1>0, <2>1, <2>2, <2>3, Unseen
  <2> QED BY <1>0, <2>2, <2>4, Stutters
<1>2. CASE ConsultBootstrap(t)
  <2>1. PICK where \in {"refuse", "consume"} : Goto(t, where)
    BY <1>2 DEF ConsultBootstrap
  <2>2. thread'[t].pc = where /\ \A u \in Threads : u # t => thread'[u] = thread[u]
    BY <1>0, <2>1, GotoMoves DEF Pcs
  <2>3. UNCHANGED <<Granting, Writing>>
    BY <1>0, <1>2, <2>1, <2>2, Unseen DEF ConsultBootstrap
  <2>4. CASE Expired
    <3>1. consumed' = TRUE
      BY <1>2, <2>4 DEF ConsultBootstrap
    <3>2. Promise!Retire
      BY <1>0, <2>3, <3>1 DEF Promise!Retire, Granting, Writing
    <3> QED BY <3>2 DEF Promise!Next
  <2>5. CASE ~Expired
    <3>1. UNCHANGED consumed
      BY <1>2, <2>5 DEF ConsultBootstrap
    <3> QED BY <1>0, <2>3, <3>1, Stutters
  <2> QED BY <2>4, <2>5
<1>3. CASE ConsumeBootstrap(t)
  <2>1. Goto(t, "grant") /\ thread[t].pc = "consume" /\ consumed' = TRUE
    BY <1>3 DEF ConsumeBootstrap
  <2>2. thread'[t].pc = "grant" /\ \A u \in Threads : u # t => thread'[u] = thread[u]
    BY <1>0, <2>1, GotoMoves DEF Pcs
  <2>3. consumed = FALSE
    BY <1>0, <2>1 DEF IInv, Bootstrap, TypeOK
  <2>4. Granting = {} /\ Granting' = {t}
    BY <2>1, <2>2, <2>3 DEF Granting, IInv, Bootstrap
  <2>5. Writing' = Writing
    <3>1. \A u \in Threads : thread'[u].pc = "execute" <=> thread[u].pc = "execute"
      BY <2>1, <2>2
    <3>2. \A u \in Threads : thread[u].pc = "execute" => thread'[u] = thread[u]
      BY <2>1, <2>2
    <3> QED BY <3>1, <3>2 DEF Writing
  <2>6. Promise!Exchange(t)
    BY <1>0, <2>1, <2>3, <2>4, <2>5 DEF Promise!Exchange, Granting, Writing
  <2> QED BY <2>6 DEF Promise!Next
<1> QED BY <1>1, <1>2, <1>3

(* The reply with the session, to the one thread that exchanged. *)
LEMMA GrantSteps ==
  ASSUME NEW t \in Threads, IInv, GrantSession(t) PROVE Promise!Grant(t)
<1>1. Goto(t, "free") /\ thread[t].pc = "grant" /\ TypeOK /\ granted' = granted \cup {life}
  BY DEF GrantSession, IInv
<1>2. UNCHANGED <<life, consumed, seen, done>>
  BY DEF GrantSession, shared
<1>3. thread'[t].pc = "free" /\ \A u \in Threads : u # t => thread'[u] = thread[u]
  BY <1>1, GotoMoves DEF Pcs
<1>4. life \notin granted /\ \A u \in Threads : thread[u].pc = "grant" => u = t
  BY <1>1 DEF IInv, Bootstrap
<1>5. Granting = {t} /\ Granting' = {}
  BY <1>1, <1>3, <1>4 DEF Granting
<1>6. Writing' = Writing
  <2>1. \A u \in Threads : thread'[u].pc = "execute" <=> thread[u].pc = "execute"
    BY <1>1, <1>3
  <2>2. \A u \in Threads : thread[u].pc = "execute" => thread'[u] = thread[u]
    BY <1>1, <1>3
  <2> QED BY <2>1, <2>2 DEF Writing
<1> QED BY <1>1, <1>2, <1>4, <1>5, <1>6 DEF Promise!Grant, Granting, Writing

(* Under mutation_request_ids_lock: adding the id is the claim. *)
LEMMA IdSteps ==
  ASSUME NEW t \in Threads, IInv,
         LockIds(t) \/ LookForId(t) \/ AddId(t) \/ RefuseDuplicate(t)
  PROVE  [Promise!Next]_(Promise!vars)
<1> USE DEF client, shared
<1>0. UNCHANGED <<life, consumed, granted, done>> /\ TypeOK
  BY DEF LockIds, LookForId, AddId, RefuseDuplicate, IInv
<1>1. CASE LockIds(t) \/ LookForId(t) \/ RefuseDuplicate(t)
  <2>1. PICK where \in {"look", "conflict", "add", "free"} : Goto(t, where)
    BY <1>1 DEF LockIds, LookForId, RefuseDuplicate
  <2>2. thread[t].pc \in {"id", "look", "conflict"} /\ UNCHANGED seen
    BY <1>1 DEF LockIds, LookForId, RefuseDuplicate
  <2>3. thread'[t].pc = where /\ \A u \in Threads : u # t => thread'[u] = thread[u]
    BY <1>0, <2>1, GotoMoves DEF Pcs
  <2>4. UNCHANGED <<Granting, Writing>>
    BY <1>0, <2>1, <2>2, <2>3, Unseen
  <2> QED BY <1>0, <2>2, <2>4, Stutters
<1>2. CASE AddId(t)
  <2> DEFINE rid == thread[t].req.rid
  <2>1. Goto(t, "execute") /\ thread[t].pc = "add" /\ seen' = seen \cup {rid}
    BY <1>2 DEF AddId
  <2>2. /\ thread'[t].pc = "execute" /\ thread'[t].req = thread[t].req
        /\ \A u \in Threads : u # t => thread'[u] = thread[u]
    BY <1>0, <2>1, GotoMoves DEF Pcs
  <2>3. rid \notin seen /\ life \in granted /\ rid \in RequestIds
    BY <1>0, <2>1 DEF IInv, Ids, Credentials, TypeOK, Request
  <2>4. Granting' = Granting
    BY <2>1, <2>2 DEF Granting
  <2>5. Writing' = Writing \cup {rid}
    <3>1. \A u \in Threads : thread'[u].pc = "execute" <=> thread[u].pc = "execute" \/ u = t
      BY <2>1, <2>2
    <3>2. \A u \in Threads : thread'[u].req.rid = thread[u].req.rid
      BY <2>2
    <3> QED BY <3>1, <3>2 DEF Writing
  <2>6. PICK i \in RequestIds : i = rid
    BY <2>3
  <2>7. Promise!Claim(i)
    BY <1>0, <2>1, <2>3, <2>4, <2>5, <2>6 DEF Promise!Claim, Granting, Writing
  <2> QED BY <2>7 DEF Promise!Next
<1> QED BY <1>1, <1>2

(* The write finishes what was claimed under its id. *)
LEMMA ExecuteSteps ==
  ASSUME NEW t \in Threads, IInv, Execute(t), NEW rid \in RequestIds, rid = thread[t].req.rid
  PROVE  Promise!Finish(rid)
<1>1. Goto(t, "free") /\ thread[t].pc = "execute" /\ TypeOK
  BY DEF Execute, IInv
<1>2. /\ UNCHANGED <<life, consumed, granted, seen>>
      /\ done' = done \cup {<<life, rid>>} \/ UNCHANGED done
  BY DEF Execute, shared
<1>3. thread'[t].pc = "free" /\ \A u \in Threads : u # t => thread'[u] = thread[u]
  BY <1>1, GotoMoves DEF Pcs
<1>4. /\ <<life, rid>> \notin done
      /\ \A u \in Threads : u # t /\ thread[u].pc = "execute" => thread[u].req.rid # rid
  BY <1>1 DEF IInv, Ids
<1>5. Granting' = Granting
  BY <1>1, <1>3 DEF Granting
<1>6. rid \in Writing /\ Writing' = Writing \ {rid}
  <2>1. \A u \in Threads : thread'[u].pc = "execute" <=> thread[u].pc = "execute" /\ u # t
    BY <1>3
  <2>2. \A u \in Threads : u # t => thread'[u].req.rid = thread[u].req.rid
    BY <1>3
  <2> QED BY <1>1, <1>4, <2>1, <2>2 DEF Writing
<1> QED BY <1>2, <1>4, <1>5, <1>6 DEF Promise!Finish, Granting, Writing

(* A new life begins a new era. *)
LEMMA RestartSteps == Restart => Promise!Renew
<1> SUFFICES ASSUME Restart PROVE Promise!Renew
  OBVIOUS
<1>1. Granting' = {} /\ Writing' = {}
  BY DEF Restart, Free, Granting, Writing
<1> QED BY <1>1 DEF Restart, client, Promise!Renew, Granting, Writing

(* A request that comes in, and time that passes, promise nothing. *)
LEMMA ReceiveSteps ==
  ASSUME NEW t \in Threads, IInv, Receive(t) PROVE UNCHANGED Promise!vars
<1>1. TypeOK /\ thread[t].pc = "free" /\ UNCHANGED <<life, consumed, granted, seen, done>>
  BY DEF Receive, shared, IInv
<1>2. \/ UNCHANGED thread
      \/ \E r \in Request, where \in {"boot", "id"} :
           thread' = [thread EXCEPT ![t] = [pc |-> where, req |-> r]]
  BY DEF Receive
<1>3. UNCHANGED <<Granting, Writing>>
  <2>1. CASE UNCHANGED thread
    BY <2>1 DEF Granting, Writing
  <2>2. CASE \E r \in Request, where \in {"boot", "id"} :
               thread' = [thread EXCEPT ![t] = [pc |-> where, req |-> r]]
    <3>1. /\ thread'[t].pc \in {"boot", "id"}
          /\ \A u \in Threads : u # t => thread'[u] = thread[u]
      BY <1>1, <2>2 DEF TypeOK
    <3> QED BY <1>1, <3>1, Unseen
  <2> QED BY <1>2, <2>1, <2>2
<1> QED BY <1>1, <1>3, Stutters

LEMMA PromiseStep == IInv /\ [Next]_vars => [Promise!Next]_(Promise!vars)
<1> SUFFICES ASSUME IInv, [Next]_vars PROVE [Promise!Next]_(Promise!vars)
  OBVIOUS
<1>1. CASE Tick \/ UNCHANGED vars
  <2>1. UNCHANGED <<life, consumed, granted, seen, done, thread>>
    BY <1>1 DEF Tick, vars, shared, client
  <2>2. UNCHANGED <<Granting, Writing>>
    BY <2>1 DEF Granting, Writing
  <2> QED BY <2>1, <2>2, Stutters
<1>2. CASE Restart
  BY <1>2, RestartSteps DEF Promise!Next
<1>3. CASE \E t \in Threads : Receive(t)
  BY <1>3, ReceiveSteps
<1>4. CASE \E t \in Threads : Work(t)
  <2> PICK t \in Threads : Work(t)
    BY <1>4
  <2>1. CASE LockBootstrap(t) \/ ConsultBootstrap(t) \/ ConsumeBootstrap(t) \/ RefuseBootstrap(t)
    BY <2>1, BootstrapSteps
  <2>2. CASE GrantSession(t)
    BY <2>2, GrantSteps DEF Promise!Next
  <2>3. CASE LockIds(t) \/ LookForId(t) \/ AddId(t) \/ RefuseDuplicate(t)
    BY <2>3, IdSteps
  <2>4. CASE Execute(t)
    <3>1. PICK i \in RequestIds : i = thread[t].req.rid
      BY DEF IInv, TypeOK, Request
    <3>2. Promise!Finish(i)
      BY <2>4, <3>1, ExecuteSteps
    <3> QED BY <3>2 DEF Promise!Next
  <2> QED BY <2>1, <2>2, <2>3, <2>4 DEF Work
<1> QED BY <1>1, <1>2, <1>3, <1>4 DEF Next

(* ADR-0081, ADR-0106: the threads of the UI server, their two locks and its *)
(* restarts do what AtMostOnce allows and nothing else: one exchange and one *)
(* session per life, and every request id claimed and finished at most once. *)
THEOREM ServerKeepsPromise == Spec => UsesOnce
<1>1. Init => Promise!Init
  BY PromiseInit
<1>2. IInv /\ [Next]_vars => [Promise!Next]_(Promise!vars)
  BY PromiseStep
<1> QED BY <1>1, <1>2, Invariance, PTL DEF Spec, UsesOnce, Promise!Spec

----------------------------------------------------------------------------
(* The review pages and the write route                                      *)

Said == Identities \cup {"none"}

(* Writing is enabled where nothing blocks it *)
LEMMA EnabledIsUnblocked ==
  ASSUME NEW m, MutationEnabled(m)
  PROVE  BoundaryBlockers(m) = {} /\ "auth" \in m /\ "authorization" \in m
<1>1. "auth" \in m /\ "authorization" \in m /\ "capability" \in m /\ "enable" \in m
  BY DEF MutationEnabled, Flags
<1>. QED  BY <1>1 DEF BoundaryBlockers

(* A row can be reviewed now if its last reviewer is aligned with the boundary *)
LEMMA NoWarningIsAligned ==
  ASSUME NEW m, NEW who \in Said, Warnings(m, who) = {}
  PROVE  who # "none" /\ "auth" \in m /\ Assurance(m, who) = "boundary_aligned"
<1>1. "auth" \in m  BY DEF Warnings
<1>2. who # "none"  BY DEF Warnings
<1>. QED  BY <1>1, <1>2 DEF Assurance

(* The steps a page can announce for a row that is in the queue *)
LEMMA StepOfPending ==
  ASSUME NEW m, NEW row, row.pending = TRUE, row.identity \in Said
  PROVE  /\ Warnings(m, row.identity) = {} =>
              /\ CanReviewNow(m, row) /\ AuthNotice(m, row) = "boundary_aligned"
              /\ ReviewStep(m, row) = IF MutationEnabled(m) THEN "enabled" ELSE "preview_only"
              /\ ApplyPrerequisites(m, row) = IF MutationEnabled(m) THEN "ready" ELSE "preview_only"
         /\ Warnings(m, row.identity) # {} =>
              /\ ReviewStep(m, row) = "advisory_only" /\ ApplyPrerequisites(m, row) = "boundary_blocked"
<1>1. CASE Warnings(m, row.identity) = {}
  <2>1. CanReviewNow(m, row)  BY <1>1 DEF CanReviewNow
  <2>2. Capability(m, row) = "ready"  BY <2>1 DEF Capability
  <2>3. Assurance(m, row.identity) = "boundary_aligned"  BY <1>1, NoWarningIsAligned
  <2>4. AuthNotice(m, row) = "boundary_aligned"  BY <1>1, <2>3 DEF AuthNotice
  <2>5. ReviewStep(m, row) = IF MutationEnabled(m) THEN "enabled" ELSE "preview_only"
    BY <2>2, <2>4 DEF ReviewStep
  <2>6. ApplyPrerequisites(m, row) = IF MutationEnabled(m) THEN "ready" ELSE "preview_only"
    BY <2>1, <2>2 DEF ApplyPrerequisites
  <2>. QED  BY <1>1, <2>1, <2>4, <2>5, <2>6
<1>2. CASE Warnings(m, row.identity) # {}
  <2>1. ~CanReviewNow(m, row)  BY <1>2 DEF CanReviewNow
  <2>2. Capability(m, row) = "advisory_only"  BY <2>1 DEF Capability
  <2>3. AuthNotice(m, row) = "advisory_only"  BY <1>2 DEF AuthNotice
  <2>4. ReviewStep(m, row) = "advisory_only"  BY <2>2, <2>3 DEF ReviewStep
  <2>5. ApplyPrerequisites(m, row) = "boundary_blocked"  BY <2>1, <2>2 DEF ApplyPrerequisites
  <2>. QED  BY <1>2, <2>4, <2>5
<1>. QED  BY <1>1, <1>2

(* Whatever the mode and the row: the panels of one page say the same *)
LEMMA PanelsOfAPage ==
  ASSUME browser.row.identity \in Said, browser.row.pending \in BOOLEAN
  PROVE  PanelsAgree
<1> DEFINE row == browser.row
<1>. SUFFICES ASSUME HasPage PROVE
       /\ ApplyPrerequisites(mode, row) =
            CASE ReviewStep(mode, row) = "enabled" -> "ready"
              [] ReviewStep(mode, row) = "advisory_only" -> "boundary_blocked"
              [] OTHER -> ReviewStep(mode, row)
       /\ ReviewStep(mode, row) = "enabled" =>
            /\ IdentitySufficient(mode, row)
            /\ \/ EnablementReady(mode, browser.again, browser.othersWarn)
               \/ browser.again # row
               \/ browser.othersWarn
  BY DEF PanelsAgree
<1>1. row.pending = TRUE  BY DEF HasPage
<1> HIDE DEF row
<1>2. CASE Warnings(mode, row.identity) = {}
  <2>0. row.identity \in Said  BY DEF row
  <2>1. /\ ReviewStep(mode, row) = IF MutationEnabled(mode) THEN "enabled" ELSE "preview_only"
        /\ ApplyPrerequisites(mode, row) = IF MutationEnabled(mode) THEN "ready" ELSE "preview_only"
        /\ AuthNotice(mode, row) = "boundary_aligned"
    BY <1>1, <1>2, <2>0, StepOfPending
  <2>2. IdentitySufficient(mode, row)
    BY <1>2, <2>0, <2>1, NoWarningIsAligned DEF IdentitySufficient
  <2>3. MutationEnabled(mode) => EnablementReady(mode, row, FALSE)
    BY <1>2, EnabledIsUnblocked DEF EnablementReady, Counted
  <2>4. EnablementReady(mode, row, FALSE) /\ browser.again = row /\ ~browser.othersWarn
          => EnablementReady(mode, browser.again, browser.othersWarn)
    BY DEF EnablementReady
  <2>. QED  BY <2>1, <2>2, <2>3, <2>4
<1>3. CASE Warnings(mode, row.identity) # {}
  <2>0. row.identity \in Said  BY DEF row
  <2>1. ReviewStep(mode, row) = "advisory_only" /\ ApplyPrerequisites(mode, row) = "boundary_blocked"
    BY <1>1, <1>3, <2>0, StepOfPending
  <2>. QED  BY <2>1
<1>. QED  BY <1>2, <1>3

----------------------------------------------------------------------------
(* The checks of a request *)

Good(r, f) == r[f] = "good"

(* Every field of a request is good or has one of its flaws *)
LEMMA RequestFields ==
  ASSUME NEW r \in Requests
  PROVE  /\ DOMAIN r = {"token", "body", "session_id", "request_id", "reviewer_label",
                        "session_label", "ui_intent", "reviewer_kind", "target"}
         /\ r.token \in {"good", "bad", "not ASCII"} /\ r.body \in {"good", "no JSON", "no object"}
         /\ r.session_id \in {"good", "bad", "not ASCII"} /\ r.request_id \in {"good", "missing", "bad", "used"}
         /\ r.reviewer_label \in {"good", "missing", "bad"} /\ r.session_label \in {"good", "missing", "bad"}
         /\ r.ui_intent \in {"good", "missing", "bad"}
         /\ r.reviewer_kind \in {"good", "missing", "bad", "user_declared"}
         /\ r.target \in {"good", "unknown"}
<1>1. /\ DOMAIN Wrong = {"token", "body", "session_id", "request_id", "reviewer_label",
                         "session_label", "ui_intent", "reviewer_kind", "target"}
      /\ Wrong["token"] = {"bad", "not ASCII"} /\ Wrong["body"] = {"no JSON", "no object"}
      /\ Wrong["session_id"] = {"bad", "not ASCII"} /\ Wrong["request_id"] = {"missing", "bad", "used"}
      /\ Wrong["reviewer_label"] = {"missing", "bad"} /\ Wrong["session_label"] = {"missing", "bad"}
      /\ Wrong["ui_intent"] = {"missing", "bad"} /\ Wrong["reviewer_kind"] = {"missing", "bad", "user_declared"}
      /\ Wrong["target"] = {"unknown"}
  BY DEF Wrong
<1>2. DOMAIN r = DOMAIN Wrong /\ \A f \in DOMAIN Wrong : r[f] \in {"good"} \cup Wrong[f]
  <2>1. CASE r = Flawless  BY <2>1 DEF Flawless
  <2>2. ASSUME NEW f \in DOMAIN Wrong, NEW how \in Wrong[f], r = [Flawless EXCEPT ![f] = how]
        PROVE  DOMAIN r = DOMAIN Wrong /\ \A g \in DOMAIN Wrong : r[g] \in {"good"} \cup Wrong[g]
    BY <2>2 DEF Flawless
  <2>3. r = Flawless \/ \E f \in DOMAIN Wrong : \E how \in Wrong[f] : r = [Flawless EXCEPT ![f] = how]
    BY DEF Requests
  <2>. QED  BY <2>1, <2>2, <2>3
<1>. QED  BY <1>1, <1>2

(* The identity a request names, under the mode that writes *)
LEMMA IdentityIsFit ==
  ASSUME NEW r \in Requests, MutationEnabled(mode)
  PROVE  Warnings(mode, Identity(r)) = {} /\ Assurance(mode, Identity(r)) = "boundary_aligned"
           <=> Identity(r) = "local_operator in session"
<1>1. "auth" \in mode /\ "authorization" \in mode  BY EnabledIsUnblocked
<1>2. Identity(r) \in Identities  BY DEF Identity, Identities
<1>3. CASE Identity(r) = "user_declared"
  <2>1. "reviewer_identity_declared_only" \in Warnings(mode, Identity(r))  BY <1>3 DEF Warnings
  <2>. QED  BY <1>3, <2>1
<1>4. CASE Identity(r) = "local_operator"
  <2>1. "reviewer_session_label_missing" \in Warnings(mode, Identity(r))
    BY <1>1, <1>4 DEF Warnings, SessionGating
  <2>. QED  BY <1>4, <2>1
<1>5. CASE Identity(r) = "local_operator in session"
  BY <1>1, <1>5 DEF Warnings, Assurance
<1>. QED  BY <1>2, <1>3, <1>4, <1>5 DEF Identities

(* The statuses of the checks that answer *)
Refused(status) == status \in {400, 403, 404, 409}

(* The codes that are answered, in the order of the checks *)
Codes ==
  <<"mutation_disabled", "no answer", "invalid_mutation_token", "invalid_request_body", "invalid_json",
    "no answer", "invalid_mutation_session", "mutation_request_id_required", "invalid_mutation_request_id",
    "duplicate_mutation_request", "reviewer_label_required", "invalid_reviewer_label",
    "session_label_required", "invalid_session_label", "ui_intent_mismatch",
    "invalid_reviewer_kind", "authorization_failed", "review_target_not_found", "review_not_pending">>

(* What is answered at each of them *)
LEMMA CodesAre ==
  ASSUME NEW i \in 1 .. 19
  PROVE  /\ Codes[i] \in {"invalid_request_body", "no answer"} \cup GateErrors
         /\ Codes[i] = "no answer" <=> i = 2 \/ i = 6
         /\ Codes[i] = "mutation_disabled" <=> i = 1
         /\ Codes[i] = "review_not_pending" <=> i = 19
<1>1. /\ Codes[1] = "mutation_disabled" /\ Codes[2] = "no answer"
      /\ Codes[3] = "invalid_mutation_token" /\ Codes[4] = "invalid_request_body"
      /\ Codes[5] = "invalid_json" /\ Codes[6] = "no answer"
      /\ Codes[7] = "invalid_mutation_session" /\ Codes[8] = "mutation_request_id_required"
      /\ Codes[9] = "invalid_mutation_request_id" /\ Codes[10] = "duplicate_mutation_request"
      /\ Codes[11] = "reviewer_label_required" /\ Codes[12] = "invalid_reviewer_label"
      /\ Codes[13] = "session_label_required" /\ Codes[14] = "invalid_session_label"
      /\ Codes[15] = "ui_intent_mismatch" /\ Codes[16] = "invalid_reviewer_kind"
      /\ Codes[17] = "authorization_failed" /\ Codes[18] = "review_target_not_found"
      /\ Codes[19] = "review_not_pending"
  BY DEF Codes
<1>2. \/ i = 1 \/ i = 2 \/ i = 3 \/ i = 4 \/ i = 5 \/ i = 6 \/ i = 7 \/ i = 8 \/ i = 9 \/ i = 10
      \/ i = 11 \/ i = 12 \/ i = 13 \/ i = 14 \/ i = 15 \/ i = 16 \/ i = 17 \/ i = 18 \/ i = 19
  OBVIOUS
<1>3. Codes[i] \in {"invalid_request_body", "no answer"} \cup GateErrors
  BY <1>1, <1>2 DEF GateErrors
<1>4. Codes[i] = "no answer" <=> i = 2 \/ i = 6  BY <1>1, <1>2
<1>5. Codes[i] = "mutation_disabled" <=> i = 1  BY <1>1, <1>2
<1>6. Codes[i] = "review_not_pending" <=> i = 19  BY <1>1, <1>2
<1>. QED  BY <1>3, <1>4, <1>5, <1>6

(* The checks have these codes and their answers *)
LEMMA ChecksAre ==
  ASSUME NEW m, NEW r, NEW row
  PROVE  /\ DOMAIN Checks(m, r, row) = 1 .. 19
         /\ \A i \in 1 .. 19 : Checks(m, r, row)[i][2] = Codes[i]
         /\ \A i \in 1 .. 19 : i = 2 \/ i = 6 \/ Refused(Checks(m, r, row)[i][3])
<1>1. DOMAIN Checks(m, r, row) = 1 .. 19  BY DEF Checks
<1>2. \A i \in 1 .. 19 : i = 1 \/ i = 2 \/ i = 3 \/ i = 4 \/ i = 5 \/ i = 6 \/ i = 7 \/ i = 8 \/ i = 9
        \/ i = 10 \/ i = 11 \/ i = 12 \/ i = 13 \/ i = 14 \/ i = 15 \/ i = 16 \/ i = 17 \/ i = 18 \/ i = 19
  OBVIOUS
<1>. QED  BY <1>1, <1>2 DEF Checks, Codes, Refused

(* What each of them looks at *)
LEMMA WhatIsChecked ==
  ASSUME NEW m, NEW r, NEW row
  PROVE  /\ 1 \in Refusals(m, r, row) <=> ~MutationEnabled(m)
         /\ 2 \in Refusals(m, r, row) <=> r.token = "not ASCII"
         /\ 3 \in Refusals(m, r, row) <=> r.token = "bad"
         /\ 4 \in Refusals(m, r, row) <=> r.body = "no object"
         /\ 5 \in Refusals(m, r, row) <=> r.body = "no JSON"
         /\ 6 \in Refusals(m, r, row) <=> r.session_id = "not ASCII"
         /\ 7 \in Refusals(m, r, row) <=> r.session_id = "bad"
         /\ 8 \in Refusals(m, r, row) <=> r.request_id = "missing"
         /\ 9 \in Refusals(m, r, row) <=> r.request_id = "bad"
         /\ 10 \in Refusals(m, r, row) <=> r.request_id = "used"
         /\ 11 \in Refusals(m, r, row) <=> r.reviewer_label = "missing"
         /\ 12 \in Refusals(m, r, row) <=> r.reviewer_label = "bad"
         /\ 13 \in Refusals(m, r, row) <=> SessionGating(m) /\ r.session_label = "missing"
         /\ 14 \in Refusals(m, r, row) <=> r.session_label = "bad"
         /\ 15 \in Refusals(m, r, row) <=> r.ui_intent # "good"
         /\ 16 \in Refusals(m, r, row) <=> r.reviewer_kind = "bad"
         /\ 17 \in Refusals(m, r, row) <=>
              Warnings(m, Identity(r)) # {} \/ Assurance(m, Identity(r)) # "boundary_aligned"
         /\ 18 \in Refusals(m, r, row) <=> r.target = "unknown"
         /\ 19 \in Refusals(m, r, row) <=> ~row.pending
         /\ Refusals(m, r, row) \subseteq 1 .. 19
<1>1. DOMAIN Checks(m, r, row) = 1 .. 19  BY ChecksAre
<1>2. \A i \in 1 .. 19 : i \in Refusals(m, r, row) <=> Checks(m, r, row)[i][1]
  BY <1>1 DEF Refusals
<1>3. /\ Checks(m, r, row)[1][1] <=> ~MutationEnabled(m)
      /\ Checks(m, r, row)[2][1] <=> r.token = "not ASCII"
      /\ Checks(m, r, row)[3][1] <=> r.token = "bad"
      /\ Checks(m, r, row)[4][1] <=> r.body = "no object"
      /\ Checks(m, r, row)[5][1] <=> r.body = "no JSON"
      /\ Checks(m, r, row)[6][1] <=> r.session_id = "not ASCII"
      /\ Checks(m, r, row)[7][1] <=> r.session_id = "bad"
      /\ Checks(m, r, row)[8][1] <=> r.request_id = "missing"
      /\ Checks(m, r, row)[9][1] <=> r.request_id = "bad"
      /\ Checks(m, r, row)[10][1] <=> r.request_id = "used"
      /\ Checks(m, r, row)[11][1] <=> r.reviewer_label = "missing"
      /\ Checks(m, r, row)[12][1] <=> r.reviewer_label = "bad"
  BY DEF Checks
<1>4. /\ Checks(m, r, row)[13][1] <=> SessionGating(m) /\ r.session_label = "missing"
      /\ Checks(m, r, row)[14][1] <=> r.session_label = "bad"
      /\ Checks(m, r, row)[15][1] <=> r.ui_intent # "good"
      /\ Checks(m, r, row)[16][1] <=> r.reviewer_kind = "bad"
      /\ Checks(m, r, row)[17][1] <=>
           Warnings(m, Identity(r)) # {} \/ Assurance(m, Identity(r)) # "boundary_aligned"
      /\ Checks(m, r, row)[18][1] <=> r.target = "unknown"
      /\ Checks(m, r, row)[19][1] <=> ~row.pending
  BY DEF Checks
<1>5. Refusals(m, r, row) \subseteq 1 .. 19  BY <1>1 DEF Refusals
<1> DEFINE Passes(i) == i \in Refusals(m, r, row) <=> Checks(m, r, row)[i][1]
<1>6. /\ Passes(1) /\ Passes(2) /\ Passes(3) /\ Passes(4) /\ Passes(5) /\ Passes(6) /\ Passes(7) /\ Passes(8)
      /\ Passes(9) /\ Passes(10) /\ Passes(11) /\ Passes(12) /\ Passes(13) /\ Passes(14) /\ Passes(15)
      /\ Passes(16) /\ Passes(17) /\ Passes(18) /\ Passes(19)
  <2> HIDE DEF Passes
  <2>1. \A i \in 1 .. 19 : Passes(i)  BY <1>2 DEF Passes
  <2>. QED  BY <2>1
<1>7. /\ 1 \in Refusals(m, r, row) <=> ~MutationEnabled(m)
      /\ 2 \in Refusals(m, r, row) <=> r.token = "not ASCII"
      /\ 3 \in Refusals(m, r, row) <=> r.token = "bad"
      /\ 4 \in Refusals(m, r, row) <=> r.body = "no object"
      /\ 5 \in Refusals(m, r, row) <=> r.body = "no JSON"
      /\ 6 \in Refusals(m, r, row) <=> r.session_id = "not ASCII"
      /\ 7 \in Refusals(m, r, row) <=> r.session_id = "bad"
  BY <1>3, <1>6, Zenon
<1>8. /\ 8 \in Refusals(m, r, row) <=> r.request_id = "missing"
      /\ 9 \in Refusals(m, r, row) <=> r.request_id = "bad"
      /\ 10 \in Refusals(m, r, row) <=> r.request_id = "used"
      /\ 11 \in Refusals(m, r, row) <=> r.reviewer_label = "missing"
      /\ 12 \in Refusals(m, r, row) <=> r.reviewer_label = "bad"
  BY <1>3, <1>6, Zenon
<1>9. /\ 13 \in Refusals(m, r, row) <=> SessionGating(m) /\ r.session_label = "missing"
      /\ 14 \in Refusals(m, r, row) <=> r.session_label = "bad"
      /\ 15 \in Refusals(m, r, row) <=> r.ui_intent # "good"
      /\ 16 \in Refusals(m, r, row) <=> r.reviewer_kind = "bad"
  BY <1>4, <1>6, Zenon
<1>10.
      /\ 17 \in Refusals(m, r, row) <=> Warnings(m, Identity(r)) # {} \/ Assurance(m, Identity(r)) # "boundary_aligned"
      /\ 18 \in Refusals(m, r, row) <=> r.target = "unknown"
      /\ 19 \in Refusals(m, r, row) <=> ~row.pending
  BY <1>4, <1>6, Zenon
<1>. QED  BY <1>5, <1>7, <1>8, <1>9, <1>10, Zenon

(* Where writing is enabled, a request that keeps the contract passes every    *)
(* check but the last, which is about the queue, and no other request does.    *)
LEMMA ContractIsChecked ==
  ASSUME NEW r \in Requests, NEW row, MutationEnabled(mode)
  PROVE  /\ KeepsContract(mode, r) <=> Refusals(mode, r, row) \subseteq {19}
         /\ Refusals(mode, r, row) \subseteq {19} => Identity(r) = "local_operator in session"
<1> DEFINE S == Refusals(mode, r, row)
<1>1. "auth" \in mode  BY EnabledIsUnblocked
<1>2. RequiredFields(mode) = {"reviewer_label", "reviewer_kind", "ui_intent", "session_label"}
  BY <1>1 DEF RequiredFields, SessionGating
<1>3. KeepsContract(mode, r) <=>
        /\ r.reviewer_label = "good" /\ r.reviewer_kind = "good" /\ r.ui_intent = "good"
        /\ r.session_label = "good" /\ r.token = "good" /\ r.session_id = "good"
        /\ r.request_id = "good" /\ r.body = "good" /\ r.target = "good"
  BY <1>2, RequestFields DEF KeepsContract
<1>4. S \subseteq {19} <=> ~(\/ 1 \in S \/ 2 \in S \/ 3 \in S \/ 4 \in S \/ 5 \in S \/ 6 \in S \/ 7 \in S
                            \/ 8 \in S \/ 9 \in S \/ 10 \in S \/ 11 \in S \/ 12 \in S \/ 13 \in S
                            \/ 14 \in S \/ 15 \in S \/ 16 \in S \/ 17 \in S \/ 18 \in S)
  <2>1. S \subseteq 1 .. 19  BY WhatIsChecked
  <2> HIDE DEF S
  <2>2. \A i \in 1 .. 19 : i = 1 \/ i = 2 \/ i = 3 \/ i = 4 \/ i = 5 \/ i = 6 \/ i = 7 \/ i = 8 \/ i = 9
          \/ i = 10 \/ i = 11 \/ i = 12 \/ i = 13 \/ i = 14 \/ i = 15 \/ i = 16 \/ i = 17 \/ i = 18 \/ i = 19
    OBVIOUS
  <2>. QED  BY <2>1, <2>2
<1>7. /\ 1 \notin S
      /\ 13 \in S <=> r.session_label = "missing"
      /\ 17 \in S <=> Identity(r) # "local_operator in session"
  <2>1. SessionGating(mode)  BY <1>1 DEF SessionGating
  <2>2. 13 \in S <=> SessionGating(mode) /\ r.session_label = "missing"  BY WhatIsChecked
  <2>3. 17 \in S <=> Warnings(mode, Identity(r)) # {} \/ Assurance(mode, Identity(r)) # "boundary_aligned"
    BY WhatIsChecked
  <2>4. 1 \notin S  BY WhatIsChecked
  <2>. QED  BY <2>1, <2>2, <2>3, <2>4, IdentityIsFit
<1>8. /\ 2 \in S <=> r.token = "not ASCII"
      /\ 6 \in S <=> r.session_id = "not ASCII"
      /\ 3 \in S <=> r.token = "bad"
      /\ 4 \in S <=> r.body = "no object"
      /\ 5 \in S <=> r.body = "no JSON"
      /\ 7 \in S <=> r.session_id = "bad"
      /\ 8 \in S <=> r.request_id = "missing"
      /\ 9 \in S <=> r.request_id = "bad"
      /\ 10 \in S <=> r.request_id = "used"
      /\ 11 \in S <=> r.reviewer_label = "missing"
      /\ 12 \in S <=> r.reviewer_label = "bad"
      /\ 14 \in S <=> r.session_label = "bad"
      /\ 15 \in S <=> r.ui_intent # "good"
      /\ 16 \in S <=> r.reviewer_kind = "bad"
      /\ 18 \in S <=> r.target = "unknown"
  BY ZenonT(60), WhatIsChecked
<1> HIDE DEF S
<1>5. S \subseteq {19} <=>
        /\ r.token # "not ASCII" /\ r.session_id # "not ASCII"
        /\ r.token # "bad" /\ r.body # "no object" /\ r.body # "no JSON" /\ r.session_id # "bad"
        /\ r.request_id # "missing" /\ r.request_id # "bad" /\ r.request_id # "used"
        /\ r.reviewer_label # "missing" /\ r.reviewer_label # "bad"
        /\ r.session_label # "missing" /\ r.session_label # "bad" /\ r.ui_intent = "good"
        /\ r.reviewer_kind # "bad" /\ Identity(r) = "local_operator in session" /\ r.target # "unknown"
  BY <1>4, <1>7, <1>8
<1>6. Identity(r) = "local_operator in session" <=>
        r.reviewer_kind \notin {"missing", "user_declared"} /\ r.session_label = "good"
  BY DEF Identity
<1>. QED  BY <1>3, <1>5, <1>6, RequestFields DEF S

(* The first check that fails *)
LEMMA FirstRefusal ==
  ASSUME NEW S, S \subseteq 1 .. 19, S # {}
  PROVE  LET first == CHOOSE i \in S : \A j \in S : i <= j
         IN  first \in S /\ \A j \in S : first <= j
<1>1. S \subseteq Nat  OBVIOUS
<1>2. PICK i \in S : \A j \in S : ~(<<j, i>> \in OpToRel(<, Nat))
  BY <1>1, NatLessThanWellFounded, WFMin
<1>3. \A j \in S : i <= j
  <2>1. \A j \in S : ~(j < i)  BY <1>1, <1>2 DEF OpToRel
  <2>. QED  BY <1>1, <2>1
<1>. QED  BY <1>3

(* What a request that is refused is answered *)
LEMMA RefusalsAnswer ==
  ASSUME NEW r \in Requests, NEW row, Refusals(mode, r, row) # {}
  PROVE  LET refusals == Refusals(mode, r, row)
             first == CHOOSE i \in refusals : \A j \in refusals : i <= j
             code == Checks(mode, r, row)[first][2]
         IN  /\ code \in {"invalid_request_body", "no answer"} \cup GateErrors
             /\ code # "no answer" => Refused(Checks(mode, r, row)[first][3])
             /\ code = "no answer" => "not ASCII" \in {r.token, r.session_id}
             /\ code = "mutation_disabled" <=> ~MutationEnabled(mode)
             /\ MutationEnabled(mode) => (KeepsContract(mode, r) <=> code = "review_not_pending")
             /\ code = "review_not_pending" => ~row.pending
<1> DEFINE S == Refusals(mode, r, row)
           first == CHOOSE i \in S : \A j \in S : i <= j
           code == Checks(mode, r, row)[first][2]
<1>1. S \subseteq 1 .. 19  BY WhatIsChecked
<1>2. first \in S /\ \A j \in S : first <= j
  <2>1. S # {}  OBVIOUS
  <2> HIDE DEF S
  <2>. QED  BY <1>1, <2>1, FirstRefusal
<1>3. first \in 1 .. 19  BY <1>1, <1>2
<1>14. /\ \A i \in 1 .. 19 : i = 2 \/ i = 6 \/ Refused(Checks(mode, r, row)[i][3])
       /\ \A i \in 1 .. 19 : Checks(mode, r, row)[i][2] = Codes[i]
  BY ChecksAre
<1> HIDE DEF first, S
<1>4. /\ first = 2 \/ first = 6 \/ Refused(Checks(mode, r, row)[first][3])
      /\ code = Codes[first]
  BY <1>3, <1>14
<1> HIDE DEF code
<1>6. code \in {"invalid_request_body", "no answer"} \cup GateErrors
  BY <1>3, <1>4, CodesAre
<1>15. code = "no answer" <=> first = 2 \/ first = 6  BY <1>3, <1>4, CodesAre
<1>16. code = "no answer" => "not ASCII" \in {r.token, r.session_id}
  BY <1>2, <1>15, WhatIsChecked DEF S
<1>17. code # "no answer" => Refused(Checks(mode, r, row)[first][3])  BY <1>4, <1>15
<1>7. code = "mutation_disabled" <=> first = 1  BY <1>3, <1>4, CodesAre
<1>8. code = "review_not_pending" <=> first = 19  BY <1>3, <1>4, CodesAre
<1>9. first = 1 <=> 1 \in S
  <2>1. 1 \in S => first <= 1  BY <1>2
  <2>. QED  BY <1>2, <1>3, <2>1
<1>10. first = 19 <=> S \subseteq {19}
  <2>1. ASSUME first = 19 PROVE S \subseteq {19}
    <3>1. \A j \in S : 19 <= j /\ j \in 1 .. 19  BY <1>1, <1>2, <2>1
    <3>2. \A j \in 1 .. 19 : 19 <= j => j = 19  OBVIOUS
    <3>. QED  BY <3>1, <3>2
  <2>. QED  BY <1>2, <2>1
<1>11. code = "mutation_disabled" <=> ~MutationEnabled(mode)
  BY <1>7, <1>9, WhatIsChecked DEF S
<1>12. MutationEnabled(mode) => (KeepsContract(mode, r) <=> code = "review_not_pending")
  BY <1>8, <1>10, ContractIsChecked DEF S
<1>13. code = "review_not_pending" => ~row.pending
  BY <1>2, <1>8, WhatIsChecked DEF S
<1>. QED  BY <1>4, <1>6, <1>11, <1>12, <1>13, <1>16, <1>17 DEF code, first, S

----------------------------------------------------------------------------
(* The invariant of a page and the request it leads to                      *)

Decisions == [action : Actions, who : Identities, by : {"ui", "cli"}]

PageTypes ==
  /\ DOMAIN browser = {"pc", "row", "again", "othersWarn", "req", "action", "answer"}
  /\ browser.pc \in {"away", "viewing", "page", "audit", "append", "answered"}
  /\ browser.req \in Requests /\ browser.action \in Actions
  /\ reviews \in Seq(Decisions) /\ trail \in Nat

(* The row a page shows is a row the event had; it is the row of now unless    *)
(* somebody decided since.                                                     *)
RowFits(row, log) ==
  /\ row.identity \in Said /\ row.pending \in BOOLEAN
  /\ row.count \in Nat /\ row.count <= Len(log)
  /\ row.count = Len(log) => row = Row(log)

(* Past the checks, with the reviewer the route accepts *)
Underway ==
  browser.pc \in {"audit", "append"} =>
    /\ MutationEnabled(mode) /\ KeepsContract(mode, browser.req)
    /\ Identity(browser.req) = "local_operator in session"

Unanswered == browser.pc # "answered" => browser.answer.code = "none"

TrailFits ==
  trail = Len(reviews)
    + (IF browser.pc = "append" \/ browser.answer.code = "decision_persistence_failed" THEN 1 ELSE 0)

(* The decision that went through the server is the last one *)
MineFits ==
  IF browser.answer.code = "applied"
  THEN /\ Len(reviews) > 0 /\ reviews[Len(reviews)].by = "ui"
       /\ reviews[Len(reviews)].who = "local_operator in session"
       /\ reviews[Len(reviews)].action = browser.action
       /\ \A i \in 1 .. Len(reviews) : i # Len(reviews) => reviews[i].by = "cli"
  ELSE \A i \in 1 .. Len(reviews) : reviews[i].by = "cli"

(* What is answered, in terms of the check or the step that answered it *)
AnswerFits(code, status) ==
  \/ /\ code \in {"invalid_request_body", "no answer"} \cup GateErrors
     /\ code # "no answer" => Refused(status)
     /\ code = "no answer" => "not ASCII" \in {browser.req.token, browser.req.session_id}
     /\ code = "mutation_disabled" <=> ~MutationEnabled(mode)
     /\ MutationEnabled(mode) => (KeepsContract(mode, browser.req) <=> code = "review_not_pending")
     /\ code = "review_not_pending" => ~browser.row.pending \/ Len(reviews) > browser.row.count
  \/ /\ \/ code \in DurableErrors /\ status = 500
        \/ code = "applied" /\ status = 200
     /\ MutationEnabled(mode) /\ KeepsContract(mode, browser.req)

Outcome ==
  browser.pc = "answered" =>
    /\ browser.answer.at = Len(reviews)
    /\ AnswerFits(browser.answer.code, browser.answer.status)

PageInv ==
  PageTypes /\ RowFits(browser.row, reviews) /\ Underway /\ Unanswered /\ TrailFits /\ MineFits /\ Outcome

(* The row of the queue *)
LEMMA RowOfNow ==
  ASSUME NEW log \in Seq(Decisions)
  PROVE  RowFits(Row(log), log)
<1>1. Len(log) \in Nat  OBVIOUS
<1>2. Row(log).count = Len(log)  BY DEF Row
<1>3. Row(log).identity \in Said
  <2>1. Row(log).identity = IF Len(log) = 0 THEN "none" ELSE log[Len(log)].who  BY DEF Row
  <2>2. Len(log) # 0 => log[Len(log)] \in Decisions  BY <1>1
  <2>3. Len(log) # 0 => log[Len(log)].who \in Identities  BY <2>2 DEF Decisions
  <2>. QED  BY <2>1, <2>3 DEF Said
<1>4. Row(log).pending \in BOOLEAN
  BY DEF Row
<1>. QED  BY <1>1, <1>2, <1>3, <1>4 DEF RowFits

(* A decision makes every row one of the past *)
LEMMA RowOfThePast ==
  ASSUME NEW log \in Seq(Decisions), NEW d \in Decisions, NEW row, RowFits(row, log)
  PROVE  /\ RowFits(row, Append(log, d))
         /\ Append(log, d) \in Seq(Decisions) /\ Len(Append(log, d)) = Len(log) + 1
         /\ Append(log, d)[Len(log) + 1] = d
         /\ \A i \in 1 .. Len(log) : Append(log, d)[i] = log[i]
<1>1. /\ Append(log, d) \in Seq(Decisions) /\ Len(Append(log, d)) = Len(log) + 1
      /\ Append(log, d)[Len(log) + 1] = d
      /\ \A i \in 1 .. Len(log) : Append(log, d)[i] = log[i]
      /\ Len(log) \in Nat
  OBVIOUS
<1>2. RowFits(row, Append(log, d))  BY <1>1 DEF RowFits
<1>. QED  BY <1>1, <1>2

(* A page begins with nothing decided and nothing answered *)
LEMMA PageBegins == PageInit => PageInv
<1>. SUFFICES ASSUME PageInit PROVE PageInv
  OBVIOUS
<1>1. /\ DOMAIN browser = {"pc", "row", "again", "othersWarn", "req", "action", "answer"}
      /\ browser.pc = "away" /\ browser.row = Row(<<>>) /\ browser.req = Flawless
      /\ browser.action = "approve" /\ browser.answer = NoAnswer
  BY DEF PageInit
<1>2. reviews = <<>> /\ trail = 0 /\ Len(reviews) = 0  BY DEF PageInit
<1>3. PageTypes
  <2>1. Flawless \in Requests  BY DEF Requests
  <2>2. reviews \in Seq(Decisions)  BY <1>2
  <2>. QED  BY <1>1, <1>2, <2>1, <2>2 DEF PageTypes, Actions
<1>4. browser.answer.code = "none"  BY <1>1 DEF NoAnswer
<1>5. RowFits(browser.row, reviews)
  <2>1. <<>> \in Seq(Decisions)  OBVIOUS
  <2>. QED  BY <1>1, <1>2, <2>1, RowOfNow
<1>6. Underway /\ Unanswered /\ TrailFits /\ MineFits /\ Outcome
  BY <1>1, <1>2, <1>4 DEF Underway, Unanswered, TrailFits, MineFits, Outcome
<1>. QED  BY <1>3, <1>5, <1>6 DEF PageInv

(* A page is read, in two steps *)
LEMMA ViewsKeep ==
  ASSUME PageInv, ViewRow \/ ViewEnablement
  PROVE  PageInv'
<1>1. UNCHANGED <<mode, reviews, trail>>  BY DEF ViewRow, ViewEnablement
<1>2. /\ browser.pc \notin {"answered", "append", "audit"}
      /\ browser'.pc \in {"viewing", "page"}
      /\ DOMAIN browser' = DOMAIN browser
      /\ browser'.req = browser.req /\ browser'.action = browser.action /\ browser'.answer = browser.answer
      /\ browser'.row = browser.row \/ browser'.row = Row(reviews)
  BY DEF ViewRow, ViewEnablement, PageInv, PageTypes
<1>3. PageTypes'  BY <1>1, <1>2 DEF PageInv, PageTypes
<1>4. RowFits(browser'.row, reviews')
  BY <1>1, <1>2, RowOfNow DEF PageInv, PageTypes
<1>5. browser.answer.code = "none"  BY <1>2 DEF PageInv, Unanswered
<1>6. Underway' /\ Unanswered' /\ Outcome'
  BY <1>2, <1>5 DEF Underway, Unanswered, Outcome
<1>7. TrailFits'  BY <1>1, <1>2 DEF PageInv, TrailFits
<1>8. MineFits'  BY <1>1, <1>2, <1>5 DEF PageInv, MineFits
<1>. QED  BY <1>3, <1>4, <1>6, <1>7, <1>8 DEF PageInv

(* The request is checked *)
LEMMA PostKeeps ==
  ASSUME PageInv, PostReview
  PROVE  PageInv'
<1>1. PICK r \in Requests, a \in Actions :
       LET row == Row(reviews)
           refusals == Refusals(mode, r, row)
           first == CHOOSE i \in refusals : \A j \in refusals : i <= j
       IN browser' = [browser EXCEPT !.req = r, !.action = a,
            !.pc = IF refusals = {} THEN "audit" ELSE "answered",
            !.answer = IF refusals = {} THEN NoAnswer
                       ELSE [code |-> Checks(mode, r, row)[first][2],
                             status |-> Checks(mode, r, row)[first][3], at |-> Len(reviews)]]
  BY DEF PostReview
<1>2. browser.pc = "page" /\ UNCHANGED <<mode, reviews, trail>>  BY DEF PostReview
<1> DEFINE S == Refusals(mode, r, Row(reviews))
           first == CHOOSE i \in S : \A j \in S : i <= j
           code == Checks(mode, r, Row(reviews))[first][2]
           status == Checks(mode, r, Row(reviews))[first][3]
           answer == IF S = {} THEN NoAnswer ELSE [code |-> code, status |-> status, at |-> Len(reviews)]
           pc == IF S = {} THEN "audit" ELSE "answered"
<1>3. browser' = [browser EXCEPT !.req = r, !.action = a, !.pc = pc, !.answer = answer]
  BY <1>1
<1>4. S # {} =>
        /\ code \in {"invalid_request_body", "no answer"} \cup GateErrors
        /\ code # "no answer" => Refused(status)
        /\ code = "no answer" => "not ASCII" \in {r.token, r.session_id}
        /\ code = "mutation_disabled" <=> ~MutationEnabled(mode)
        /\ MutationEnabled(mode) => (KeepsContract(mode, r) <=> code = "review_not_pending")
        /\ code = "review_not_pending" => ~Row(reviews).pending
  BY RefusalsAnswer
<1> HIDE DEF code, status
<1>5. S = {} => /\ MutationEnabled(mode) /\ KeepsContract(mode, r)
                /\ Identity(r) = "local_operator in session"
  <2>1. S = {} => MutationEnabled(mode)  BY WhatIsChecked
  <2>2. S = {} => S \subseteq {17}  OBVIOUS
  <2>. QED  BY <2>1, <2>2, ContractIsChecked
<1>6. /\ S = {} => answer.code = "none"
      /\ S # {} => answer.code = code /\ answer.status = status /\ answer.at = Len(reviews)
  BY DEF NoAnswer
<1> HIDE DEF S, answer
<1>7. /\ DOMAIN browser' = DOMAIN browser
      /\ browser'.pc = pc /\ browser'.req = r /\ browser'.action = a
      /\ browser'.row = browser.row /\ browser'.answer = answer
  BY <1>3 DEF PageInv, PageTypes
<1>8. PageTypes'
  BY <1>2, <1>7 DEF PageInv, PageTypes
<1>9. RowFits(browser'.row, reviews')
  BY <1>2, <1>7 DEF PageInv
<1>10. Underway'  BY <1>2, <1>5, <1>7 DEF Underway
<1>11. Unanswered'  BY <1>6, <1>7 DEF Unanswered
<1>12. browser.answer.code = "none"  BY <1>2 DEF PageInv, Unanswered
<1>13. answer.code \notin {"applied"} \cup DurableErrors
  BY <1>4, <1>6 DEF GateErrors, DurableErrors
<1>14. TrailFits'
  BY <1>2, <1>7, <1>12, <1>13 DEF PageInv, TrailFits, DurableErrors
<1>15. MineFits'
  BY <1>2, <1>7, <1>12, <1>13 DEF PageInv, MineFits
<1>16. Outcome'
  <2>1. CASE S = {}
    BY <1>7, <2>1 DEF Outcome
  <2>2. CASE S # {}
    <3>1. code = "review_not_pending" => ~browser.row.pending \/ Len(reviews) > browser.row.count
      <4>1. RowFits(browser.row, reviews)  BY DEF PageInv
      <4>2. Len(reviews) \in Nat  BY DEF PageInv, PageTypes
      <4>. QED  BY <1>4, <2>2, <4>1, <4>2 DEF RowFits
    <3>2. browser'.answer.code = code /\ browser'.answer.status = status /\ browser'.answer.at = Len(reviews)
      BY <1>6, <1>7, <2>2
    <3>3. /\ browser'.answer.code \in {"invalid_request_body", "no answer"} \cup GateErrors
          /\ browser'.answer.code # "no answer" => Refused(browser'.answer.status)
          /\ browser'.answer.code = "no answer" => "not ASCII" \in {r.token, r.session_id}
      BY <1>4, <2>2, <3>2
    <3>4. browser'.answer.code = "mutation_disabled" <=> ~MutationEnabled(mode)
      BY <1>4, <2>2, <3>2
    <3>5. MutationEnabled(mode) =>
            (KeepsContract(mode, r) <=> browser'.answer.code = "review_not_pending")
      BY <1>4, <2>2, <3>2
    <3>6. browser'.answer.code = "review_not_pending" =>
            ~browser'.row.pending \/ Len(reviews) > browser'.row.count
      BY <1>7, <3>1, <3>2
    <3>7. mode' = mode /\ reviews' = reviews /\ browser'.req = r  BY <1>2, <1>7
    <3>. QED  BY <3>2, <3>3, <3>4, <3>5, <3>6, <3>7 DEF Outcome, AnswerFits
  <2>. QED  BY <2>1, <2>2
<1>. QED  BY <1>8, <1>9, <1>10, <1>11, <1>14, <1>15, <1>16 DEF PageInv

(* The audit event, or the failure to insert it *)
LEMMA AuditKeeps ==
  ASSUME PageInv, InsertAudit
  PROVE  PageInv'
<1>1. browser.pc = "audit" /\ UNCHANGED <<mode, reviews>>  BY DEF InsertAudit
<1>2. browser.answer.code = "none"  BY <1>1 DEF PageInv, Unanswered
<1>3. Len(reviews) \in Nat /\ trail \in Nat  BY DEF PageInv, PageTypes
<1>4. CASE trail' = trail + 1 /\ Browse("append")
  <2>1. /\ DOMAIN browser' = DOMAIN browser
        /\ browser'.pc = "append" /\ browser'.req = browser.req /\ browser'.action = browser.action
        /\ browser'.row = browser.row /\ browser'.answer = browser.answer
    BY <1>4 DEF Browse, PageInv, PageTypes
  <2>2. PageTypes'  BY <1>1, <1>3, <1>4, <2>1 DEF PageInv, PageTypes
  <2>3. RowFits(browser'.row, reviews')  BY <1>1, <2>1 DEF PageInv
  <2>4. Underway' /\ Unanswered' /\ Outcome'
    BY <1>1, <1>2, <2>1 DEF PageInv, Underway, Unanswered, Outcome
  <2>5. TrailFits'
    <3>1. trail = Len(reviews)  BY <1>1, <1>2, <1>3 DEF PageInv, TrailFits
    <3>2. trail' = Len(reviews') + 1  BY <1>1, <1>4, <3>1
    <3>. QED  BY <2>1, <3>2 DEF TrailFits
  <2>6. MineFits'  BY <1>1, <1>2, <2>1 DEF PageInv, MineFits
  <2>. QED  BY <2>2, <2>3, <2>4, <2>5, <2>6 DEF PageInv
<1>5. CASE UNCHANGED trail /\ Answer("audit_insertion_failed", 500)
  <2> DEFINE answer == [code |-> "audit_insertion_failed", status |-> 500, at |-> Len(reviews)]
  <2>1. /\ DOMAIN browser' = DOMAIN browser
        /\ browser'.pc = "answered" /\ browser'.req = browser.req /\ browser'.action = browser.action
        /\ browser'.row = browser.row /\ browser'.answer = answer
    BY <1>5 DEF Answer, PageInv, PageTypes
  <2>2. answer.code = "audit_insertion_failed" /\ answer.status = 500 /\ answer.at = Len(reviews)
    OBVIOUS
  <2> HIDE DEF answer
  <2>3. PageTypes'  BY <1>1, <1>5, <2>1 DEF PageInv, PageTypes
  <2>4. RowFits(browser'.row, reviews')  BY <1>1, <2>1 DEF PageInv
  <2>5. Underway' /\ Unanswered'  BY <2>1 DEF Underway, Unanswered
  <2>6. TrailFits'  BY <1>1, <1>2, <1>5, <2>1, <2>2 DEF PageInv, TrailFits
  <2>7. MineFits'  BY <1>1, <1>2, <2>1, <2>2 DEF PageInv, MineFits
  <2>8. Outcome'
    BY <1>1, <2>1, <2>2 DEF PageInv, Underway, Outcome, AnswerFits, DurableErrors
  <2>. QED  BY <2>3, <2>4, <2>5, <2>6, <2>7, <2>8 DEF PageInv
<1>. QED  BY <1>4, <1>5 DEF InsertAudit

(* The decision, or the failure to append it *)
LEMMA DecisionKeeps ==
  ASSUME PageInv, AppendDecision
  PROVE  PageInv'
<1>1. browser.pc = "append" /\ UNCHANGED <<mode, trail>>  BY DEF AppendDecision
<1>2. browser.answer.code = "none"  BY <1>1 DEF PageInv, Unanswered
<1>3. Len(reviews) \in Nat /\ trail \in Nat /\ reviews \in Seq(Decisions)  BY DEF PageInv, PageTypes
<1>4. trail = Len(reviews) + 1  BY <1>1, <1>2, <1>3 DEF PageInv, TrailFits
<1>5. /\ MutationEnabled(mode) /\ KeepsContract(mode, browser.req)
      /\ Identity(browser.req) = "local_operator in session"
  BY <1>1 DEF PageInv, Underway
<1>6. CASE /\ reviews' = Append(reviews, Decision(browser.action, Identity(browser.req), "ui"))
           /\ browser' = [browser EXCEPT !.pc = "answered",
                !.answer = [code |-> "applied", status |-> 200, at |-> Len(reviews) + 1]]
  <2> DEFINE d == Decision(browser.action, Identity(browser.req), "ui")
             answer == [code |-> "applied", status |-> 200, at |-> Len(reviews) + 1]
  <2>1. /\ DOMAIN browser' = DOMAIN browser
        /\ browser'.pc = "answered" /\ browser'.req = browser.req /\ browser'.action = browser.action
        /\ browser'.row = browser.row /\ browser'.answer = answer
    BY <1>6 DEF PageInv, PageTypes
  <2>2. answer.code = "applied" /\ answer.status = 200 /\ answer.at = Len(reviews) + 1
    OBVIOUS
  <2>3. d \in Decisions /\ d.by = "ui" /\ d.who = "local_operator in session" /\ d.action = browser.action
    BY <1>5 DEF Decision, Decisions, Identities, PageInv, PageTypes
  <2> HIDE DEF answer, d
  <2>4. /\ RowFits(browser.row, reviews')
        /\ reviews' \in Seq(Decisions) /\ Len(reviews') = Len(reviews) + 1
        /\ reviews'[Len(reviews) + 1] = d
        /\ \A i \in 1 .. Len(reviews) : reviews'[i] = reviews[i]
    BY <1>3, <1>6, <2>3, RowOfThePast DEF PageInv, d
  <2>5. PageTypes'  BY <1>1, <1>3, <2>1, <2>4 DEF PageInv, PageTypes
  <2>6. RowFits(browser'.row, reviews')  BY <2>1, <2>4
  <2>7. Underway' /\ Unanswered'  BY <2>1 DEF Underway, Unanswered
  <2>8. TrailFits'  BY <1>1, <1>3, <1>4, <2>1, <2>2, <2>4 DEF TrailFits
  <2>9. MineFits'
    <3>1. \A i \in 1 .. Len(reviews) : reviews[i].by = "cli"  BY <1>2 DEF PageInv, MineFits
    <3>2. \A i \in 1 .. Len(reviews') : i # Len(reviews') => reviews'[i].by = "cli"
      <4>1. \A i \in 1 .. Len(reviews') : i # Len(reviews') => i \in 1 .. Len(reviews)
        BY <1>3, <2>4
      <4>. QED  BY <2>4, <3>1, <4>1
    <3>3. Len(reviews') > 0  BY <1>3, <2>4
    <3>4. reviews'[Len(reviews')] = d  BY <2>4
    <3>. QED  BY <2>1, <2>2, <2>3, <3>2, <3>3, <3>4 DEF MineFits
  <2>10. Outcome'
    BY <1>1, <1>5, <2>1, <2>2, <2>4 DEF Outcome, AnswerFits
  <2>. QED  BY <2>5, <2>6, <2>7, <2>8, <2>9, <2>10 DEF PageInv
<1>7. CASE UNCHANGED reviews /\ Answer("decision_persistence_failed", 500)
  <2> DEFINE answer == [code |-> "decision_persistence_failed", status |-> 500, at |-> Len(reviews)]
  <2>1. /\ DOMAIN browser' = DOMAIN browser
        /\ browser'.pc = "answered" /\ browser'.req = browser.req /\ browser'.action = browser.action
        /\ browser'.row = browser.row /\ browser'.answer = answer
    BY <1>7 DEF Answer, PageInv, PageTypes
  <2>2. answer.code = "decision_persistence_failed" /\ answer.status = 500 /\ answer.at = Len(reviews)
    OBVIOUS
  <2> HIDE DEF answer
  <2>3. PageTypes'  BY <1>1, <1>7, <2>1 DEF PageInv, PageTypes
  <2>4. RowFits(browser'.row, reviews')  BY <1>7, <2>1 DEF PageInv
  <2>5. Underway' /\ Unanswered'  BY <2>1 DEF Underway, Unanswered
  <2>6. TrailFits'  BY <1>1, <1>4, <1>7, <2>1, <2>2 DEF TrailFits
  <2>7. MineFits'  BY <1>2, <1>7, <2>1, <2>2 DEF PageInv, MineFits
  <2>8. Outcome'
    BY <1>1, <1>5, <1>7, <2>1, <2>2 DEF Outcome, AnswerFits, DurableErrors
  <2>. QED  BY <2>3, <2>4, <2>5, <2>6, <2>7, <2>8 DEF PageInv
<1>. QED  BY <1>6, <1>7 DEF AppendDecision

(* Somebody decides at the command line, before the answer *)
LEMMA CommandLineKeeps ==
  ASSUME PageInv, ReviewAtCommandLine
  PROVE  PageInv'
<1>1. browser.pc # "answered" /\ trail' = trail + 1 /\ UNCHANGED <<mode, browser>>
  BY DEF ReviewAtCommandLine
<1>2. PICK d : d \in Decisions /\ d.by = "cli" /\ reviews' = Append(reviews, d)
  <2>1. PICK a \in Actions, who \in Identities : reviews' = Append(reviews, Decision(a, who, "cli"))
    BY DEF ReviewAtCommandLine
  <2>2. Decision(a, who, "cli") \in Decisions /\ Decision(a, who, "cli").by = "cli"
    BY DEF Decision, Decisions
  <2>. QED  BY <2>1, <2>2
<1>3. Len(reviews) \in Nat /\ trail \in Nat /\ reviews \in Seq(Decisions)  BY DEF PageInv, PageTypes
<1>4. /\ RowFits(browser.row, reviews')
      /\ reviews' \in Seq(Decisions) /\ Len(reviews') = Len(reviews) + 1
      /\ reviews'[Len(reviews) + 1] = d
      /\ \A i \in 1 .. Len(reviews) : reviews'[i] = reviews[i]
  BY <1>2, <1>3, RowOfThePast DEF PageInv
<1>5. browser.answer.code = "none"  BY <1>1 DEF PageInv, Unanswered
<1>6. PageTypes'  BY <1>1, <1>3, <1>4 DEF PageInv, PageTypes
<1>7. Underway' /\ Unanswered' /\ Outcome'
  BY <1>1 DEF PageInv, Underway, Unanswered, Outcome
<1>8. TrailFits'
  <2>1. trail = Len(reviews) + (IF browser.pc = "append" THEN 1 ELSE 0)
    BY <1>5 DEF PageInv, TrailFits
  <2>2. trail' = Len(reviews') + (IF browser.pc = "append" THEN 1 ELSE 0)
    BY <1>1, <1>3, <1>4, <2>1
  <2>. QED  BY <1>1, <1>5, <2>2 DEF TrailFits
<1>9. MineFits'
  <2>1. \A i \in 1 .. Len(reviews') : i = Len(reviews) + 1 \/ i \in 1 .. Len(reviews)
    BY <1>3, <1>4
  <2>2. \A i \in 1 .. Len(reviews') : reviews'[i].by = "cli"
    BY <1>2, <1>4, <1>5, <2>1 DEF PageInv, MineFits
  <2>. QED  BY <1>1, <1>5, <2>2 DEF MineFits
<1>. QED  BY <1>1, <1>4, <1>6, <1>7, <1>8, <1>9 DEF PageInv

(* Every step of a page keeps its invariant *)
LEMMA PageKeeps == PageInv /\ [PageNext]_pageVars => PageInv'
<1> SUFFICES ASSUME PageInv, [PageNext]_pageVars PROVE PageInv'
  OBVIOUS
<1>1. CASE UNCHANGED pageVars
  <2>1. mode' = mode /\ reviews' = reviews /\ trail' = trail /\ browser' = browser
    BY <1>1 DEF pageVars
  <2>2. PageTypes'  BY <2>1 DEF PageInv, PageTypes
  <2>3. RowFits(browser.row, reviews)'  BY <2>1 DEF PageInv
  <2>4. Underway' /\ Unanswered'  BY <2>1 DEF PageInv, Underway, Unanswered
  <2>5. TrailFits' /\ MineFits'  BY <2>1 DEF PageInv, TrailFits, MineFits
  <2>6. Outcome'
    <3>1. Outcome  BY DEF PageInv
    <3>. QED  BY <2>1, <3>1 DEF Outcome, AnswerFits
  <2>. QED  BY <2>2, <2>3, <2>4, <2>5, <2>6 DEF PageInv
<1>. QED
  BY <1>1, ViewsKeep, PostKeeps, AuditKeeps, DecisionKeeps, CommandLineKeeps DEF PageNext

(* The route's answer is what the contract of the page announced *)
LEMMA OutcomeIsForetold == PageInv => OutcomeForetold
<1> SUFFICES ASSUME PageInv, browser.pc = "answered"
             PROVE  LET code == browser.answer.code
                        family == Family(browser.answer.status)
                        decided == SubSeq(reviews, 1, browser.answer.at)
                    IN /\ code \in {"applied", "invalid_request_body", "no answer"}
                                      \cup GateErrors \cup DurableErrors
                       /\ code = "no answer" => "not ASCII" \in {browser.req.token, browser.req.session_id}
                       /\ code # "no answer" => family = CASE code = "applied" -> "success"
                                     [] code \in DurableErrors -> "durable_write_path"
                                     [] OTHER -> "pre_mutation_or_gate"
                       /\ code = "mutation_disabled" <=> ~MutationEnabled(mode)
                       /\ MutationEnabled(mode) =>
                            (KeepsContract(mode, browser.req)
                               <=> code \in {"applied", "review_not_pending"} \cup DurableErrors)
                       /\ code = "review_not_pending" =>
                            ~browser.row.pending \/ browser.answer.at > browser.row.count
                       /\ code = "applied" =>
                            Row(decided).pending <=> ResultingState(browser.action) = "remains_pending"
  BY DEF OutcomeForetold
<1> DEFINE code == browser.answer.code
           status == browser.answer.status
<1>1. browser.answer.at = Len(reviews) /\ AnswerFits(code, status)  BY DEF PageInv, Outcome
<1>2. code = "applied" =>
        (Row(SubSeq(reviews, 1, browser.answer.at)).pending <=> ResultingState(browser.action) = "remains_pending")
  <2>. SUFFICES ASSUME code = "applied"
                PROVE  Row(SubSeq(reviews, 1, browser.answer.at)).pending
                         <=> ResultingState(browser.action) = "remains_pending"
    OBVIOUS
  <2>1. reviews \in Seq(Decisions) /\ Len(reviews) \in Nat  BY DEF PageInv, PageTypes
  <2>2. SubSeq(reviews, 1, Len(reviews)) = reviews  BY <2>1
  <2>3. Len(reviews) > 0 /\ reviews[Len(reviews)].action = browser.action  BY DEF PageInv, MineFits
  <2>4. Row(reviews).pending <=> Len(reviews) = 0 \/ reviews[Len(reviews)].action = "request_changes"
    BY DEF Row
  <2>5. Row(reviews).pending <=> browser.action = "request_changes"  BY <2>1, <2>3, <2>4
  <2>6. ResultingState(browser.action) = "remains_pending" <=> browser.action = "request_changes"
    BY DEF ResultingState
  <2>. QED  BY <1>1, <2>2, <2>5, <2>6
<1> HIDE DEF code, status
<1>3. CASE /\ code \in {"invalid_request_body", "no answer"} \cup GateErrors
           /\ code # "no answer" => Refused(status)
           /\ code = "no answer" => "not ASCII" \in {browser.req.token, browser.req.session_id}
           /\ code = "mutation_disabled" <=> ~MutationEnabled(mode)
           /\ MutationEnabled(mode) => (KeepsContract(mode, browser.req) <=> code = "review_not_pending")
           /\ code = "review_not_pending" => ~browser.row.pending \/ Len(reviews) > browser.row.count
  <2>1. code # "applied" /\ code \notin DurableErrors  BY <1>3 DEF GateErrors, DurableErrors
  <2>3. Refused(status) => Family(status) = "pre_mutation_or_gate"  BY DEF Family, Refused
  <2>2. code # "no answer" => Family(status) = "pre_mutation_or_gate"  BY <1>3, <2>3, Zenon
  <2>. QED  BY <1>1, <1>2, <1>3, <2>1, <2>2 DEF code, status
<1>4. CASE /\ code \in DurableErrors /\ status = 500
           /\ MutationEnabled(mode) /\ KeepsContract(mode, browser.req)
  <2>1. code \notin {"applied", "mutation_disabled", "review_not_pending", "no answer"}  BY <1>4 DEF DurableErrors
  <2>2. Family(status) = "durable_write_path"  BY <1>4 DEF Family
  <2>. QED  BY <1>2, <1>4, <2>1, <2>2 DEF code, status
<1>5. CASE /\ code = "applied" /\ status = 200
           /\ MutationEnabled(mode) /\ KeepsContract(mode, browser.req)
  <2>1. code \notin DurableErrors \cup {"mutation_disabled", "review_not_pending"}  BY <1>5 DEF DurableErrors
  <2>2. Family(status) = "success"  BY <1>5 DEF Family
  <2>. QED  BY <1>2, <1>5, <2>1, <2>2 DEF code, status
<1>. QED  BY <1>1, <1>3, <1>4, <1>5 DEF AnswerFits

(* What the answer says of the files is so *)
LEMMA AnswersSayTrue == PageInv => AnswersAreTrue
<1> SUFFICES ASSUME PageInv PROVE AnswersAreTrue
  OBVIOUS
<1> DEFINE mine == {i \in DOMAIN reviews : reviews[i].by = "ui"}
<1>1. reviews \in Seq(Decisions) /\ Len(reviews) \in Nat /\ DOMAIN reviews = 1 .. Len(reviews)
  BY DEF PageInv, PageTypes
<1>2. CASE browser.answer.code = "applied"
  <2> DEFINE last == Len(reviews)
  <2>1. /\ last > 0 /\ reviews[last].by = "ui" /\ reviews[last].who = "local_operator in session"
        /\ \A i \in 1 .. last : i # last => reviews[i].by = "cli"
    BY <1>2 DEF PageInv, MineFits
  <2>2. last \in DOMAIN reviews
    <3>1. last \in Nat /\ last > 0 /\ DOMAIN reviews = 1 .. last  BY <1>1, <2>1
    <3> HIDE DEF last
    <3>. QED  BY <3>1
  <2>3. \A i \in DOMAIN reviews : reviews[i].by = "ui" => i = last
    BY <1>1, <2>1
  <2>4. mine = {last}
    <3>1. last \in mine  BY <2>1, <2>2
    <3>2. \A i \in mine : i = last  BY <2>3
    <3> HIDE DEF mine, last
    <3>. QED  BY <3>1, <3>2
  <2>5. Cardinality(mine) = 1  BY <2>4, FS_Singleton
  <2>6. \A i \in mine : reviews[i].who = "local_operator in session"  BY <2>1, <2>4
  <2>. QED  BY <1>2, <2>5, <2>6 DEF PageInv, TrailFits, AnswersAreTrue
<1>3. CASE browser.answer.code # "applied"
  <2>1. mine = {}
    BY <1>1, <1>3 DEF PageInv, MineFits
  <2>2. Cardinality(mine) = 0  BY <2>1, FS_EmptySet
  <2>. QED  BY <1>3, <2>1, <2>2 DEF PageInv, TrailFits, AnswersAreTrue
<1>. QED  BY <1>2, <1>3

(* ui_server.py, the review pages and review_action_response: in every mode    *)
(* the server can be started in, whatever the browser sends and whoever        *)
(* decides at the command line meanwhile and however often, the panels of a    *)
(* page agree, the answer is the one their contract announced, and the files   *)
(* hold what the answer says.                                                  *)
THEOREM PagesForetell == PageSpec => []PageForetells
<1>1. PageInv => PageForetells
  <2>1. PageInv => PanelsAgree  BY PanelsOfAPage DEF PageInv, RowFits
  <2>. QED  BY <2>1, OutcomeIsForetold, AnswersSayTrue DEF PageForetells
<1>2. PageSpec => []PageInv
  BY PageBegins, PageKeeps, PTL DEF PageSpec
<1>. QED  BY <1>1, <1>2, PTL
=============================================================================
