----------------------------- MODULE UiSession ------------------------------
(***************************************************************************)
(* The session boundary of the local UI server: the one-time bootstrap     *)
(* that gives a browser its cookie and its mutation credentials, and the   *)
(* gates that a POST passes before it writes.  ThreadingHTTPServer runs    *)
(* each request on a thread of its own; create_handler's closure holds the *)
(* state they share, under two locks that are never held together.         *)
(*                                                                         *)
(* One incarnation of the server is one life: its secrets are drawn anew,  *)
(* so the number of the life stands for its bootstrap secret, its cookie,  *)
(* its mutation token and its mutation session id.  Host and Origin checks *)
(* refuse a request before any of this and change nothing.                 *)
(***************************************************************************)
EXTENDS Naturals, FiniteSets

CONSTANTS
  Threads,      \* the server's request threads
  RequestIds,   \* the mutation_request_ids clients use
  Workspace,    \* --workspace
  Mutation,     \* the boundary's mutation_enabled
  TTL,          \* bootstrap_ttl_seconds, in ticks
  MaxRequests,  \* bound: requests received by one life
  MaxLives,     \* bound: incarnations of the server
  NoThread      \* nobody holds the lock

ASSUME FlagsAssumption == Workspace \in BOOLEAN /\ Mutation \in BOOLEAN
ASSUME BoundsAssumption == TTL \in Nat /\ MaxRequests \in Nat /\ MaxLives \in Nat \ {0}
ASSUME ThreadsAssumption == NoThread \notin Threads
ASSUME IdsAssumption == RequestIds # {}

Lives == 1 .. MaxLives
Paths == {"bootstrap", "session", "workspace", "review", "other"}

(***************************************************************************)
(* A request: its path and what it carries; 0 is a missing or wrong        *)
(* credential, json says that the body is a JSON object, rid that it has a *)
(* well-formed mutation_request_id.                                        *)
(***************************************************************************)
Request == [path : Paths, secret : 0 .. MaxLives, cookie : 0 .. MaxLives,
            token : 0 .. MaxLives, json : BOOLEAN, rid : RequestIds]

VARIABLES
  life, age,       \* the server's incarnation, and the ticks since it was made
  consumed, url,   \* bootstrap_consumed; the bootstrap URL is still kept
  bootLock,        \* who holds bootstrap_lock
  idLock,          \* who holds mutation_request_ids_lock
  seen,            \* mutation_request_ids_seen
  thread,          \* each thread: where it is and its request
  cookies, tokens, \* the lives whose cookie, whose mutation token a browser has
  granted, done,   \* history: lives that were granted a session, writes executed
  requests

shared == <<consumed, url, bootLock, idLock, seen>>
client == <<cookies, tokens, granted, done>>
vars == <<life, age, shared, thread, client, requests>>

AnyRequest == CHOOSE r \in Request : TRUE
Free == [pc |-> "free", req |-> AnyRequest]

Goto(t, where) ==
  thread' = [thread EXCEPT ![t] = IF where = "free" THEN Free ELSE [@ EXCEPT !.pc = where]]

----------------------------------------------------------------------------
(* do_GET, do_POST up to the first lock: everything they look at is fixed    *)
(* for the life of the server.                                               *)

Authorized(r) == r.cookie = life

(* Mutant: a review write needs no header token *)
GatesPassedWithoutToken(r) ==
  /\ Authorized(r)
  /\ r.path \in {"workspace", "review"}
  /\ r.path = "workspace" => Workspace
  /\ Mutation
  /\ r.path = "review" \/ r.token = life
  /\ r.json

(* do_POST: cookie, route, modes, header token, body, mutation session.  The *)
(* session id travels with the token: who has one has the other.             *)
GatesPassed(r) ==
  /\ Authorized(r)
  /\ r.path \in {"workspace", "review"}
  /\ r.path = "workspace" => Workspace
  /\ Mutation
  /\ r.token = life
  /\ r.json

(* What a client may put in a request: any secret up to now, the credentials *)
(* it was given, or none; what the handler of a path does not look at is 0.  *)
Sendable(r) ==
  /\ IF r.path = "bootstrap" THEN r.secret <= life /\ r.cookie = 0 ELSE r.secret = 0
  /\ r.path \notin {"workspace", "review"} => r.token = 0
  /\ r.cookie \in cookies \cup {0}
  /\ r.token \in tokens \cup {0}

Receive(t) ==
  /\ thread[t].pc = "free"
  /\ requests < MaxRequests
  /\ requests' = requests + 1
  /\ \E r \in Request :
       /\ Sendable(r)
       /\ \/ /\ r.path = "bootstrap" /\ r.json
             /\ thread' = [thread EXCEPT ![t] = [pc |-> "boot", req |-> r]]
             /\ UNCHANGED tokens
          \/ /\ GatesPassed(r)
             /\ thread' = [thread EXCEPT ![t] = [pc |-> "id", req |-> r]]
             /\ UNCHANGED tokens
          \/ \* GET /api/session answers the mutation credentials
             /\ r.path = "session" /\ Authorized(r)
             /\ tokens' = tokens \cup {life}
             /\ UNCHANGED thread
          \/ \* refused: 400, 401, 403 or 404
             /\ r.path = "bootstrap" => ~r.json
             /\ r.path = "session" => ~Authorized(r)
             /\ ~GatesPassed(r)
             /\ UNCHANGED <<thread, tokens>>
  /\ UNCHANGED <<life, age, shared, cookies, granted, done>>

----------------------------------------------------------------------------
(* _handle_bootstrap_exchange *)

LockBootstrap(t) ==
  /\ thread[t].pc = "boot"
  /\ bootLock = NoThread
  /\ bootLock' = t
  /\ Goto(t, "consult")
  /\ UNCHANGED <<life, age, consumed, url, idLock, seen, client, requests>>

Expired == age > TTL

(* Is it still there, and is the secret right?  An expired one is retired.   *)
ConsultBootstrap(t) ==
  /\ thread[t].pc = "consult"
  /\ Goto(t, IF consumed \/ Expired \/ thread[t].req.secret # life
               THEN "refuse" ELSE "consume")
  /\ IF Expired THEN consumed' = TRUE /\ url' = FALSE ELSE UNCHANGED <<consumed, url>>
  /\ UNCHANGED <<life, age, bootLock, idLock, seen, client, requests>>

(* Retire it and leave the lock *)
ConsumeBootstrap(t) ==
  /\ thread[t].pc = "consume"
  /\ consumed' = TRUE
  /\ url' = FALSE
  /\ bootLock' = NoThread
  /\ Goto(t, "grant")
  /\ UNCHANGED <<life, age, idLock, seen, client, requests>>

(* The refusal is sent inside the lock; a client that is gone raises there,  *)
(* which leaves the lock as well.                                            *)
RefuseBootstrap(t) ==
  /\ thread[t].pc = "refuse"
  /\ bootLock' = NoThread
  /\ Goto(t, "free")
  /\ UNCHANGED <<life, age, consumed, url, idLock, seen, client, requests>>

(* The reply that carries the cookie and the mutation credentials.  It may   *)
(* never reach the client: then nobody has a session in this life.           *)
GrantSession(t) ==
  /\ thread[t].pc = "grant"
  /\ granted' = granted \cup {life}
  /\ \/ cookies' = cookies \cup {life} /\ tokens' = tokens \cup {life}
     \/ UNCHANGED <<cookies, tokens>>
  /\ Goto(t, "free")
  /\ UNCHANGED <<life, age, shared, done, requests>>

----------------------------------------------------------------------------
(* do_POST: the request id, used once *)

(* Mutant: the lock is taken by everybody *)
LockIdsNot(t) ==
  /\ thread[t].pc = "id"
  /\ idLock' = t
  /\ Goto(t, "look")
  /\ UNCHANGED <<life, age, consumed, url, bootLock, seen, client, requests>>

LockIds(t) ==
  /\ thread[t].pc = "id"
  /\ idLock = NoThread
  /\ idLock' = t
  /\ Goto(t, "look")
  /\ UNCHANGED <<life, age, consumed, url, bootLock, seen, client, requests>>

LookForId(t) ==
  /\ thread[t].pc = "look"
  /\ Goto(t, IF thread[t].req.rid \in seen THEN "conflict" ELSE "add")
  /\ UNCHANGED <<life, age, shared, client, requests>>

(* Mutant: the lock is not released *)
AddIdHolding(t) ==
  /\ thread[t].pc = "add"
  /\ seen' = seen \cup {thread[t].req.rid}
  /\ Goto(t, "execute")
  /\ UNCHANGED <<life, age, consumed, url, bootLock, idLock, client, requests>>

AddId(t) ==
  /\ thread[t].pc = "add"
  /\ seen' = seen \cup {thread[t].req.rid}
  /\ idLock' = NoThread
  /\ Goto(t, "execute")
  /\ UNCHANGED <<life, age, consumed, url, bootLock, client, requests>>

(* duplicate_mutation_request is sent inside the lock *)
RefuseDuplicate(t) ==
  /\ thread[t].pc = "conflict"
  /\ idLock' = NoThread
  /\ Goto(t, "free")
  /\ UNCHANGED <<life, age, consumed, url, bootLock, seen, client, requests>>

(* capture_response, graphrag_response, review_action_response: it writes,   *)
(* or it fails, and the id stays used in either case.                        *)
Execute(t) ==
  /\ thread[t].pc = "execute"
  /\ \/ done' = done \cup {<<life, thread[t].req.rid>>}
     \/ UNCHANGED done
  /\ Goto(t, "free")
  /\ UNCHANGED <<life, age, shared, cookies, tokens, granted, requests>>

----------------------------------------------------------------------------
(* Time passes; the operator stops the server and starts it again. *)

Tick ==
  /\ age <= TTL
  /\ age' = age + 1
  /\ UNCHANGED <<life, shared, thread, client, requests>>

Restart ==
  /\ life < MaxLives
  /\ life' = life + 1
  /\ age' = 0 /\ requests' = 0
  /\ consumed' = FALSE /\ url' = TRUE
  /\ bootLock' = NoThread /\ idLock' = NoThread /\ seen' = {}
  /\ thread' = [t \in Threads |-> Free]
  /\ UNCHANGED client

----------------------------------------------------------------------------
Init ==
  /\ life = 1 /\ age = 0 /\ requests = 0
  /\ consumed = FALSE /\ url = TRUE
  /\ bootLock = NoThread /\ idLock = NoThread /\ seen = {}
  /\ thread = [t \in Threads |-> Free]
  /\ cookies = {} /\ tokens = {} /\ granted = {} /\ done = {}

Work(t) ==
  \/ LockBootstrap(t) \/ ConsultBootstrap(t) \/ ConsumeBootstrap(t)
  \/ RefuseBootstrap(t) \/ GrantSession(t)
  \/ LockIds(t) \/ LookForId(t) \/ AddId(t) \/ RefuseDuplicate(t) \/ Execute(t)

Next == Tick \/ Restart \/ \E t \in Threads : Receive(t) \/ Work(t)

(* A thread that runs goes on running, and one that waits for a lock gets it *)
(* when it is free often enough.                                             *)
Fairness == \A t \in Threads : WF_vars(Work(t))

Spec == Init /\ [][Next]_vars /\ Fairness

----------------------------------------------------------------------------
(* Properties *)

Pcs == {"free", "boot", "consult", "consume", "refuse", "grant",
        "id", "look", "add", "conflict", "execute"}

(* The values the server's state and the threads take. *)
TypeOK ==
  /\ life \in Lives /\ age \in 0 .. TTL + 1 /\ requests \in 0 .. MaxRequests
  /\ consumed \in BOOLEAN /\ url \in BOOLEAN
  /\ bootLock \in Threads \cup {NoThread} /\ idLock \in Threads \cup {NoThread}
  /\ seen \subseteq RequestIds
  /\ thread \in [Threads -> [pc : Pcs, req : Request]]
  /\ cookies \subseteq Lives /\ tokens \subseteq Lives /\ granted \subseteq Lives
  /\ done \subseteq Lives \X RequestIds

(* ADR-0106, ADR-0081, what the threads, their two locks and the restarts     *)
(* amount to: a bootstrap leads to one session per life of the server, every  *)
(* write follows one and runs under an id that nothing else ran or runs       *)
(* under.  Exchange is ConsumeBootstrap, Claim is AddId, the others are named  *)
(* alike; every other step changes nothing that is promised.                  *)
Promise == INSTANCE AtMostOnce WITH
  Parties <- Threads, Ids <- RequestIds,
  era <- life, open <- ~consumed,
  holders <- {t \in Threads : thread[t].pc = "grant"},
  sessions <- granted, used <- seen,
  writing <- {thread[t].req.rid : t \in {u \in Threads : thread[u].pc = "execute"}},
  written <- done

UsesOnce == Promise!Spec

(* ADR-0106: a bootstrap establishes at most one session: who is about to    *)
(* be granted one is alone with it, nobody was before in this life, and what *)
(* leads to another one is retired.                                          *)
OneSession ==
  \A t \in Threads : thread[t].pc = "grant" =>
    /\ life \notin granted
    /\ consumed /\ ~url
    /\ \A u \in Threads : u # t => thread[u].pc \notin {"consume", "grant"}

(* ADR-0081: a mutation request id is used once in the life of a server: the *)
(* write that is about to run has not run and does not run on another thread. *)
ExecutedOnce ==
  \A t \in Threads : thread[t].pc = "execute" =>
    /\ <<life, thread[t].req.rid>> \notin done
    /\ \A u \in Threads \ {t} :
         thread[u].pc = "execute" => thread[u].req.rid # thread[t].req.rid

(* Every write belongs to a life that granted a session before: credentials  *)
(* of an earlier life, or a bare cookie, open nothing.                       *)
WritesHaveSession == \A w \in done : w[1] \in granted

(* A thread past the gates of a write has this life's cookie and token, even *)
(* when the server was restarted while the browser kept its old ones.        *)
WritersAreCurrent ==
  \A t \in Threads : thread[t].pc \in {"id", "look", "add", "conflict", "execute"} =>
    thread[t].req.cookie = life /\ thread[t].req.token = life /\ Mutation

(* Every request is answered, or dies with its server: the locks are left on *)
(* every way out.                                                            *)
Answered == \A t \in Threads : thread[t].pc # "free" ~> thread[t].pc = "free"
=============================================================================
