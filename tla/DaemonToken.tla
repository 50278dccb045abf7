---------------------------- MODULE DaemonToken -----------------------------
(***************************************************************************)
(* The credential file of the loopback daemon: daemon_token_file creates   *)
(* it exclusively before the port is bound, remembers the file's identity  *)
(* (device and inode), and removes it when the daemon ends if the path     *)
(* still leads to that identity.  The module is about one token path and   *)
(* the daemons started with it; --token-file and --port give another       *)
(* daemon, also one on the same root, another path and port.  Signals and  *)
(* errors of the operating system arrive at any moment; SIGKILL runs no    *)
(* cleanup and leaves the removal of the stale file to the operator.       *)
(*                                                                         *)
(* An inode is free again once no path and no descriptor leads to it, and  *)
(* a file system may give its number to the next file: identity is the     *)
(* number.  The number of a run stands for the token it generated.         *)
(***************************************************************************)
EXTENDS Naturals, FiniteSets

CONSTANTS
  Daemons,   \* processes that run chronicle daemon with this token path
  Inodes,    \* inode numbers, positive
  MaxRuns    \* bound: daemons started

ASSUME InodesAssumption == Inodes \subseteq Nat \ {0}
ASSUME RunsAssumption == MaxRuns \in Nat

VARIABLES
  path,     \* the inode that the token path leads to, 0 none
  maker,    \* the run that created an inode
  token,    \* the run whose token is written in it, 0 none yet
  port,     \* the run that has bound the port, 0 none
  daemon,   \* where each process is, its run, the inode it created
  runs,     \* runs started
  killed, interrupted, failed,  \* history: a run was killed, was interrupted without cleanup,
                                \* met an error of the system where it cannot clean up;
  careless                      \* the operator removed a file while a daemon ran

file == <<path, maker, token>>
history == <<killed, interrupted, failed, careless>>
tokenVars == <<file, port, daemon, runs, history>>

Off == [pc |-> "off", run |-> 0, ino |-> 0]

Goto(d, where) ==
  daemon' = [daemon EXCEPT ![d] = IF where = "off" THEN Off ELSE [@ EXCEPT !.pc = where]]

(* Descriptors are open until the token is written. *)
InUse(i) == path = i \/ \E d \in Daemons : daemon[d].pc \in {"created", "identified"}
                                           /\ daemon[d].ino = i

----------------------------------------------------------------------------
(* daemon_token_file *)

(* Mutant: O_CREAT | O_TRUNC, an existing file is used *)
CreateAnyway(d) ==
  /\ daemon[d].pc = "off"
  /\ runs < MaxRuns
  /\ runs' = runs + 1
  /\ \E i \in Inodes :
       /\ IF path = 0 THEN ~InUse(i) ELSE i = path
       /\ path' = i
       /\ maker' = [maker EXCEPT ![i] = runs + 1]
       /\ token' = [token EXCEPT ![i] = 0]
       /\ daemon' = [daemon EXCEPT ![d] = [pc |-> "created", run |-> runs + 1, ino |-> i]]
  /\ UNCHANGED <<port, history>>

(* os.open with O_CREAT | O_EXCL; an existing file ends the start *)
Create(d) ==
  /\ daemon[d].pc = "off"
  /\ runs < MaxRuns
  /\ runs' = runs + 1
  /\ path = 0
  /\ \E i \in Inodes :
       /\ ~InUse(i)
       /\ path' = i
       /\ maker' = [maker EXCEPT ![i] = runs + 1]
       /\ token' = [token EXCEPT ![i] = 0]
       /\ daemon' = [daemon EXCEPT ![d] = [pc |-> "created", run |-> runs + 1, ino |-> i]]
  /\ UNCHANGED <<port, history>>

(* os.fstat: from here on cleanup knows the file.  A restrictive umask shows *)
(* here, as a mode other than 0600, and ends the start.                      *)
Identify(d) ==
  /\ daemon[d].pc = "created"
  /\ \E where \in {"identified", "cleanup"} : Goto(d, where)
  /\ UNCHANGED <<file, port, runs, history>>

(* Mutant: the file is published before its content *)
WriteTokenLater(d) ==
  /\ daemon[d].pc = "identified"
  /\ \E where \in {"bind", "cleanup"} : Goto(d, where)
  /\ UNCHANGED <<file, port, runs, history>>

(* Write, flush, fsync, close; or the disk is full *)
WriteToken(d) ==
  /\ daemon[d].pc = "identified"
  /\ \/ Goto(d, "bind") /\ token' = [token EXCEPT ![daemon[d].ino] = daemon[d].run]
     \/ Goto(d, "cleanup") /\ UNCHANGED token
  /\ UNCHANGED <<path, maker, port, runs, history>>

(* Mutant: an error while binding skips the cleanup *)
BindOrLeave(d) ==
  /\ daemon[d].pc = "bind"
  /\ \/ port = 0 /\ port' = daemon[d].run /\ Goto(d, "serving")
     \/ Goto(d, "off") /\ UNCHANGED port
  /\ UNCHANGED <<file, runs, history>>

(* make_daemon_server binds the port, or cannot: it is taken, by one of these *)
(* daemons or by any other program.                                          *)
Bind(d) ==
  /\ daemon[d].pc = "bind"
  /\ \/ port = 0 /\ port' = daemon[d].run /\ Goto(d, "serving")
     \/ Goto(d, "cleanup") /\ UNCHANGED port
  /\ UNCHANGED <<file, runs, history>>

(* path.lstat: is it the file that was created? *)
LookAtPath(d) ==
  /\ daemon[d].pc = "cleanup"
  /\ Goto(d, IF path = daemon[d].ino THEN "unlink" ELSE "off")
  /\ UNCHANGED <<file, port, runs, history>>

(* path.unlink: whatever is there now *)
Unlink(d) ==
  /\ daemon[d].pc = "unlink"
  /\ path' = 0
  /\ Goto(d, "off")
  /\ UNCHANGED <<maker, token, port, runs, history>>

(* os.fstat, path.lstat or path.unlink raises an OSError: without an identity *)
(* no cleanup runs, and the cleanup itself ends in DAEMON_TOKEN_CLEANUP.     *)
OsFails(d) ==
  /\ daemon[d].pc \in {"created", "cleanup", "unlink"}
  /\ failed' = TRUE
  /\ Goto(d, "off")
  /\ UNCHANGED <<file, port, runs, killed, interrupted, careless>>

----------------------------------------------------------------------------
(* SIGTERM and Ctrl-C raise KeyboardInterrupt where the main thread is.      *)

(* Where the with statement still runs its cleanup *)
Interrupt(d) ==
  /\ daemon[d].pc \in {"identified", "bind", "serving"}
  /\ port' = IF port = daemon[d].run THEN 0 ELSE port
  /\ Goto(d, "cleanup")
  /\ UNCHANGED <<file, runs, history>>

(* Before the identity is known there is nothing to clean up, and a signal   *)
(* in the middle of the cleanup ends it.                                     *)
InterruptUncleaned(d) ==
  /\ daemon[d].pc \in {"created", "cleanup", "unlink"}
  /\ interrupted' = TRUE
  /\ Goto(d, "off")
  /\ UNCHANGED <<file, port, runs, killed, failed, careless>>

Kill(d) ==
  /\ daemon[d].pc # "off"
  /\ killed' = TRUE
  /\ port' = IF port = daemon[d].run THEN 0 ELSE port
  /\ Goto(d, "off")
  /\ UNCHANGED <<file, runs, interrupted, failed, careless>>

(* The operator, an external agent, removes a token file: a stale one, or,   *)
(* carelessly, that of a daemon that runs.                                   *)
RemoveStale ==
  /\ path # 0
  /\ careless' = (careless \/ \E d \in Daemons : daemon[d].pc # "off")
  /\ path' = 0
  /\ UNCHANGED <<maker, token, port, daemon, runs, killed, interrupted, failed>>

----------------------------------------------------------------------------
TokenInit ==
  /\ path = 0
  /\ maker = [i \in Inodes |-> 0] /\ token = [i \in Inodes |-> 0]
  /\ port = 0
  /\ daemon = [d \in Daemons |-> Off]
  /\ runs = 0
  /\ killed = FALSE /\ interrupted = FALSE /\ failed = FALSE /\ careless = FALSE

Step(d) ==
  \/ Create(d) \/ Identify(d) \/ WriteToken(d) \/ Bind(d) \/ LookAtPath(d) \/ Unlink(d)
  \/ OsFails(d) \/ Interrupt(d) \/ InterruptUncleaned(d) \/ Kill(d)

TokenNext == RemoveStale \/ \E d \in Daemons : Step(d)

TokenSpec == TokenInit /\ [][TokenNext]_tokenVars

----------------------------------------------------------------------------
(* Properties *)

Pcs == {"off", "created", "identified", "bind", "serving", "cleanup", "unlink"}

(* The values the file, the port and the processes take. *)
TypeOK ==
  /\ path \in Inodes \cup {0}
  /\ maker \in [Inodes -> 0 .. MaxRuns] /\ token \in [Inodes -> 0 .. MaxRuns]
  /\ port \in 0 .. MaxRuns /\ runs \in 0 .. MaxRuns
  /\ daemon \in [Daemons -> [pc : Pcs, run : 0 .. MaxRuns, ino : Inodes \cup {0}]]
  /\ history \in BOOLEAN \X BOOLEAN \X BOOLEAN \X BOOLEAN

(* A daemon that serves can be reached with what a client reads from the     *)
(* token path: it leads to the file this daemon made, and holds its token.   *)
(* This needs an operator who never removed the file of a running daemon.    *)
ServingIsPublished ==
  ~careless =>
    \A d \in Daemons : daemon[d].pc = "serving" =>
      /\ path # 0
      /\ maker[path] = daemon[d].run /\ token[path] = daemon[d].run
      /\ port = daemon[d].run

(* One token path has one daemon at a time: from creating the file until     *)
(* removing it, a run shares the path with no other one.  (Two daemons of    *)
(* one root with different paths are two instances of this module.)          *)
OneDaemonPerPath ==
  ~careless =>
    \A d, e \in Daemons : d # e => daemon[d].pc = "off" \/ daemon[e].pc = "off"

(* A file that no run owns any more is there only after a kill, after a      *)
(* signal that met no cleanup to run (see RemovedOnSignal), or after an      *)
(* error of the system before or in the cleanup.                             *)
LeftBehindOnlyAbruptly ==
  path # 0 =>
    \/ killed \/ interrupted \/ failed
    \/ \E d \in Daemons : daemon[d].pc # "off" /\ daemon[d].ino = path

----------------------------------------------------------------------------
(* What ADR-0107 says and the code does not keep *)

(* Cleanup does not unlink a replacement: what is unlinked is this run's own *)
(* file, or nothing.                                                         *)
ReplacementKept ==
  \A d \in Daemons : daemon[d].pc = "unlink" /\ path # 0 => maker[path] = daemon[d].run

(* The file is removed on SIGTERM and Ctrl-C: only a kill, or a system that  *)
(* does not let it be removed, leaves it behind.                             *)
RemovedOnSignal ==
  path # 0 =>
    \/ killed \/ failed
    \/ \E d \in Daemons : daemon[d].pc # "off" /\ daemon[d].ino = path
=============================================================================
