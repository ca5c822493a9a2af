----------------------------- MODULE Lifecycle -----------------------------
(***************************************************************************)
(* How clients find, start and lose the daemon: connect_with_spawn and     *)
(* connect_and_handshake (src/src/client/stub.rs), spawn_daemon            *)
(* (src/src/client/spawn.rs), run_orphan (src/src/daemon/mod.rs) around    *)
(* the supervisor, and shutdown_daemon (src/src/python.rs).                *)
(*                                                                         *)
(* The processes meet in the runtime directory: the socket file, the pid   *)
(* file, the clients' spawn lock and the daemons' instance lock.  Both     *)
(* locks are advisory file locks, which the kernel drops when their holder *)
(* dies.  One step is one system call on one of the four.                  *)
(***************************************************************************)
EXTENDS Naturals, FiniteSets

CONSTANTS
  Clients,    \* client processes, each making one connection
  None,       \* no process
  MaxForks,   \* bound on the number of daemons started
  Events      \* what may happen: "idle" exits, "stop" requests, "kill" -9 of
              \* any process, "launch" failures

Pids == 1..MaxForks   \* the daemon processes, in the order of their forks

ASSUME LifecycleAssumption ==
  /\ MaxForks \in Nat
  /\ None \notin Clients \cup Pids

VARIABLES
  daemon,       \* each daemon process: where it is in run_orphan
  instanceLock, \* its holder
  socket,       \* the process that bound the socket file, None if no file
  pidFile,      \* the process named in the pid file, None if no file
  signalled,    \* daemons with a SIGTERM their handler has taken
  client,       \* each client: where it is in connect_and_handshake
  spawnLock,    \* its holder
  stop,         \* shutdown_daemon: the pid it has read, None otherwise
  disturbed     \* a daemon has begun to leave, a process has been killed or a
                \* launch has failed; read by the properties only

vars == <<daemon, instanceLock, socket, pidFile, signalled, client, spawnLock, stop, disturbed>>
files == <<socket, pidFile>>

ClientStates == {"try", "lockWait", "recheck", "spawn", "poll", "hello",
                 "accepted", "connected", "failed", "done"}
DaemonStates == {"unborn", "lock", "stale", "pid", "bind", "handler", "serve",
                 "drain", "rmSocket", "rmPid", "unlock", "gone"}

Init ==
  /\ daemon = [p \in Pids |-> "unborn"]
  /\ instanceLock = None
  /\ socket = None
  /\ pidFile = None
  /\ signalled = {}
  /\ client = [k \in Clients |-> [pc |-> "try", peer |-> None, retried |-> FALSE]]
  /\ spawnLock = None
  /\ stop = None
  /\ disturbed = FALSE

-----------------------------------------------------------------------------
(* run_orphan *)

Move(p, pc) == daemon' = [daemon EXCEPT ![p] = pc]

\* daemonize: the launcher's double fork leaves an orphan that runs run_orphan.
Fork(p) ==
  /\ \A q \in Pids : daemon[q] = "unborn" <=> q >= p
  /\ Move(p, "lock")

\* `try_write` of the instance lock: without it the process stands down.
TryLock(p) ==
  /\ daemon[p] = "lock"
  /\ IF instanceLock = None
     THEN instanceLock' = p /\ Move(p, "stale")
     ELSE Move(p, "gone") /\ UNCHANGED instanceLock
  /\ UNCHANGED <<files, signalled, client, spawnLock, stop, disturbed>>

\* A socket file that is there is a dead daemon's.
RemoveStale(p) ==
  /\ daemon[p] = "stale"
  /\ socket' = None
  /\ Move(p, "pid")
  /\ UNCHANGED <<instanceLock, pidFile, signalled, client, spawnLock, stop, disturbed>>

WritePid(p) ==
  /\ daemon[p] = "pid"
  /\ pidFile' = p
  /\ Move(p, "bind")
  /\ UNCHANGED <<instanceLock, socket, signalled, client, spawnLock, stop, disturbed>>

\* `UnixListener::bind`; when the file exists `run` fails and run_orphan goes
\* on to its cleanup.
Bind(p) ==
  /\ daemon[p] = "bind"
  /\ IF socket = None
     THEN socket' = p /\ Move(p, "handler")
     ELSE Move(p, "rmSocket") /\ UNCHANGED socket
  /\ UNCHANGED <<instanceLock, pidFile, signalled, client, spawnLock, stop, disturbed>>

\* `signal(SignalKind::terminate())`: from here on SIGTERM is not fatal.
InstallHandler(p) ==
  /\ daemon[p] = "handler"
  /\ Move(p, "serve")
  /\ UNCHANGED <<instanceLock, files, signalled, client, spawnLock, stop, disturbed>>

\* The select loop ends, by SIGTERM or idle.  The listener stays open, but
\* nothing accepts any more.  The idle timeout is far longer than the pause
\* between two polls: it passes after a client has left, and not under one
\* that is polling.
BeginDrain(p) ==
  /\ daemon[p] = "serve"
  /\ \/ p \in signalled
     \/ /\ "idle" \in Events
        /\ \E k \in Clients : client[k].pc \in {"done", "failed"}
        /\ \A k \in Clients :
             /\ client[k].pc # "poll"
             /\ client[k].peer = p => client[k].pc # "connected"
  /\ Move(p, "drain")
  /\ disturbed' = TRUE
  /\ UNCHANGED <<instanceLock, files, signalled, client, spawnLock, stop>>

\* Mutant: the instance lock is dropped before the files are removed.
CloseListenerUnlocking(p) ==
  /\ daemon[p] = "drain"
  /\ instanceLock' = None
  /\ Move(p, "rmSocket")
  /\ UNCHANGED <<files, signalled, client, spawnLock, stop, disturbed>>

\* `run` returns and drops the listener.
CloseListener(p) ==
  /\ daemon[p] = "drain"
  /\ Move(p, "rmSocket")
  /\ UNCHANGED <<instanceLock, files, signalled, client, spawnLock, stop, disturbed>>

\* `remove_file(&config.socket)`, whoever's file it is.
RemoveSocket(p) ==
  /\ daemon[p] = "rmSocket"
  /\ socket' = None
  /\ Move(p, "rmPid")
  /\ UNCHANGED <<instanceLock, pidFile, signalled, client, spawnLock, stop, disturbed>>

\* `remove_file(&config.pid)`.
RemovePid(p) ==
  /\ daemon[p] = "rmPid"
  /\ pidFile' = None
  /\ Move(p, "unlock")
  /\ UNCHANGED <<instanceLock, socket, signalled, client, spawnLock, stop, disturbed>>

\* The runtime and then the lock guard are dropped; the process ends.
Unlock(p) ==
  /\ daemon[p] = "unlock"
  /\ instanceLock' = None
  /\ Move(p, "gone")
  /\ UNCHANGED <<files, signalled, client, spawnLock, stop, disturbed>>

\* The process dies where it is: its lock goes, its files stay.
Die(p) ==
  /\ Move(p, "gone")
  /\ instanceLock' = IF instanceLock = p THEN None ELSE instanceLock
  /\ disturbed' = TRUE
  /\ UNCHANGED <<files, signalled>>

KillDaemon(p) ==
  /\ "kill" \in Events
  /\ daemon[p] \notin {"unborn", "gone"}
  /\ Die(p)
  /\ UNCHANGED <<client, spawnLock, stop>>

-----------------------------------------------------------------------------
(* connect_and_handshake *)

Listening(p) == p # None /\ daemon[p] \in {"handler", "serve", "drain"}

To(k, pc) == client' = [client EXCEPT ![k].pc = pc]

\* `try_connect` succeeds.
Reach(k) == client' = [client EXCEPT ![k].pc = "hello", ![k].peer = socket]

Release(k) == spawnLock' = IF spawnLock = k THEN None ELSE spawnLock

\* The first `try_connect`.
TryConnect(k) ==
  /\ client[k].pc = "try"
  /\ IF Listening(socket) THEN Reach(k) ELSE To(k, "lockWait")
  /\ UNCHANGED <<daemon, instanceLock, files, signalled, spawnLock, stop, disturbed>>

\* `spawn_lock.write`.
TakeSpawnLock(k) ==
  /\ client[k].pc = "lockWait"
  /\ spawnLock = None
  /\ spawnLock' = k
  /\ To(k, "recheck")
  /\ UNCHANGED <<daemon, instanceLock, files, signalled, stop, disturbed>>

\* Mutant: a client that gets the spawn lock spawns.
RecheckNothing(k) ==
  /\ client[k].pc = "recheck"
  /\ To(k, "spawn")
  /\ UNCHANGED <<daemon, instanceLock, files, signalled, spawnLock, stop, disturbed>>

\* "Another client may have won the race".
Recheck(k) ==
  /\ client[k].pc = "recheck"
  /\ IF Listening(socket) THEN Reach(k) /\ Release(k)
     ELSE To(k, "spawn") /\ UNCHANGED spawnLock
  /\ UNCHANGED <<daemon, instanceLock, files, signalled, stop, disturbed>>

\* spawn_daemon: the launcher has forked the orphan when its wait returns.
Spawn(k) ==
  /\ client[k].pc = "spawn"
  /\ \E p \in Pids : Fork(p)
  /\ To(k, "poll")
  /\ UNCHANGED <<instanceLock, files, signalled, spawnLock, stop, disturbed>>

\* spawn_daemon: the launcher fails before its fork.
SpawnFail(k) ==
  /\ "launch" \in Events
  /\ client[k].pc = "spawn"
  /\ To(k, "failed")
  /\ Release(k)
  /\ disturbed' = TRUE
  /\ UNCHANGED <<daemon, instanceLock, files, signalled, stop>>

\* Mutant: the spawn lock's guard outlives the connect.
PollKeepsLock(k) ==
  /\ client[k].pc = "poll"
  /\ Listening(socket)
  /\ Reach(k)
  /\ UNCHANGED <<daemon, instanceLock, files, signalled, spawnLock, stop, disturbed>>

\* Mutant: a dead socket counts as a connection.
PollBlindly(k) ==
  /\ client[k].pc = "poll"
  /\ Reach(k)
  /\ Release(k)
  /\ UNCHANGED <<daemon, instanceLock, files, signalled, stop, disturbed>>

\* A `try_connect` of the poll loop that succeeds.
Poll(k) ==
  /\ client[k].pc = "poll"
  /\ Listening(socket)
  /\ Reach(k)
  /\ Release(k)
  /\ UNCHANGED <<daemon, instanceLock, files, signalled, stop, disturbed>>

\* Mutant: the poll loop has no deadline.
PollForever(k) ==
  /\ client[k].pc = "poll"
  /\ UNCHANGED vars

\* SPAWN_TIMEOUT passes.  It is far longer than a daemon takes to start, so
\* it passes only when none is listening or on its way to.
PollTimeout(k) ==
  /\ client[k].pc = "poll"
  /\ \A p \in Pids : daemon[p] \notin {"lock", "stale", "pid", "bind"}
  /\ ~Listening(socket)
  /\ To(k, "failed")
  /\ Release(k)
  /\ UNCHANGED <<daemon, instanceLock, files, signalled, stop, disturbed>>

\* The select loop takes the connection out of the listener's backlog.
Accept(k) ==
  /\ client[k].pc = "hello"
  /\ daemon[client[k].peer] = "serve"
  /\ To(k, "accepted")
  /\ UNCHANGED <<daemon, instanceLock, files, signalled, spawnLock, stop, disturbed>>

\* `hello` is answered by the connection's task, which runs until the
\* runtime is dropped.
Welcome(k) ==
  /\ client[k].pc = "accepted"
  /\ daemon[client[k].peer] # "gone"
  /\ To(k, "connected")
  /\ UNCHANGED <<daemon, instanceLock, files, signalled, spawnLock, stop, disturbed>>

\* `hello` reads EOF, from a listener closed with the connection in its
\* backlog or from a process that is gone: the first time, the whole connect
\* is retried.
HelloEof(k) ==
  /\ \/ client[k].pc = "hello" /\ ~Listening(client[k].peer)
     \/ client[k].pc = "accepted" /\ daemon[client[k].peer] = "gone"
  /\ client' = [client EXCEPT ![k] =
                  [pc |-> IF client[k].retried THEN "failed" ELSE "try",
                   peer |-> None, retried |-> TRUE]]
  /\ UNCHANGED <<daemon, instanceLock, files, signalled, spawnLock, stop, disturbed>>

\* The client is finished with the connection.
Bye(k) ==
  /\ client[k].pc = "connected"
  /\ To(k, "done")
  /\ UNCHANGED <<daemon, instanceLock, files, signalled, spawnLock, stop, disturbed>>

KillClient(k) ==
  /\ "kill" \in Events
  /\ client[k].pc \notin {"failed", "done"}
  /\ To(k, "done")
  /\ Release(k)
  /\ disturbed' = TRUE
  /\ UNCHANGED <<daemon, instanceLock, files, signalled, stop>>

-----------------------------------------------------------------------------
(* shutdown_daemon *)

ReadPid ==
  /\ "stop" \in Events
  /\ stop = None /\ pidFile # None
  /\ stop' = pidFile
  /\ UNCHANGED <<daemon, instanceLock, files, signalled, client, spawnLock, disturbed>>

\* `kill(pid, SIGTERM)`: until `run` has installed its handler the signal's
\* default action ends the process; ESRCH if it is gone.
Signal ==
  /\ stop # None
  /\ \/ daemon[stop] \in {"bind", "handler"} /\ Die(stop)
     \/ /\ daemon[stop] \notin {"bind", "handler"}
        /\ signalled' = IF daemon[stop] = "gone" THEN signalled ELSE signalled \cup {stop}
        /\ UNCHANGED <<daemon, instanceLock, files, disturbed>>
  /\ stop' = None
  /\ UNCHANGED <<client, spawnLock>>

-----------------------------------------------------------------------------
DaemonStep(p) ==
  \/ TryLock(p) \/ RemoveStale(p) \/ WritePid(p) \/ Bind(p) \/ InstallHandler(p)
  \/ CloseListener(p) \/ RemoveSocket(p) \/ RemovePid(p) \/ Unlock(p)

ClientStep(k) ==
  \/ TryConnect(k) \/ TakeSpawnLock(k) \/ Recheck(k)
  \/ Spawn(k) \/ SpawnFail(k) \/ Poll(k) \/ PollTimeout(k)
  \/ Accept(k) \/ Welcome(k) \/ HelloEof(k)

Next ==
  \/ \E p \in Pids : DaemonStep(p) \/ BeginDrain(p) \/ KillDaemon(p)
  \/ \E k \in Clients : ClientStep(k) \/ Bye(k) \/ KillClient(k)
  \/ ReadPid \/ Signal

Spec == Init /\ [][Next]_vars

\* Every process runs, and a client that waits for the spawn lock gets it
\* when it keeps becoming free.
FairSpec ==
  /\ Spec
  /\ \A p \in Pids : WF_vars(DaemonStep(p))
  /\ \A k \in Clients : WF_vars(ClientStep(k)) /\ SF_vars(TakeSpawnLock(k))

-----------------------------------------------------------------------------
(* Properties *)

\* Every variable has its type, and a client past its connect has a peer.
TypeOK ==
  /\ daemon \in [Pids -> DaemonStates]
  /\ instanceLock \in Pids \cup {None}
  /\ socket \in Pids \cup {None}
  /\ pidFile \in Pids \cup {None}
  /\ signalled \subseteq Pids
  /\ client \in [Clients -> [pc : ClientStates, peer : Pids \cup {None}, retried : BOOLEAN]]
  /\ \A k \in Clients :
       client[k].pc \in {"hello", "accepted", "connected"} => client[k].peer \in Pids
  /\ spawnLock \in Clients \cup {None}
  /\ stop \in Pids \cup {None}
  /\ disturbed \in BOOLEAN

\* While a daemon listens, the socket file and the pid file are its own: an
\* exiting predecessor's cleanup, a successor's stale-socket removal and a
\* crash in between never take them away, so that new clients reach it and
\* shutdown_daemon signals it.
ServingReachable ==
  \A p \in Pids : Listening(p) => socket = p /\ pidFile = p

\* "Serialize spawning across clients": as long as nothing leaves, dies or
\* fails, the clients of a cold start fork one daemon between them.
OneDaemon == ~disturbed => Cardinality({p \in Pids : daemon[p] # "unborn"}) <= 1

\* A client's connect always returns, whoever dies holding either lock.
ConnectReturns ==
  \A k \in Clients : client[k].pc = "try" ~> client[k].pc \in {"connected", "failed", "done"}

\* If nothing ever leaves, dies or fails, every client of a cold start is
\* connected in the end.
ColdStartConnects ==
  []~disturbed => \A k \in Clients : <>(client[k].pc = "connected")
=============================================================================
