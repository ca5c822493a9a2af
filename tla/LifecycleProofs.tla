-------------------------- MODULE LifecycleProofs --------------------------
(***************************************************************************)
(* Theorems about Lifecycle, for any clients, any number of daemons and    *)
(* any events.                                                             *)
(***************************************************************************)
EXTENDS Lifecycle, FiniteSetTheorems, TLAPS

-----------------------------------------------------------------------------
(* Types *)

LEMMA PidFact == None \notin Pids /\ \A k \in Clients : k # None
  BY LifecycleAssumption

LEMMA InitType == Init => TypeOK
  <1> SUFFICES ASSUME Init PROVE TypeOK
    OBVIOUS
  <1>1. [pc |-> "try", peer |-> None, retried |-> FALSE]
          \in [pc : ClientStates, peer : Pids \cup {None}, retried : BOOLEAN]
    BY DEF ClientStates
  <1>2. \A k \in Clients : client[k].pc = "try"
    BY DEF Init
  <1> QED
    BY <1>1, <1>2 DEF Init, TypeOK, DaemonStates

LEMMA ToType ==
  ASSUME TypeOK, NEW k \in Clients, NEW pc \in ClientStates \ {"hello", "accepted", "connected"},
         To(k, pc)
  PROVE  /\ client' \in [Clients -> [pc : ClientStates, peer : Pids \cup {None}, retried : BOOLEAN]]
         /\ \A j \in Clients :
              client'[j].pc \in {"hello", "accepted", "connected"} => client'[j].peer \in Pids
  BY DEF TypeOK, To, ClientStates

LEMMA ReachType ==
  ASSUME TypeOK, NEW k \in Clients, Listening(socket), Reach(k)
  PROVE  /\ client' \in [Clients -> [pc : ClientStates, peer : Pids \cup {None}, retried : BOOLEAN]]
         /\ \A j \in Clients :
              client'[j].pc \in {"hello", "accepted", "connected"} => client'[j].peer \in Pids
  BY DEF TypeOK, Reach, Listening, ClientStates

LEMMA DaemonStepType ==
  ASSUME TypeOK, NEW p \in Pids, DaemonStep(p) \/ BeginDrain(p) \/ KillDaemon(p)
  PROVE  TypeOK'
  <1>1. daemon' \in [Pids -> DaemonStates]
    BY DEF TypeOK, DaemonStep, TryLock, RemoveStale, WritePid, Bind, InstallHandler, CloseListener,
       RemoveSocket, RemovePid, Unlock, BeginDrain, KillDaemon, Die, Move, DaemonStates
  <1>2. /\ instanceLock' \in Pids \cup {None} /\ socket' \in Pids \cup {None}
        /\ pidFile' \in Pids \cup {None} /\ signalled' = signalled /\ client' = client
        /\ spawnLock' = spawnLock /\ stop' = stop /\ disturbed' \in BOOLEAN
    BY DEF TypeOK, DaemonStep, TryLock, RemoveStale, WritePid, Bind, InstallHandler, CloseListener,
       RemoveSocket, RemovePid, Unlock, BeginDrain, KillDaemon, Die, files
  <1> QED
    BY <1>1, <1>2 DEF TypeOK

LEMMA ClientStepType ==
  ASSUME TypeOK, NEW k \in Clients, ClientStep(k) \/ Bye(k) \/ KillClient(k)
  PROVE  TypeOK'
  <1> USE DEF files
  <1>1. CASE TryConnect(k)
    BY <1>1, ToType, ReachType DEF TypeOK, TryConnect, ClientStates
  <1>2. CASE TakeSpawnLock(k)
    BY <1>2, ToType DEF TypeOK, TakeSpawnLock, ClientStates
  <1>3. CASE Recheck(k)
    BY <1>3, ToType, ReachType DEF TypeOK, Recheck, Release, ClientStates
  <1>4. CASE Spawn(k)
    <2>1. daemon' \in [Pids -> DaemonStates]
      BY <1>4 DEF TypeOK, Spawn, Fork, Move, DaemonStates
    <2> QED
      BY <1>4, <2>1, ToType DEF TypeOK, Spawn, ClientStates
  <1>5. CASE SpawnFail(k)
    BY <1>5, ToType DEF TypeOK, SpawnFail, Release, ClientStates
  <1>6. CASE Poll(k)
    BY <1>6, ReachType DEF TypeOK, Poll, Release
  <1>7. CASE PollTimeout(k)
    BY <1>7, ToType DEF TypeOK, PollTimeout, Release, ClientStates
  <1>8. CASE Accept(k)
    BY <1>8 DEF TypeOK, Accept, To, ClientStates
  <1>9. CASE Welcome(k)
    BY <1>9 DEF TypeOK, Welcome, To, ClientStates
  <1>10. CASE HelloEof(k)
    <2>1. client' \in [Clients -> [pc : ClientStates, peer : Pids \cup {None}, retried : BOOLEAN]]
      BY <1>10 DEF TypeOK, HelloEof, ClientStates
    <2>2. \A j \in Clients :
            client'[j].pc \in {"hello", "accepted", "connected"} => client'[j].peer \in Pids
      BY <1>10 DEF TypeOK, HelloEof
    <2> QED
      BY <1>10, <2>1, <2>2 DEF TypeOK, HelloEof
  <1>11. CASE Bye(k)
    BY <1>11, ToType DEF TypeOK, Bye, ClientStates
  <1>12. CASE KillClient(k)
    BY <1>12, ToType DEF TypeOK, KillClient, Release, ClientStates
  <1> QED
    BY <1>1, <1>2, <1>3, <1>4, <1>5, <1>6, <1>7, <1>8, <1>9, <1>10, <1>11, <1>12 DEF ClientStep

LEMMA StopType == ASSUME TypeOK, ReadPid \/ Signal PROVE TypeOK'
  BY DEF TypeOK, ReadPid, Signal, Die, Move, files, DaemonStates

LEMMA StepType == TypeOK /\ [Next]_vars => TypeOK'
  <1> SUFFICES ASSUME TypeOK, [Next]_vars PROVE TypeOK'
    OBVIOUS
  <1>1. CASE UNCHANGED vars
    BY <1>1 DEF TypeOK, vars
  <1> QED
    BY <1>1, DaemonStepType, ClientStepType, StopType DEF Next

\* Every variable of the lifecycle keeps its type, and a client that has
\* reached a daemon knows which (connect_and_handshake, run_orphan).
THEOREM TypeCorrect == Spec => []TypeOK
  BY InitType, StepType, PTL DEF Spec

-----------------------------------------------------------------------------
(* The instance lock protects the files *)

\* Where a daemon has the instance lock.
Held == {"stale", "pid", "bind", "handler", "serve", "drain", "rmSocket", "rmPid", "unlock"}

\* A daemon has the lock exactly from its try_write to its end, so that one
\* daemon at a time touches the files: the socket file is gone when it binds
\* and its own while it listens, and the pid file names it from the write on.
FilesInv ==
  /\ \A p \in Pids : daemon[p] \in Held <=> instanceLock = p
  /\ \A p \in Pids : daemon[p] \in {"pid", "bind"} => socket = None
  /\ \A p \in Pids : daemon[p] \in {"handler", "serve", "drain"} => socket = p
  /\ \A p \in Pids : daemon[p] \in {"bind", "handler", "serve", "drain"} => pidFile = p

LEMMA DaemonFiles ==
  ASSUME TypeOK, FilesInv, NEW p \in Pids, DaemonStep(p) \/ BeginDrain(p) \/ KillDaemon(p)
  PROVE  FilesInv'
  <1> USE PidFact DEF TypeOK, FilesInv, Move, Held, files
  <1>1. CASE TryLock(p)
    BY <1>1 DEF TryLock
  <1>2. CASE RemoveStale(p)
    BY <1>2 DEF RemoveStale
  <1>3. CASE WritePid(p)
    BY <1>3 DEF WritePid
  <1>4. CASE Bind(p)
    BY <1>4 DEF Bind
  <1>5. CASE InstallHandler(p)
    BY <1>5 DEF InstallHandler
  <1>6. CASE CloseListener(p)
    BY <1>6 DEF CloseListener
  <1>7. CASE RemoveSocket(p)
    BY <1>7 DEF RemoveSocket
  <1>8. CASE RemovePid(p)
    BY <1>8 DEF RemovePid
  <1>9. CASE Unlock(p)
    BY <1>9 DEF Unlock
  <1>10. CASE BeginDrain(p)
    BY <1>10 DEF BeginDrain
  <1>11. CASE KillDaemon(p)
    BY <1>11 DEF KillDaemon, Die
  <1> QED
    BY <1>1, <1>2, <1>3, <1>4, <1>5, <1>6, <1>7, <1>8, <1>9, <1>10, <1>11 DEF DaemonStep

\* A fork starts one daemon, outside the lock.
LEMMA ForkFiles ==
  ASSUME TypeOK, FilesInv, NEW p \in Pids, Fork(p), UNCHANGED <<instanceLock, files>>
  PROVE  FilesInv'
  <1>1. daemon[p] = "unborn"
    BY LifecycleAssumption DEF Fork, Pids
  <1>2. \A q \in Pids : daemon'[q] = IF q = p THEN "lock" ELSE daemon[q]
    BY DEF TypeOK, Fork, Move
  <1> QED
    BY <1>1, <1>2 DEF FilesInv, Held, files

LEMMA ClientFiles ==
  ASSUME TypeOK, FilesInv, NEW k \in Clients, ClientStep(k) \/ Bye(k) \/ KillClient(k)
  PROVE  FilesInv'
  <1>1. CASE Spawn(k)
    BY <1>1, ForkFiles DEF Spawn
  <1>2. CASE ~Spawn(k)
    <2>1. UNCHANGED <<daemon, instanceLock, files>>
      BY <1>2 DEF ClientStep, TryConnect, TakeSpawnLock, Recheck, SpawnFail, Poll, PollTimeout,
         Accept, Welcome, HelloEof, Bye, KillClient
    <2> QED
      BY <2>1 DEF FilesInv, files
  <1> QED
    BY <1>1, <1>2

LEMMA StopFiles == ASSUME TypeOK, FilesInv, ReadPid \/ Signal PROVE FilesInv'
  BY PidFact DEF TypeOK, FilesInv, ReadPid, Signal, Die, Move, Held, files

LEMMA StepFiles == TypeOK /\ FilesInv /\ [Next]_vars => FilesInv'
  <1> SUFFICES ASSUME TypeOK, FilesInv, [Next]_vars PROVE FilesInv'
    OBVIOUS
  <1>1. CASE UNCHANGED vars
    BY <1>1 DEF FilesInv, vars
  <1> QED
    BY <1>1, DaemonFiles, ClientFiles, StopFiles DEF Next

LEMMA InitFiles == Init => FilesInv
  BY PidFact DEF Init, FilesInv, Held

\* While a daemon listens, the socket and the pid file are its own, whatever
\* predecessors and successors clean up and whoever is killed
\* (run_orphan, shutdown_daemon).
THEOREM ServingReachableCorrect == Spec => []ServingReachable
  <1>1. FilesInv => ServingReachable
    BY DEF FilesInv, ServingReachable, Listening
  <1> QED
    BY <1>1, InitFiles, StepFiles, TypeCorrect, PTL DEF Spec

-----------------------------------------------------------------------------
(* The spawn lock: one daemon for a cold start *)

\* While nothing has left, died or failed there is at most the first daemon.
\* Until it listens, the client that forked it polls with the spawn lock in
\* its hands, so that no other client gets to spawn; a client that spawns has
\* found none.
ColdInv ==
  /\ \A k \in Clients : client[k].pc \in {"recheck", "spawn", "poll"} => spawnLock = k
  /\ ~disturbed =>
       /\ \A p \in Pids :
            daemon[p] # "unborn" =>
              p = 1 /\ daemon[p] \in {"lock", "stale", "pid", "bind", "handler", "serve"}
       /\ \A p \in Pids :
            daemon[p] \in {"lock", "stale", "pid", "bind"} =>
              \E k \in Clients : client[k].pc = "poll"
       /\ \A k \in Clients : client[k].pc = "spawn" => \A p \in Pids : daemon[p] = "unborn"

\* With every daemon unborn the next to be forked is the first.
LEMMA ForkFirst ==
  ASSUME TypeOK, NEW p \in Pids, Fork(p), \A q \in Pids : daemon[q] = "unborn"
  PROVE  p = 1 /\ \A q \in Pids : daemon'[q] = IF q = 1 THEN "lock" ELSE "unborn"
  <1>1. p = 1
    BY LifecycleAssumption DEF Fork, Pids
  <1> QED
    BY <1>1 DEF TypeOK, Fork, Move

LEMMA DaemonCold ==
  ASSUME TypeOK, FilesInv, ColdInv,
         NEW p \in Pids, DaemonStep(p) \/ BeginDrain(p) \/ KillDaemon(p)
  PROVE  ColdInv'
  <1> USE PidFact DEF TypeOK, FilesInv, ColdInv, Move, Held, files
  <1>1. CASE TryLock(p)
    BY <1>1 DEF TryLock
  <1>2. CASE RemoveStale(p)
    BY <1>2 DEF RemoveStale
  <1>3. CASE WritePid(p)
    BY <1>3 DEF WritePid
  <1>4. CASE Bind(p)
    BY <1>4 DEF Bind
  <1>5. CASE InstallHandler(p)
    BY <1>5 DEF InstallHandler
  <1>6. CASE CloseListener(p)
    BY <1>6 DEF CloseListener
  <1>7. CASE RemoveSocket(p)
    BY <1>7 DEF RemoveSocket
  <1>8. CASE RemovePid(p)
    BY <1>8 DEF RemovePid
  <1>9. CASE Unlock(p)
    BY <1>9 DEF Unlock
  <1>10. CASE BeginDrain(p)
    BY <1>10 DEF BeginDrain
  <1>11. CASE KillDaemon(p)
    BY <1>11 DEF KillDaemon, Die
  <1> QED
    BY <1>1, <1>2, <1>3, <1>4, <1>5, <1>6, <1>7, <1>8, <1>9, <1>10, <1>11 DEF DaemonStep

LEMMA ClientCold ==
  ASSUME TypeOK, FilesInv, ColdInv,
         NEW k \in Clients, ClientStep(k) \/ Bye(k) \/ KillClient(k)
  PROVE  ColdInv'
  <1> USE PidFact DEF To, Reach, Release
  <1>1. CASE TryConnect(k)
    BY <1>1 DEF TypeOK, ColdInv, TryConnect, files
  <1>2. CASE TakeSpawnLock(k)
    BY <1>2 DEF TypeOK, ColdInv, TakeSpawnLock, files
  <1>3. CASE Recheck(k)
    <2>1. spawnLock = k /\ \A j \in Clients : client[j].pc # "poll"
      BY <1>3 DEF ColdInv, Recheck
    <2>2. ~disturbed /\ ~Listening(socket) => \A p \in Pids : daemon[p] = "unborn"
      BY <2>1 DEF ColdInv, FilesInv, Listening
    <2> QED
      BY <1>3, <2>1, <2>2 DEF TypeOK, ColdInv, Recheck, files
  <1>4. CASE Spawn(k)
    <2>1. spawnLock = k /\ \A j \in Clients \ {k} : client[j].pc \notin {"recheck", "spawn", "poll"}
      BY <1>4 DEF ColdInv, Spawn
    <2>2. /\ spawnLock' = spawnLock /\ disturbed' = disturbed
          /\ \A j \in Clients : client'[j].pc = IF j = k THEN "poll" ELSE client[j].pc
      BY <1>4 DEF Spawn, TypeOK
    <2>3. ~disturbed => \A q \in Pids : daemon'[q] = IF q = 1 THEN "lock" ELSE "unborn"
      BY <1>4, ForkFirst DEF ColdInv, Spawn
    <2> QED
      BY <2>1, <2>2, <2>3 DEF ColdInv
  <1>5. CASE SpawnFail(k)
    BY <1>5 DEF TypeOK, ColdInv, SpawnFail, files
  <1>6. CASE Poll(k)
    <2>1. ~disturbed => \A p \in Pids : daemon[p] \notin {"lock", "stale", "pid", "bind"}
      BY <1>6 DEF TypeOK, ColdInv, Poll, Listening
    <2> QED
      BY <1>6, <2>1 DEF TypeOK, ColdInv, Poll, files
  <1>7. CASE PollTimeout(k)
    BY <1>7 DEF TypeOK, ColdInv, PollTimeout, files
  <1>8. CASE Accept(k)
    BY <1>8 DEF TypeOK, ColdInv, Accept, files
  <1>9. CASE Welcome(k)
    BY <1>9 DEF TypeOK, ColdInv, Welcome, files
  <1>10. CASE HelloEof(k)
    BY <1>10 DEF TypeOK, ColdInv, HelloEof, files
  <1>11. CASE Bye(k)
    BY <1>11 DEF TypeOK, ColdInv, Bye, files
  <1>12. CASE KillClient(k)
    BY <1>12 DEF TypeOK, ColdInv, KillClient, files
  <1> QED
    BY <1>1, <1>2, <1>3, <1>4, <1>5, <1>6, <1>7, <1>8, <1>9, <1>10, <1>11, <1>12 DEF ClientStep

LEMMA StopCold == ASSUME TypeOK, ColdInv, ReadPid \/ Signal PROVE ColdInv'
  BY DEF TypeOK, ColdInv, ReadPid, Signal, Die

LEMMA StepCold == TypeOK /\ FilesInv /\ ColdInv /\ [Next]_vars => ColdInv'
  <1> SUFFICES ASSUME TypeOK, FilesInv, ColdInv, [Next]_vars PROVE ColdInv'
    OBVIOUS
  <1>1. CASE UNCHANGED vars
    BY <1>1 DEF ColdInv, vars
  <1> QED
    BY <1>1, DaemonCold, ClientCold, StopCold DEF Next

\* As long as nothing leaves, dies or fails, any number of clients starting
\* together fork one daemon between them: the spawn lock, held until the
\* daemon listens, and the second try_connect under it (connect_with_spawn).
THEOREM OneDaemonCorrect == Spec => []OneDaemon
  <1>1. Init => ColdInv
    BY DEF Init, ColdInv
  <1>2. ColdInv => OneDaemon
    <2> SUFFICES ASSUME ColdInv, ~disturbed
                 PROVE  Cardinality({p \in Pids : daemon[p] # "unborn"}) <= 1
      BY DEF OneDaemon
    <2>1. {p \in Pids : daemon[p] # "unborn"} \subseteq {1}
      BY DEF ColdInv
    <2>2. IsFiniteSet({1}) /\ Cardinality({1}) = 1
      BY FS_Singleton
    <2> QED
      BY <2>1, <2>2, FS_Subset
  <1> QED
    BY <1>1, <1>2, InitFiles, StepFiles, StepCold, TypeCorrect, PTL DEF Spec
=============================================================================
