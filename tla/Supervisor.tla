----------------------------- MODULE Supervisor -----------------------------
(***************************************************************************)
(* The daemon's accept loop, connection refcount and shutdown              *)
(* (src/src/daemon/supervisor.rs), with the connection tasks that feed it  *)
(* events (`serve` and ConnectionGuard of src/src/daemon/conn.rs).         *)
(*                                                                         *)
(* The writer it polls is the count-level contract WriteQueue, which       *)
(* module WriteBehind implements.                                          *)
(*                                                                         *)
(* `tokio::select!` evaluates the idle branch's precondition once, when    *)
(* the select is entered, and then sleeps until a branch is ready; the     *)
(* branches that are ready are tried in random order.                      *)
(***************************************************************************)
EXTENDS WriteQueue, Integers, Sequences, FiniteSets

CONSTANT Clients   \* connections clients make, one each

ASSUME SupervisorAssumption == IsFiniteSet(Clients)

VARIABLES
  pc,        \* where `run` is
  idleOn,    \* the idle branch's precondition, as the current select read it
  timer,     \* the idle timer: "armed" or "elapsed"
  active,    \* Clients.active
  events,    \* the unbounded event channel
  link,      \* each client's connection
  sigterm,   \* a SIGTERM is pending
  overdue,   \* SHUTDOWN_DRAIN_TIMEOUT has passed
  used       \* a client has been counted since the idle timer was last set;
             \* read by the properties only

supVars == <<pc, idleOn, timer, active, events, link, sigterm, overdue, used>>
vars    == <<qvars, supVars>>

Init ==
  /\ QInit
  /\ pc = "enter"
  /\ idleOn = FALSE
  /\ timer = "armed"
  /\ active = 0
  /\ events = <<>>
  /\ link = [k \in Clients |-> "none"]
  /\ sigterm = FALSE
  /\ overdue = FALSE
  /\ used = FALSE

-----------------------------------------------------------------------------
(* The select loop *)

\* Entering select!: `clients.is_idle() && state.writer.is_drained()`, up to
\* is_drained's first read.
SelectEnter ==
  /\ pc = "enter"
  /\ IF active = 0 /\ ChannelEmpty
     THEN pc' = "load" /\ UNCHANGED idleOn
     ELSE pc' = "select" /\ idleOn' = FALSE
  /\ UNCHANGED <<qvars, timer, active, events, link, sigterm, overdue, used>>

\* is_drained's second read.
SelectLoad ==
  /\ pc = "load"
  /\ pc' = "select"
  /\ idleOn' = NoneInFlight
  /\ UNCHANGED <<qvars, timer, active, events, link, sigterm, overdue, used>>

\* `listener.accept` yields a connection, whose task is spawned.
Accept(k) ==
  /\ pc = "select"
  /\ link[k] = "backlog"
  /\ link' = [link EXCEPT ![k] = "accepted"]
  /\ pc' = "enter"
  /\ UNCHANGED <<qvars, idleOn, timer, active, events, sigterm, overdue, used>>

\* `listener.accept` fails: logged, and the loop continues.
AcceptFail ==
  /\ pc = "select"
  /\ pc' = "enter"
  /\ UNCHANGED <<qvars, idleOn, timer, active, events, link, sigterm, overdue, used>>

\* `events_rx.recv` yields Connected.
TakeConnected ==
  /\ pc = "select"
  /\ events # <<>> /\ Head(events) = "Connected"
  /\ events' = Tail(events)
  /\ active' = active + 1
  /\ used' = TRUE
  /\ pc' = "enter"
  /\ UNCHANGED <<qvars, idleOn, timer, link, sigterm, overdue>>

\* Mutant: the idle timer keeps running through the last disconnect.
TakeDisconnectedNoReset ==
  /\ pc = "select"
  /\ events # <<>> /\ Head(events) = "Disconnected"
  /\ events' = Tail(events)
  /\ active' = active - 1
  /\ pc' = "enter"
  /\ UNCHANGED <<qvars, idleOn, timer, link, sigterm, overdue, used>>

\* `events_rx.recv` yields Disconnected; the last one restarts the timer.
TakeDisconnected ==
  /\ pc = "select"
  /\ events # <<>> /\ Head(events) = "Disconnected"
  /\ events' = Tail(events)
  /\ active' = active - 1
  /\ IF active' = 0
     THEN timer' = "armed" /\ used' = FALSE
     ELSE UNCHANGED <<timer, used>>
  /\ pc' = "enter"
  /\ UNCHANGED <<qvars, idleOn, link, sigterm, overdue>>

\* The idle timer fires and its branch is on.
IdleBreak ==
  /\ pc = "select"
  /\ idleOn
  /\ timer = "elapsed"
  /\ pc' = "drain"
  /\ UNCHANGED <<qvars, idleOn, timer, active, events, link, sigterm, overdue, used>>

\* `sigterm.recv`.
SigtermBreak ==
  /\ pc = "select"
  /\ sigterm
  /\ pc' = "drain"
  /\ UNCHANGED <<qvars, idleOn, timer, active, events, link, sigterm, overdue, used>>

-----------------------------------------------------------------------------
(* The drain loop *)

\* Mutant: the drain has no deadline.
DrainEmptyPatient ==
  /\ pc = "drain"
  /\ pc' = IF ChannelEmpty THEN "drainLoad" ELSE "sleep"
  /\ UNCHANGED <<qvars, idleOn, timer, active, events, link, sigterm, overdue, used>>

\* `!is_drained()`, first read; a deadline that has passed ends the loop.
DrainEmpty ==
  /\ pc = "drain"
  /\ \/ ChannelEmpty /\ pc' = "drainLoad"
     \/ ~ChannelEmpty /\ overdue /\ pc' = "returned"
     \/ ~ChannelEmpty /\ ~overdue /\ pc' = "sleep"
  /\ UNCHANGED <<qvars, idleOn, timer, active, events, link, sigterm, overdue, used>>

\* Second read.
DrainLoad ==
  /\ pc = "drainLoad"
  /\ pc' = IF NoneInFlight \/ overdue THEN "returned" ELSE "sleep"
  /\ UNCHANGED <<qvars, idleOn, timer, active, events, link, sigterm, overdue, used>>

\* `sleep(SHUTDOWN_DRAIN_POLL)` ends.
DrainPoll ==
  /\ pc = "sleep"
  /\ pc' = "drain"
  /\ UNCHANGED <<qvars, idleOn, timer, active, events, link, sigterm, overdue, used>>

\* `run` has returned and the listener is closed; run_orphan removes its
\* files, the runtime drops the tasks, and the process ends with its threads.
ProcessExit ==
  /\ pc = "returned"
  /\ pc' = "gone"
  /\ link' = [k \in Clients |-> "closed"]
  /\ UNCHANGED <<qvars, idleOn, timer, active, events, sigterm, overdue, used>>

-----------------------------------------------------------------------------
(* Clocks, signals, and the other tasks of the daemon *)

TimerElapse ==
  /\ pc # "gone"
  /\ timer = "armed"
  /\ timer' = "elapsed"
  /\ UNCHANGED <<qvars, pc, idleOn, active, events, link, sigterm, overdue, used>>

Deadline ==
  /\ pc \in {"drain", "drainLoad", "sleep"}
  /\ ~overdue
  /\ overdue' = TRUE
  /\ UNCHANGED <<qvars, pc, idleOn, timer, active, events, link, sigterm, used>>

Sigterm ==
  /\ pc # "gone"
  /\ ~sigterm
  /\ sigterm' = TRUE
  /\ UNCHANGED <<qvars, pc, idleOn, timer, active, events, link, overdue, used>>

\* A client connects to the listening socket.
Connect(k) ==
  /\ pc \notin {"returned", "gone"}
  /\ link[k] = "none"
  /\ link' = [link EXCEPT ![k] = "backlog"]
  /\ UNCHANGED <<qvars, pc, idleOn, timer, active, events, sigterm, overdue, used>>

\* Mutant: the guard is made without sending Connected.
HelloUncounted(k) ==
  /\ link[k] = "accepted"
  /\ link' = [link EXCEPT ![k] = "counted"]
  /\ UNCHANGED <<qvars, pc, idleOn, timer, active, events, sigterm, overdue, used>>

\* The handshake succeeds: `ConnectionGuard::enter`.
Hello(k) ==
  /\ link[k] = "accepted"
  /\ link' = [link EXCEPT ![k] = "counted"]
  /\ events' = Append(events, "Connected")
  /\ UNCHANGED <<qvars, pc, idleOn, timer, active, sigterm, overdue, used>>

\* Mutant: the guard is made before the handshake, Connected sent after it.
TaskEndUnpaired(k) ==
  /\ link[k] \in {"accepted", "counted"}
  /\ link' = [link EXCEPT ![k] = "closed"]
  /\ events' = Append(events, "Disconnected")
  /\ UNCHANGED <<qvars, pc, idleOn, timer, active, sigterm, overdue, used>>

\* The task ends, by Bye, by EOF (the client may have been killed), by an
\* error or by a panic; a guard that was entered is dropped.
TaskEnd(k) ==
  /\ link[k] \in {"accepted", "counted"}
  /\ link' = [link EXCEPT ![k] = "closed"]
  /\ events' = IF link[k] = "counted" THEN Append(events, "Disconnected") ELSE events
  /\ UNCHANGED <<qvars, pc, idleOn, timer, active, sigterm, overdue, used>>

\* A counted connection has a Set accepted.
Set(k) ==
  /\ link[k] = "counted"
  /\ Push
  /\ UNCHANGED supVars

WriterStep ==
  /\ pc # "gone"
  /\ Recv \/ Enter \/ Leave \/ Panic
  /\ UNCHANGED supVars

SupervisorStep ==
  \/ SelectEnter \/ SelectLoad
  \/ TakeConnected \/ TakeDisconnected \/ IdleBreak \/ SigtermBreak
  \/ \E k \in Clients : Accept(k)
  \/ DrainEmpty \/ DrainLoad \/ DrainPoll \/ ProcessExit

Next ==
  \/ SupervisorStep \/ AcceptFail
  \/ TimerElapse \/ Deadline \/ Sigterm
  \/ \E k \in Clients : Connect(k) \/ Hello(k) \/ TaskEnd(k) \/ Set(k)
  \/ WriterStep

Spec == Init /\ [][Next]_vars

\* The main task is run whenever a branch is ready, a branch that is ready
\* again and again is taken in the end (select! polls in random order), time
\* passes, and a worker thread that has or can get a job goes on with it.
FairSpec ==
  /\ Spec
  /\ WF_vars(SupervisorStep)
  /\ SF_vars(TakeConnected) /\ SF_vars(TakeDisconnected)
  /\ SF_vars(IdleBreak) /\ SF_vars(SigtermBreak)
  /\ WF_vars(TimerElapse) /\ WF_vars(Deadline)
  /\ WF_vars(pc # "gone" /\ Recv /\ UNCHANGED supVars)
  /\ WF_vars(pc # "gone" /\ Enter /\ UNCHANGED supVars)
  /\ WF_vars(pc # "gone" /\ Leave /\ UNCHANGED supVars)

-----------------------------------------------------------------------------
(* Properties *)

\* Every variable has its type.
TypeOK ==
  /\ waiting \in 0..Capacity
  /\ inHand \in 0..WorkerCount /\ inFlight \in 0..WorkerCount /\ dead \in 0..WorkerCount
  /\ pc \in {"enter", "load", "select", "drain", "drainLoad", "sleep", "returned", "gone"}
  /\ idleOn \in BOOLEAN /\ sigterm \in BOOLEAN /\ overdue \in BOOLEAN /\ used \in BOOLEAN
  /\ timer \in {"armed", "elapsed"}
  /\ active \in Int
  /\ events \in Seq({"Connected", "Disconnected"})
  /\ link \in [Clients -> {"none", "backlog", "accepted", "counted", "closed"}]

\* The events still in the channel, counted.
Queued(event) == Cardinality({n \in DOMAIN events : events[n] = event})

\* "`Connected`/`Disconnected` are strictly paired" (Clients): the count is
\* the number of handshaked connections once the queued events are applied,
\* whatever the tasks and the loop interleave.
RefcountPaired ==
  pc # "gone" =>
    active + Queued("Connected") - Queued("Disconnected") =
      Cardinality({k \in Clients : link[k] = "counted"})

\* `active -= 1` never underflows the usize, because a connection's
\* Disconnected is behind its Connected in the channel.
NoUnderflow == active >= 0

\* The idle timer that ends the daemon was set after the last client left:
\* the daemon never exits on time that passed while it was in use.
IdleTimerFresh ==
  [][IdleBreak => ~used /\ active = 0]_vars

\* SIGTERM ends the daemon, even when a commit is wedged or every worker
\* has died and the queue can never drain.
SigtermExits == sigterm ~> pc = "gone"

\* "When the count reaches zero an idle timer arms; if it fires while still
\* zero the daemon shuts down gracefully" (supervisor.rs): if no client is
\* connected from some time on, the daemon exits.
IdleExits ==
  <>[](\A k \in Clients : link[k] \in {"none", "closed"}) => <>(pc = "gone")
=============================================================================
