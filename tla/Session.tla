------------------------------ MODULE Session ------------------------------
(***************************************************************************)
(* One cache handle's conversation with the daemon, many times over: the   *)
(* once-cell and the mutex of a SemanticCache (src/src/python.rs), the     *)
(* request with its one reconnect (src/src/client/stub.rs), and the        *)
(* daemon's message loop, namespace registry and build locks               *)
(* (src/src/daemon/conn.rs, src/src/daemon/state.rs).                      *)
(*                                                                         *)
(* The daemon may go away and come back between any two steps.  A new one  *)
(* is a new epoch: it starts with an empty registry, and the connections   *)
(* of earlier epochs are dead, though what their sockets still hold can be *)
(* read.  A connection may also break under a daemon that lives on, which  *)
(* then goes on with what it has read from it.  How a client finds and     *)
(* starts a daemon is Lifecycle's subject.                                 *)
(***************************************************************************)
EXTENDS Naturals, Sequences, FiniteSets

CONSTANTS
  Handles,      \* SemanticCache objects
  Namespaces,
  Name,         \* handle -> its namespace
  Calls,        \* calls of get, set and delete
  Owner,        \* call -> the handle it is made on
  Kind,         \* call -> "get", "set" or "del"
  None,         \* no call
  MaxCrashes,   \* bound on the number of times the daemon goes away
  MaxDrops,     \* bound on the connections that break under a daemon
  Events        \* what may happen: "crash" of the daemon, "drop" of a
                \* connection, "build" failures, "connect" failures,
                \* "backend" errors, "cancel" of calls

Kinds == {"get", "set", "del"}

ASSUME SessionAssumption ==
  /\ Name \in [Handles -> Namespaces]
  /\ Owner \in [Calls -> Handles]
  /\ Kind \in [Calls -> Kinds]
  /\ None \notin Calls
  /\ MaxCrashes \in Nat
  /\ MaxDrops \in Nat

VARIABLES
  epoch,     \* which daemon is running
  drops,     \* connections that have broken under a daemon
  registry,  \* the namespaces it knows
  task,      \* each RegisterNamespace: where the daemon is with it, or its
             \* response under way
  stray,     \* call -> its requests on connections that broke under this
             \* daemon, which may carry them out yet
  built,     \* namespace -> caches this daemon has built; properties only
  served,    \* call -> times this daemon has served it; properties only
  severed,   \* the calls whose connection to this daemon broke as they waited
             \* for its response; properties only
  cell,      \* handle -> its once-cell
  stub,      \* handle -> its connection: whether it is up, the epoch it
             \* reaches, the epoch its namespace was registered in, and the
             \* frames under way
  mutex,     \* handle -> the call that holds the stub
  call       \* each call: where it is, whether its request was retried, and
             \* what it returned, with the call this was the answer to

daemon == <<epoch, drops, registry, task, stray, built, served, severed>>
vars == <<epoch, drops, registry, task, stray, built, served, severed, cell, stub, mutex, call>>

Epochs == 0..MaxCrashes
CallStates == {"start", "connect", "register", "await", "lock", "send", "receive",
               "reconnect", "done"}
TaskStates == {"none", "queued", "build", "registered", "refused"}
Responses == Kinds \cup {"error", "unknown"}
\* A call returns what it reads of a response, answer or error; an error of its
\* own or of its registration; or nothing, being cancelled.
Results == {"none", "answered", "failed", "cancelled"}

Namespace(c) == Name[Owner[c]]

\* A call registers its namespace at most twice: by its request and by the
\* retry of it.
Registrations == Calls \X BOOLEAN

Init ==
  /\ epoch = 0
  /\ drops = 0
  /\ registry = {}
  /\ task = [r \in Registrations |-> "none"]
  /\ stray = [c \in Calls |-> 0]
  /\ built = [n \in Namespaces |-> 0]
  /\ served = [c \in Calls |-> 0]
  /\ severed = {}
  /\ cell = [h \in Handles |-> "empty"]
  /\ stub = [h \in Handles |-> [up |-> FALSE, epoch |-> 0, home |-> 0, requests |-> <<>>,
                              replies |-> <<>>]]
  /\ mutex = [h \in Handles |-> None]
  /\ call = [c \in Calls |-> [pc |-> "start", retried |-> FALSE, result |-> "none", from |-> None]]

-----------------------------------------------------------------------------
(* The call: connect and round_trip (python.rs), ClientStub::request *)

Goto(c, pc) == call' = [call EXCEPT ![c].pc = pc]

Initializing(c) == call[c].pc \in {"connect", "register", "await"}

Live(h) == stub[h].up /\ stub[h].epoch = epoch

\* The registration a call has under way.
Registration(c) == <<c, call[c].retried>>

\* The call returns; the mutex guard it holds is dropped, and an initializer
\* that did not finish leaves its handle's cell empty.
Return(c, result, from) ==
  /\ call' = [call EXCEPT ![c].pc = "done", ![c].result = result, ![c].from = from]
  /\ mutex' = IF mutex[Owner[c]] = c THEN [mutex EXCEPT ![Owner[c]] = None] ELSE mutex
  /\ cell' = IF Initializing(c) THEN [cell EXCEPT ![Owner[c]] = "empty"] ELSE cell

\* `get_or_try_init`: the first call initializes the cell, the calls that come
\* while it does wait.
Enter(c) ==
  /\ call[c].pc = "start"
  /\ \/ cell[Owner[c]] = "full" /\ Goto(c, "lock") /\ UNCHANGED cell
     \/ /\ cell[Owner[c]] = "empty"
        /\ Goto(c, "connect")
        /\ cell' = [cell EXCEPT ![Owner[c]] = "busy"]
  /\ UNCHANGED <<daemon, stub, mutex>>

\* `connect_or_spawn`, and `reconnect` from within `request`: a connection to
\* the daemon there is, whatever was left in the old one.
Connect(c) ==
  /\ call[c].pc \in {"connect", "reconnect"}
  /\ stub' = [stub EXCEPT ![Owner[c]].up = TRUE, ![Owner[c]].epoch = epoch,
                          ![Owner[c]].requests = <<>>, ![Owner[c]].replies = <<>>]
  /\ Goto(c, IF call[c].pc = "connect" THEN "register" ELSE "send")
  /\ UNCHANGED <<daemon, cell, mutex>>

ConnectFail(c) ==
  /\ "connect" \in Events
  /\ call[c].pc \in {"connect", "reconnect"}
  /\ Return(c, "failed", None)
  /\ UNCHANGED <<daemon, stub>>

\* RegisterNamespace is sent on the new connection.
Register(c) ==
  /\ call[c].pc = "register"
  /\ Live(Owner[c])
  /\ task' = [task EXCEPT ![Registration(c)] = "queued"]
  /\ Goto(c, "await")
  /\ UNCHANGED <<epoch, drops, registry, stray, built, served, severed, cell, stub, mutex>>

\* Mutant: any response to RegisterNamespace fills the cell.
AwaitAny(c) ==
  /\ call[c].pc = "await"
  /\ task[Registration(c)] \in {"registered", "refused"}
  /\ call' = [call EXCEPT ![c].pc = "lock", ![c].retried = FALSE]
  /\ cell' = [cell EXCEPT ![Owner[c]] = "full"]
  /\ stub' = [stub EXCEPT ![Owner[c]].home = stub[Owner[c]].epoch]
  /\ task' = [task EXCEPT ![Registration(c)] = "none"]
  /\ UNCHANGED <<epoch, drops, registry, stray, built, served, severed, mutex>>

\* Its response: Registered fills the cell, an error is the call's.
Await(c) ==
  /\ call[c].pc = "await"
  /\ \/ /\ task[Registration(c)] = "registered"
        /\ call' = [call EXCEPT ![c].pc = "lock", ![c].retried = FALSE]
        /\ cell' = [cell EXCEPT ![Owner[c]] = "full"]
        /\ stub' = [stub EXCEPT ![Owner[c]].home = stub[Owner[c]].epoch]
        /\ UNCHANGED mutex
     \/ /\ task[Registration(c)] = "refused"
        /\ Return(c, "failed", None)
        /\ UNCHANGED stub
  /\ task' = [task EXCEPT ![Registration(c)] = "none"]
  /\ UNCHANGED <<epoch, drops, registry, stray, built, served, severed>>

\* Mutant: nobody waits for the mutex.
LockUnguarded(c) ==
  /\ call[c].pc = "lock"
  /\ mutex' = [mutex EXCEPT ![Owner[c]] = c]
  /\ Goto(c, "send")
  /\ UNCHANGED <<daemon, cell, stub>>

\* `stub.lock()`.
Lock(c) ==
  /\ call[c].pc = "lock"
  /\ mutex[Owner[c]] = None
  /\ mutex' = [mutex EXCEPT ![Owner[c]] = c]
  /\ Goto(c, "send")
  /\ UNCHANGED <<daemon, cell, stub>>

\* `send_frame`.
Send(c) ==
  /\ call[c].pc = "send"
  /\ Live(Owner[c])
  /\ stub' = [stub EXCEPT ![Owner[c]].requests = Append(@, c)]
  /\ Goto(c, "receive")
  /\ UNCHANGED <<daemon, cell, mutex>>

\* Mutant: an error response is retried like a dropped connection.
ReceiveRetrying(c) ==
  LET h == Owner[c]
      r == Head(stub[h].replies) IN
  /\ call[c].pc = "receive"
  /\ stub[h].replies # <<>>
  /\ stub' = [stub EXCEPT ![h].replies = Tail(@)]
  /\ IF r.what = "error" /\ ~call[c].retried
     THEN /\ call' = [call EXCEPT ![c].pc = "reconnect", ![c].retried = TRUE]
          /\ UNCHANGED <<mutex, cell>>
     ELSE Return(c, "answered", r.to)
  /\ UNCHANGED daemon

\* `recv_frame` takes the next response of the connection.
Receive(c) ==
  LET h == Owner[c]
      r == Head(stub[h].replies) IN
  /\ call[c].pc = "receive"
  /\ stub[h].replies # <<>>
  /\ stub' = [stub EXCEPT ![h].replies = Tail(@)]
  /\ Return(c, "answered", r.to)
  /\ UNCHANGED daemon

\* The connection is found dead, by a write or by a read with nothing left to
\* read, or what is read is no frame: any Io or Codec error is a drop to
\* `is_transient_drop`, and `request` reconnects and repeats the request once.
Dropped(c) ==
  /\ \/ call[c].pc \in {"register", "send"} /\ ~Live(Owner[c])
     \/ /\ call[c].pc = "await" /\ ~Live(Owner[c])
        /\ task[Registration(c)] \notin {"registered", "refused"}
     \/ call[c].pc = "receive" /\ ~Live(Owner[c]) /\ stub[Owner[c]].replies = <<>>
  /\ IF call[c].retried
     THEN Return(c, "failed", None)
     ELSE /\ call' = [call EXCEPT ![c].pc = IF Initializing(c) THEN "connect" ELSE "reconnect",
                                  ![c].retried = TRUE]
          /\ UNCHANGED <<cell, mutex>>
  /\ UNCHANGED <<daemon, stub>>

\* Mutant: a cancelled initializer leaves the cell busy.
CancelPoisoning(c) ==
  /\ "cancel" \in Events
  /\ call[c].pc # "done"
  /\ call' = [call EXCEPT ![c].pc = "done", ![c].result = "cancelled"]
  /\ mutex' = IF mutex[Owner[c]] = c THEN [mutex EXCEPT ![Owner[c]] = None] ELSE mutex
  /\ UNCHANGED <<daemon, stub, cell>>

\* The Python future is cancelled, and the Rust future that runs round_trip is
\* dropped at the await it is in: its guards go, and what it has sent stays
\* sent.
Cancel(c) ==
  /\ "cancel" \in Events
  /\ call[c].pc # "done"
  /\ Return(c, "cancelled", None)
  /\ UNCHANGED <<daemon, stub>>

-----------------------------------------------------------------------------
(* The daemon: message_loop, handle_register *)

\* Mutant: a request for a namespace nobody registered is dropped.
ServeKnown(h) ==
  /\ stub[h].requests # <<>>
  /\ LET c == Head(stub[h].requests) IN
       /\ served' = [served EXCEPT ![c] = @ + 1]
       /\ stub' = [stub EXCEPT
                     ![h].requests = Tail(@),
                     ![h].replies = IF Name[h] \in registry
                                    THEN Append(@, [what |-> Kind[c], to |-> c]) ELSE @]
  /\ UNCHANGED <<epoch, drops, registry, task, stray, built, severed, cell, mutex, call>>

\* The response to a request: the error of `resolve`, or what the handler
\* says, an answer of the request's kind or an error.
Outcomes(h, c) ==
  IF Name[h] \notin registry THEN {"unknown"}
  ELSE {Kind[c]} \cup {e \in {"error"} : "backend" \in Events}

\* The connection's next request is served.
Serve(h) ==
  /\ stub[h].requests # <<>>
  /\ LET c == Head(stub[h].requests) IN
       \E what \in Outcomes(h, c) :
         /\ served' = [served EXCEPT ![c] = @ + 1]
         /\ stub' = [stub EXCEPT ![h].requests = Tail(@),
                                 ![h].replies = Append(@, [what |-> what, to |-> c])]
  /\ UNCHANGED <<epoch, drops, registry, task, stray, built, severed, cell, mutex, call>>

\* The calls whose requests a connection carries.
Carried(h) == {stub[h].requests[i] : i \in DOMAIN stub[h].requests}

\* The connection breaks and the daemon lives on: a frame that does not parse,
\* an error of either socket, or the message loop that ends.  The responses
\* under way are lost, and the requests are the daemon's to carry out or not.
Break(h) ==
  /\ "drop" \in Events
  /\ Live(h)
  /\ drops < MaxDrops
  /\ drops' = drops + 1
  /\ stub' = [stub EXCEPT ![h].up = FALSE, ![h].requests = <<>>, ![h].replies = <<>>]
  /\ task' = [r \in Registrations |->
                IF Owner[r[1]] = h /\ task[r] \in {"registered", "refused"}
                THEN "none" ELSE task[r]]
  /\ stray' = [c \in Calls |-> stray[c] + (IF c \in Carried(h) THEN 1 ELSE 0)]
  /\ severed' = severed \cup {c \in Calls : Owner[c] = h /\ call[c].pc = "receive"}
  /\ UNCHANGED <<epoch, registry, built, served, cell, mutex, call>>

\* A request of a broken connection is served, and nobody reads the response.
ServeStray(c) ==
  /\ stray[c] > 0
  /\ stray' = [stray EXCEPT ![c] = @ - 1]
  /\ served' = [served EXCEPT ![c] = @ + 1]
  /\ UNCHANGED <<epoch, drops, registry, task, built, severed, cell, stub, mutex, call>>

\* The response to a registration, if its connection is there and someone
\* waits for it.
Respond(r, what) ==
  IF call[r[1]].pc = "await" /\ Registration(r[1]) = r /\ Live(Owner[r[1]]) THEN what ELSE "none"

\* Mutant: no build lock.
BuildStartUnlocked(r) ==
  /\ task[r] = "queued"
  /\ task' = [task EXCEPT ![r] = IF Namespace(r[1]) \in registry
                                 THEN Respond(r, "registered") ELSE "build"]
  /\ UNCHANGED <<epoch, drops, registry, stray, built, served, severed, cell, stub, mutex, call>>

\* The build lock is taken, and the namespace looked up under it: it is there,
\* or this registration builds it.
BuildStart(r) ==
  /\ task[r] = "queued"
  /\ \A q \in Registrations : task[q] = "build" => Namespace(q[1]) # Namespace(r[1])
  /\ task' = [task EXCEPT ![r] = IF Namespace(r[1]) \in registry
                                 THEN Respond(r, "registered") ELSE "build"]
  /\ UNCHANGED <<epoch, drops, registry, stray, built, served, severed, cell, stub, mutex, call>>

\* `build_cache` returns on the inference pool and the entry is registered;
\* the lock is released, and the response sent if anyone is left to read it.
BuildEnd(r) ==
  /\ task[r] = "build"
  /\ task' = [task EXCEPT ![r] = Respond(r, "registered")]
  /\ registry' = registry \cup {Namespace(r[1])}
  /\ built' = [built EXCEPT ![Namespace(r[1])] = @ + 1]
  /\ UNCHANGED <<epoch, drops, stray, served, severed, cell, stub, mutex, call>>

\* The configuration does not parse or the build fails.
BuildFail(r) ==
  /\ "build" \in Events
  /\ task[r] = "build"
  /\ task' = [task EXCEPT ![r] = Respond(r, "refused")]
  /\ UNCHANGED <<epoch, drops, registry, stray, built, served, severed, cell, stub, mutex, call>>

\* The process ends, by a signal or a crash, with all it knew.
Crash ==
  /\ "crash" \in Events
  /\ epoch < MaxCrashes
  /\ epoch' = epoch + 1
  /\ registry' = {}
  /\ built' = [n \in Namespaces |-> 0]
  /\ served' = [c \in Calls |-> 0]
  /\ severed' = {}
  /\ stray' = [c \in Calls |-> 0]
  /\ task' = [r \in Registrations |->
                IF task[r] \in {"queued", "build"} THEN "none" ELSE task[r]]
  /\ stub' = [h \in Handles |-> [stub[h] EXCEPT !.requests = <<>>]]
  /\ UNCHANGED <<drops, cell, mutex, call>>

-----------------------------------------------------------------------------
CallStep(c) ==
  \/ Enter(c) \/ Connect(c) \/ ConnectFail(c) \/ Register(c) \/ Await(c)
  \/ Lock(c) \/ Send(c) \/ Receive(c) \/ Dropped(c)

BuildStep(r) == BuildStart(r) \/ BuildEnd(r) \/ BuildFail(r)

Next ==
  \/ \E c \in Calls : CallStep(c) \/ Cancel(c) \/ ServeStray(c)
  \/ \E r \in Registrations : BuildStep(r)
  \/ \E h \in Handles : Serve(h) \/ Break(h)
  \/ Crash

Spec == Init /\ [][Next]_vars

\* Every call and every connection task runs, and a build ends.
FairSpec ==
  /\ Spec
  /\ \A c \in Calls : WF_vars(CallStep(c))
  /\ \A r \in Registrations : WF_vars(BuildStep(r))
  /\ \A h \in Handles : WF_vars(Serve(h))

-----------------------------------------------------------------------------
(* Properties *)

\* Every variable has its type; a cell is being initialized by exactly one
\* call, and the mutex is held by the call that is at the stub.
TypeOK ==
  /\ epoch \in Epochs
  /\ drops \in 0..MaxDrops
  /\ registry \subseteq Namespaces
  /\ task \in [Registrations -> TaskStates]
  /\ stray \in [Calls -> Nat]
  /\ built \in [Namespaces -> Nat]
  /\ served \in [Calls -> Nat]
  /\ severed \subseteq Calls
  /\ cell \in [Handles -> {"empty", "busy", "full"}]
  /\ stub \in [Handles -> [up : BOOLEAN, epoch : Epochs, home : Epochs,
                           requests : Seq(Calls),
                           replies : Seq([what : Responses, to : Calls])]]
  /\ mutex \in [Handles -> Calls \cup {None}]
  /\ call \in [Calls -> [pc : CallStates, retried : BOOLEAN, result : Results,
                         from : Calls \cup {None}]]
  /\ \A h \in Handles :
       cell[h] = "busy" <=> \E c \in Calls : Owner[c] = h /\ Initializing(c)
  /\ \A c, d \in Calls : Initializing(c) /\ Initializing(d) /\ Owner[c] = Owner[d] => c = d
  /\ \A c \in Calls :
       mutex[Owner[c]] = c <=> call[c].pc \in {"send", "receive", "reconnect"}

\* "a namespace's (expensive) cache build runs at most once" (state.rs): two
\* handles that register a namespace together, or one that does it again after
\* a cancelled first call, never build a second cache, whose entry would
\* replace the first with its shadow of pending writes.
BuiltOnce == \A n \in Namespaces : built[n] <= 1

\* A handle registered with the daemon it is connected to never hears that its
\* namespace is unknown: only a restart makes the daemon forget.
UnknownMeansRestart ==
  \A h \in Handles : \A i \in DOMAIN stub[h].replies :
    stub[h].replies[i].what = "unknown" => stub[h].home < stub[h].epoch

\* What the one retry of `request` may repeat: a daemon carries out a request
\* twice only when the connection broke under it as the call waited for the
\* response, and never a third time.  An error response, an unknown namespace
\* or a connection that was dead before the request repeat nothing.
ServedOnce ==
  \A c \in Calls : served[c] <= IF c \in severed /\ call[c].retried THEN 2 ELSE 1

\* What a call returns is the daemon's response to its own request.
OwnAnswer == \A c \in Calls : call[c].from \in {None, c}

\* ... as long as no call of its handle has been cancelled: the mutex orders
\* the requests of a connection, across drops and reconnects.
OwnAnswerUncancelled ==
  \A c \in Calls :
    (\A d \in Calls : Owner[d] = Owner[c] => call[d].result # "cancelled")
      => call[c].from \in {None, c}

\* Every call returns: no wait for a cell, a mutex, a build lock or a response
\* lasts for ever, whoever is cancelled or goes away holding it.
CallReturns == \A c \in Calls : <>(call[c].pc = "done")
=============================================================================
