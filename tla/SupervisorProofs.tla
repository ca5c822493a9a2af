-------------------------- MODULE SupervisorProofs --------------------------
(***************************************************************************)
(* Theorems about Supervisor, for any finite set of clients, any queue     *)
(* capacity and any number of workers.                                     *)
(***************************************************************************)
EXTENDS Supervisor, FiniteSetTheorems, SequenceTheorems, TLAPS

Event == {"Connected", "Disconnected"}

-----------------------------------------------------------------------------
(* Counting the events of a prefix of the channel *)

Places(s, e, n) == {m \in 1..n : s[m] = e}
Upto(s, e, n) == Cardinality(Places(s, e, n))

LEMMA PlacesFinite ==
  ASSUME NEW s, NEW e, NEW n \in Nat
  PROVE  IsFiniteSet(Places(s, e, n)) /\ Upto(s, e, n) \in Nat
  <1>1. IsFiniteSet(1..n)
    BY FS_Interval
  <1>2. Places(s, e, n) \in SUBSET (1..n)
    BY DEF Places
  <1>3. IsFiniteSet(Places(s, e, n))
    BY <1>1, <1>2, FS_Subset
  <1> QED
    BY <1>3, FS_CardinalityType DEF Upto

LEMMA UptoZero == ASSUME NEW s, NEW e PROVE Upto(s, e, 0) = 0
  <1>1. Places(s, e, 0) = {}
    BY DEF Places
  <1> QED
    BY <1>1, FS_EmptySet DEF Upto

\* An event sent is counted last.
LEMMA UptoAppend ==
  ASSUME NEW s \in Seq(Event), NEW x \in Event, NEW e
  PROVE  /\ Len(Append(s, x)) = Len(s) + 1
         /\ \A n \in 0..Len(s) : Upto(Append(s, x), e, n) = Upto(s, e, n)
         /\ Upto(Append(s, x), e, Len(s) + 1) =
              IF x = e THEN Upto(s, e, Len(s)) + 1 ELSE Upto(s, e, Len(s))
  <1> DEFINE t == Append(s, x)
             l == Len(s)
  <1>1. /\ l \in Nat /\ Len(t) = l + 1
        /\ \A m \in 1..l : t[m] = s[m]
        /\ t[l + 1] = x
    OBVIOUS
  <1>2. ASSUME NEW n \in 0..l PROVE Upto(t, e, n) = Upto(s, e, n)
    <2>1. \A m \in 1..n : t[m] = s[m]
      BY <1>1
    <2>2. Places(t, e, n) = Places(s, e, n)
      BY <2>1 DEF Places
    <2> QED
      BY <2>2 DEF Upto
  <1>3. Places(t, e, l + 1) = IF x = e THEN Places(s, e, l) \cup {l + 1} ELSE Places(s, e, l)
    <2>1. 1..(l + 1) = (1..l) \cup {l + 1}
      BY <1>1
    <2>2. \A m : m \in Places(t, e, l + 1) <=> (m \in 1..l /\ s[m] = e) \/ (m = l + 1 /\ x = e)
      <3> HIDE DEF t, l
      <3> QED
        BY <1>1, <2>1 DEF Places
    <2> HIDE DEF t, l
    <2>3. CASE x = e
      BY <2>2, <2>3 DEF Places
    <2>4. CASE x # e
      BY <2>2, <2>4 DEF Places
    <2> QED
      BY <2>3, <2>4
  <1>4. l + 1 \notin Places(s, e, l) /\ IsFiniteSet(Places(s, e, l))
    <2>1. \A m \in 1..l : m # l + 1
      BY <1>1
    <2>2. IsFiniteSet(Places(s, e, l))
      BY <1>1, PlacesFinite
    <2> QED
      BY <2>1, <2>2 DEF Places
  <1>5. Upto(t, e, l + 1) = IF x = e THEN Upto(s, e, l) + 1 ELSE Upto(s, e, l)
    BY <1>3, <1>4, FS_AddElement DEF Upto
  <1> QED
    BY <1>1, <1>2, <1>5

\* An event taken is no longer counted in any prefix.
LEMMA UptoTail ==
  ASSUME NEW s \in Seq(Event), s # <<>>, NEW e
  PROVE  /\ Len(Tail(s)) = Len(s) - 1
         /\ \A n \in 0..(Len(s) - 1) :
              Upto(Tail(s), e, n) = IF Head(s) = e THEN Upto(s, e, n + 1) - 1
                                    ELSE Upto(s, e, n + 1)
  <1> DEFINE t == Tail(s)
  <1>1. /\ Len(s) \in Nat \ {0} /\ Len(t) = Len(s) - 1
        /\ \A m \in 1..(Len(s) - 1) : t[m] = s[m + 1]
        /\ Head(s) = s[1]
    BY HeadTailProperties, EmptySeq
  <1>2. ASSUME NEW n \in 0..(Len(s) - 1)
        PROVE  Upto(t, e, n) = IF Head(s) = e THEN Upto(s, e, n + 1) - 1 ELSE Upto(s, e, n + 1)
    <2> DEFINE A == Places(t, e, n)
               B == Places(s, e, n + 1) \ {1}
               f == [m \in A |-> m + 1]
    <2>1. n \in Nat /\ n + 1 \in Nat
      BY <1>1
    <2>2. IsFiniteSet(A) /\ IsFiniteSet(Places(s, e, n + 1))
      BY <2>1, PlacesFinite
    <2>3. \A m \in A : m \in 1..n /\ m + 1 \in B
      BY <1>1 DEF Places
    <2>4. \A b \in B : b - 1 \in A /\ (b - 1) + 1 = b
      BY <1>1 DEF Places
    <2>5. f \in [A -> B]
      BY <2>3
    <2>6. f \in Injection(A, B)
      BY <2>3, <2>5 DEF Injection, IsInjective
    <2>7. f \in Surjection(A, B)
      BY <2>4, <2>5 DEF Surjection
    <2>8. ExistsBijection(A, B)
      BY <2>6, <2>7 DEF Bijection, ExistsBijection
    <2>9. Cardinality(B) = Cardinality(A)
      BY <2>2, <2>8, FS_Bijection
    <2>10. 1 \in Places(s, e, n + 1) <=> Head(s) = e
      BY <1>1, <2>1 DEF Places
    <2>11. Cardinality(B) = IF Head(s) = e THEN Upto(s, e, n + 1) - 1 ELSE Upto(s, e, n + 1)
      BY <2>2, <2>10, FS_RemoveElement DEF Upto
    <2> QED
      BY <2>9, <2>11 DEF Upto
  <1> QED
    BY <1>1, <1>2

-----------------------------------------------------------------------------
(* Types *)

\* A worker has one job or is dead.
WorkerBound == inHand + inFlight + dead <= WorkerCount

Inv == TypeOK /\ WorkerBound

LEMMA QueueStepType ==
  ASSUME Inv, Push \/ Recv \/ Enter \/ Leave \/ Panic, UNCHANGED supVars
  PROVE  Inv'
  BY QueueAssumption DEF Inv, TypeOK, WorkerBound, Push, Recv, Enter, Leave, Panic, supVars

LEMMA EventsType ==
  ASSUME TypeOK
  PROVE  /\ \A x \in Event : Append(events, x) \in Seq(Event)
         /\ events # <<>> => Tail(events) \in Seq(Event)
  BY DEF TypeOK, Event

LEMMA LoopStepType ==
  ASSUME Inv, SupervisorStep \/ AcceptFail \/ TimerElapse \/ Deadline \/ Sigterm
  PROVE  Inv'
  <1> USE DEF Inv, TypeOK, WorkerBound, qvars
  <1>1. CASE SelectEnter
    BY <1>1 DEF SelectEnter
  <1>2. CASE SelectLoad
    BY <1>2 DEF SelectLoad, NoneInFlight
  <1>3. CASE TakeConnected
    BY <1>3, EventsType DEF TakeConnected, Event
  <1>4. CASE TakeDisconnected
    <2>1. events' \in Seq(Event) /\ active' \in Int
      BY <1>4, EventsType DEF TakeDisconnected
    <2>2. /\ timer' \in {"armed", "elapsed"} /\ used' \in BOOLEAN /\ pc' = "enter"
          /\ UNCHANGED <<qvars, idleOn, link, sigterm, overdue>>
      BY <1>4 DEF TakeDisconnected
    <2> QED
      BY <2>1, <2>2 DEF Event
  <1>5. CASE IdleBreak
    BY <1>5 DEF IdleBreak
  <1>6. CASE SigtermBreak
    BY <1>6 DEF SigtermBreak
  <1>7. ASSUME NEW k \in Clients, Accept(k) PROVE Inv'
    BY <1>7 DEF Accept
  <1>8. CASE DrainEmpty
    BY <1>8 DEF DrainEmpty
  <1>9. CASE DrainLoad
    BY <1>9 DEF DrainLoad
  <1>10. CASE DrainPoll
    BY <1>10 DEF DrainPoll
  <1>11. CASE ProcessExit
    BY <1>11 DEF ProcessExit
  <1>12. CASE AcceptFail
    BY <1>12 DEF AcceptFail
  <1>13. CASE TimerElapse
    BY <1>13 DEF TimerElapse
  <1>14. CASE Deadline
    BY <1>14 DEF Deadline
  <1>15. CASE Sigterm
    BY <1>15 DEF Sigterm
  <1> QED
    BY <1>1, <1>2, <1>3, <1>4, <1>5, <1>6, <1>7, <1>8, <1>9, <1>10, <1>11, <1>12, <1>13, <1>14,
       <1>15 DEF SupervisorStep

LEMMA TaskStepType ==
  ASSUME Inv, NEW k \in Clients, Connect(k) \/ Hello(k) \/ TaskEnd(k)
  PROVE  Inv'
  <1> USE DEF Inv, TypeOK, WorkerBound, qvars
  <1>1. CASE Connect(k)
    BY <1>1 DEF Connect
  <1>2. CASE Hello(k)
    BY <1>2, EventsType DEF Hello, Event
  <1>3. CASE TaskEnd(k)
    BY <1>3, EventsType DEF TaskEnd, Event
  <1> QED
    BY <1>1, <1>2, <1>3

LEMMA StepType == Inv /\ [Next]_vars => Inv'
  <1> SUFFICES ASSUME Inv, [Next]_vars PROVE Inv'
    OBVIOUS
  <1>1. CASE UNCHANGED vars
    BY <1>1 DEF Inv, TypeOK, WorkerBound, vars, qvars, supVars
  <1> QED
    BY <1>1, QueueStepType, LoopStepType, TaskStepType DEF Next, Set, WriterStep

LEMMA InvHolds == Spec => []Inv
  <1>1. ASSUME Init PROVE Inv
    <2>1. events \in Seq({"Connected", "Disconnected"})
      BY <1>1, EmptySeq DEF Init
    <2>2. WorkerBound /\ waiting \in 0..Capacity /\ inHand \in 0..WorkerCount
          /\ inFlight \in 0..WorkerCount /\ dead \in 0..WorkerCount
      BY <1>1, QueueAssumption DEF Init, QInit, WorkerBound
    <2>3. idleOn \in BOOLEAN /\ sigterm \in BOOLEAN /\ overdue \in BOOLEAN /\ used \in BOOLEAN
      BY <1>1 DEF Init
    <2>4. /\ pc = "enter" /\ timer = "armed" /\ active = 0
          /\ link \in [Clients -> {"none", "backlog", "accepted", "counted", "closed"}]
      BY <1>1 DEF Init
    <2> QED
      BY <2>1, <2>2, <2>3, <2>4 DEF Inv, TypeOK
  <1> QED
    BY <1>1, StepType, PTL DEF Spec

\* Every variable of the accept loop keeps its type (Supervisor::run,
\* WriteQueue's counters).
THEOREM TypeCorrect == Spec => []TypeOK
  BY InvHolds, PTL DEF Inv

-----------------------------------------------------------------------------
(* The refcount *)

Counted == {k \in Clients : link[k] = "counted"}

\* What the count will be when the first n queued events have been applied.
After(n) == active + Upto(events, "Connected", n) - Upto(events, "Disconnected", n)

\* The count with every queued event is the number of counted connections, no
\* prefix of the queue takes it below zero, and a process that has ended has
\* no connections.
RefInv ==
  /\ pc # "gone" => After(Len(events)) = Cardinality(Counted)
  /\ \A n \in 0..Len(events) : After(n) >= 0
  /\ pc = "gone" => \A k \in Clients : link[k] = "closed"

LEMMA CountedFinite == IsFiniteSet(Counted) /\ Cardinality(Counted) \in Nat
  <1>1. Counted \in SUBSET Clients
    BY DEF Counted
  <1> QED
    BY <1>1, SupervisorAssumption, FS_Subset, FS_CardinalityType

LEMMA TakeRef ==
  ASSUME Inv, RefInv, TakeConnected \/ TakeDisconnected
  PROVE  RefInv'
  <1> DEFINE C(n) == Upto(events, "Connected", n)
             D(n) == Upto(events, "Disconnected", n)
  <1>1. /\ events \in Seq(Event) /\ events # <<>> /\ events' = Tail(events)
        /\ Head(events) \in Event /\ active \in Int
        /\ active' = IF Head(events) = "Connected" THEN active + 1 ELSE active - 1
        /\ link' = link /\ pc = "select" /\ pc' = "enter"
    BY DEF Inv, TypeOK, TakeConnected, TakeDisconnected, Event, qvars
  <1>2. Len(events') = Len(events) - 1 /\ Len(events) \in Nat \ {0}
    BY <1>1, EmptySeq, HeadTailProperties
  <1>3. ASSUME NEW n \in 0..Len(events') PROVE After(n)' = After(n + 1)
    <2>1. C(n + 1) \in Nat /\ D(n + 1) \in Nat
      BY <1>2, PlacesFinite
    <2>2. /\ Upto(events', "Connected", n) =
               IF Head(events) = "Connected" THEN C(n + 1) - 1 ELSE C(n + 1)
          /\ Upto(events', "Disconnected", n) =
               IF Head(events) = "Disconnected" THEN D(n + 1) - 1 ELSE D(n + 1)
      BY <1>1, <1>2, UptoTail
    <2> HIDE DEF C, D
    <2>3. After(n)' = active' + Upto(events', "Connected", n) - Upto(events', "Disconnected", n)
      BY DEF After
    <2>4. After(n + 1) = active + C(n + 1) - D(n + 1)
      BY DEF After, C, D
    <2> QED
      BY <1>1, <2>1, <2>2, <2>3, <2>4 DEF Event
  <1>4. Counted' = Counted
    BY <1>1 DEF Counted
  <1> QED
    BY <1>1, <1>2, <1>3, <1>4 DEF RefInv

\* An event is sent together with the change of the connection it is about.
LEMMA SendRef ==
  ASSUME Inv, RefInv, NEW x \in Event, events' = Append(events, x),
         active' = active, pc' = pc, pc # "gone",
         Cardinality(Counted') = IF x = "Connected" THEN Cardinality(Counted) + 1
                                 ELSE Cardinality(Counted) - 1
  PROVE  RefInv'
  <1> DEFINE C(n) == Upto(events, "Connected", n)
             D(n) == Upto(events, "Disconnected", n)
  <1>0. PICK l \in Nat : l = Len(events)
    BY DEF Inv, TypeOK
  <1>1. events \in Seq(Event) /\ active \in Int
    BY DEF Inv, TypeOK, Event
  <1>2. \A n \in 0..l : C(n) \in Nat /\ D(n) \in Nat
    BY <1>1, PlacesFinite
  <1>3. /\ Len(events') = l + 1
        /\ \A n \in 0..l : /\ Upto(events', "Connected", n) = C(n)
                           /\ Upto(events', "Disconnected", n) = D(n)
        /\ Upto(events', "Connected", l + 1) = IF x = "Connected" THEN C(l) + 1 ELSE C(l)
        /\ Upto(events', "Disconnected", l + 1) = IF x = "Disconnected" THEN D(l) + 1 ELSE D(l)
    <2>1. ASSUME NEW e
          PROVE  /\ Len(events') = l + 1
                 /\ \A n \in 0..l : Upto(events', e, n) = Upto(events, e, n)
                 /\ Upto(events', e, l + 1) =
                      IF x = e THEN Upto(events, e, l) + 1 ELSE Upto(events, e, l)
      <3>1. /\ Len(Append(events, x)) = Len(events) + 1
            /\ \A n \in 0..Len(events) : Upto(Append(events, x), e, n) = Upto(events, e, n)
            /\ Upto(Append(events, x), e, Len(events) + 1) =
                 IF x = e THEN Upto(events, e, Len(events)) + 1 ELSE Upto(events, e, Len(events))
        BY <1>1, UptoAppend
      <3> QED
        BY <1>0, <3>1
    <2> QED
      BY <2>1
  <1>4. \A n \in 0..l : After(n)' = After(n)
    BY <1>3 DEF After
  <1>5. After(l + 1)' = IF x = "Connected" THEN After(l) + 1 ELSE After(l) - 1
    <2>1. C(l) \in Nat /\ D(l) \in Nat
      BY <1>1, <1>2
    <2>2. After(l) = active + C(l) - D(l)
      BY DEF After
    <2>3. After(l + 1)' = active + Upto(events', "Connected", l + 1)
                                 - Upto(events', "Disconnected", l + 1)
      BY DEF After
    <2> HIDE DEF C, D
    <2> QED
      BY <1>1, <1>3, <2>1, <2>2, <2>3 DEF Event
  <1>6. After(l) = Cardinality(Counted) /\ After(l) \in Nat
    BY <1>0, CountedFinite DEF RefInv
  <1>7. After(l + 1)' = Cardinality(Counted')
    BY <1>5, <1>6
  <1>8. Cardinality(Counted') \in Nat
    <2>1. Counted' \in SUBSET Clients
      BY DEF Counted
    <2> QED
      BY <2>1, SupervisorAssumption, FS_Subset, FS_CardinalityType
  <1>9. \A n \in 0..(l + 1) : n \in 0..l \/ n = l + 1
    BY <1>1
  <1>10. \A n \in 0..l : After(n) >= 0
    BY <1>0 DEF RefInv
  <1>11. \A n \in 0..(l + 1) : After(n)' >= 0
    BY <1>4, <1>7, <1>8, <1>9, <1>10
  <1> QED
    BY <1>3, <1>7, <1>11 DEF RefInv

LEMMA HelloRef ==
  ASSUME Inv, RefInv, NEW k \in Clients, Hello(k)
  PROVE  RefInv'
  <1>1. Counted' = Counted \cup {k} /\ k \notin Counted
    BY DEF Inv, TypeOK, Hello, Counted
  <1>2. Cardinality(Counted') = Cardinality(Counted) + 1
    BY <1>1, CountedFinite, FS_AddElement
  <1>3. pc # "gone"
    BY DEF RefInv, Hello
  <1> QED
    BY <1>2, <1>3, SendRef DEF Hello, Event

LEMMA TaskEndRef ==
  ASSUME Inv, RefInv, NEW k \in Clients, TaskEnd(k)
  PROVE  RefInv'
  <1>1. pc # "gone"
    BY DEF RefInv, TaskEnd
  <1>2. CASE link[k] = "counted"
    <2>1. Counted' = Counted \ {k} /\ k \in Counted
      BY <1>2 DEF Inv, TypeOK, TaskEnd, Counted
    <2>2. Cardinality(Counted') = Cardinality(Counted) - 1
      BY <2>1, CountedFinite, FS_RemoveElement
    <2> QED
      BY <1>1, <1>2, <2>2, SendRef DEF TaskEnd, Event
  <1>3. CASE link[k] # "counted"
    <2>1. Counted' = Counted
      BY <1>3 DEF Inv, TypeOK, TaskEnd, Counted
    <2> QED
      BY <1>1, <1>3, <2>1 DEF RefInv, TaskEnd, After
  <1> QED
    BY <1>2, <1>3

LEMMA StepRef == Inv /\ RefInv /\ [Next]_vars => RefInv'
  <1> SUFFICES ASSUME Inv, RefInv, [Next]_vars PROVE RefInv'
    OBVIOUS
  <1>1. ASSUME UNCHANGED <<active, events>>, Counted' = Counted, pc # "gone", pc' # "gone"
        PROVE  RefInv'
    BY <1>1 DEF RefInv, After
  <1>2. ASSUME NEW k \in Clients, Connect(k) \/ Accept(k) PROVE RefInv'
    <2>1. Counted' = Counted
      BY <1>2 DEF Inv, TypeOK, Connect, Accept, Counted
    <2> QED
      BY <1>1, <1>2, <2>1 DEF Connect, Accept
  <1>3. CASE ProcessExit
    BY <1>3 DEF RefInv, ProcessExit, After
  <1>4. CASE SelectEnter \/ SelectLoad \/ IdleBreak \/ SigtermBreak \/ DrainEmpty \/ DrainLoad
             \/ DrainPoll \/ AcceptFail \/ TimerElapse \/ Deadline \/ Sigterm
    <2>1. UNCHANGED <<active, events, link>> /\ pc # "gone" /\ pc' # "gone"
      BY <1>4 DEF SelectEnter, SelectLoad, IdleBreak, SigtermBreak, DrainEmpty, DrainLoad,
         DrainPoll, AcceptFail, TimerElapse, Deadline, Sigterm
    <2> QED
      BY <1>1, <2>1 DEF Counted
  <1>5. CASE UNCHANGED supVars
    BY <1>5 DEF RefInv, After, Counted, supVars
  <1> QED
    BY <1>2, <1>3, <1>4, <1>5, TakeRef, HelloRef, TaskEndRef
       DEF Next, SupervisorStep, Set, WriterStep, vars

LEMMA InitRef == Init => RefInv
  <1> SUFFICES ASSUME Init PROVE RefInv
    OBVIOUS
  <1>1. Counted = {}
    BY DEF Init, Counted
  <1>2. Len(events) = 0 /\ After(0) = 0
    BY UptoZero DEF Init, After
  <1> QED
    BY <1>1, <1>2, FS_EmptySet DEF Init, RefInv

LEMMA RefHolds == Spec => []RefInv
  BY InitRef, StepRef, InvHolds, PTL DEF Spec

\* `Connected` and `Disconnected` are strictly paired: once the queued events
\* are applied the count is the number of connections past their handshake,
\* however the connection tasks end (ConnectionGuard, Clients).
THEOREM RefcountPairedCorrect == Spec => []RefcountPaired
  <1>1. Inv /\ RefInv => RefcountPaired
    <2> SUFFICES ASSUME Inv, RefInv PROVE RefcountPaired
      OBVIOUS
    <2>1. DOMAIN events = 1..Len(events)
      BY DEF Inv, TypeOK
    <2>2. \A e : Queued(e) = Upto(events, e, Len(events))
      BY <2>1 DEF Queued, Upto, Places
    <2> QED
      BY <2>2 DEF RefInv, RefcountPaired, After, Counted
  <1> QED
    BY <1>1, InvHolds, RefHolds, PTL

LEMMA Underflow == Inv /\ RefInv => NoUnderflow
  <1> SUFFICES ASSUME Inv, RefInv PROVE active >= 0
    BY DEF NoUnderflow
  <1>1. 0 \in 0..Len(events)
    BY DEF Inv, TypeOK
  <1>2. After(0) = active
    BY UptoZero DEF After, Inv, TypeOK
  <1> QED
    BY <1>1, <1>2 DEF RefInv

\* The count never goes below zero, so the subtraction of the usize never
\* wraps: a connection's Disconnected is behind its Connected in the channel
\* (Clients::disconnected).
THEOREM NoUnderflowCorrect == Spec => []NoUnderflow
  BY Underflow, InvHolds, RefHolds, PTL

-----------------------------------------------------------------------------
(* The idle timer *)

\* The idle branch is on only in a select that was entered with a count of
\* zero, which no event has changed since, and a count of zero was set
\* together with the timer.
IdleInv ==
  /\ pc = "load" => active = 0
  /\ pc = "select" /\ idleOn => active = 0
  /\ active = 0 => ~used

LEMMA StepIdle == Inv /\ NoUnderflow /\ IdleInv /\ [Next]_vars => IdleInv'
  <1> SUFFICES ASSUME Inv, NoUnderflow, IdleInv, [Next]_vars PROVE IdleInv'
    OBVIOUS
  <1>1. CASE TakeConnected \/ TakeDisconnected
    BY <1>1 DEF Inv, TypeOK, NoUnderflow, IdleInv, TakeConnected, TakeDisconnected
  <1>2. CASE SelectEnter \/ SelectLoad
    BY <1>2 DEF IdleInv, SelectEnter, SelectLoad
  <1>3. ASSUME UNCHANGED <<active, used>>, pc' \notin {"load", "select"} PROVE IdleInv'
    BY <1>3 DEF IdleInv
  <1>4. ASSUME UNCHANGED <<active, used, pc, idleOn>> PROVE IdleInv'
    BY <1>4 DEF IdleInv
  <1>5. ASSUME NEW k \in Clients, Connect(k) \/ Hello(k) \/ TaskEnd(k) \/ Set(k) PROVE IdleInv'
    BY <1>4, <1>5 DEF Connect, Hello, TaskEnd, Set, supVars
  <1>6. CASE TimerElapse \/ Deadline \/ Sigterm \/ WriterStep \/ UNCHANGED vars
    BY <1>4, <1>6 DEF TimerElapse, Deadline, Sigterm, WriterStep, vars, supVars
  <1>7. ASSUME NEW k \in Clients, Accept(k) PROVE IdleInv'
    BY <1>3, <1>7 DEF Accept
  <1>8. CASE IdleBreak \/ SigtermBreak \/ DrainEmpty \/ DrainLoad \/ DrainPoll \/ ProcessExit
             \/ AcceptFail
    BY <1>3, <1>8 DEF IdleBreak, SigtermBreak, DrainEmpty, DrainLoad, DrainPoll, ProcessExit,
       AcceptFail
  <1> QED
    BY <1>1, <1>2, <1>5, <1>6, <1>7, <1>8 DEF Next, SupervisorStep

\* The idle exit is taken only when nobody is counted and nobody has been
\* since the timer was set: time that passed under a client never ends the
\* daemon (the select of Supervisor::run and the reset of its timer).
THEOREM IdleTimerFreshCorrect == Spec => IdleTimerFresh
  <1>1. Init => IdleInv
    BY DEF Init, IdleInv
  <1>2. IdleInv /\ [Next]_vars => [IdleBreak => ~used /\ active = 0]_vars
    BY DEF IdleInv, IdleBreak
  <1> QED
    BY <1>1, <1>2, StepIdle, NoUnderflowCorrect, InvHolds, PTL DEF Spec, IdleTimerFresh
=============================================================================
