--------------------------- MODULE SessionProofs ---------------------------
(***************************************************************************)
(* Theorems about Session, for any handles, namespaces, calls and events.  *)
(***************************************************************************)
EXTENDS Session, SequenceTheorems, TLAPS

-----------------------------------------------------------------------------
(* Types *)

Frames == [what : Responses, to : Calls]
Stubs == [up : BOOLEAN, epoch : Epochs, home : Epochs, requests : Seq(Calls),
          replies : Seq(Frames)]
CallRecords == [pc : CallStates, retried : BOOLEAN, result : Results, from : Calls \cup {None}]

Types ==
  /\ epoch \in Epochs
  /\ drops \in 0..MaxDrops
  /\ registry \subseteq Namespaces
  /\ task \in [Registrations -> TaskStates]
  /\ stray \in [Calls -> Nat]
  /\ built \in [Namespaces -> Nat]
  /\ served \in [Calls -> Nat]
  /\ severed \subseteq Calls
  /\ cell \in [Handles -> {"empty", "busy", "full"}]
  /\ stub \in [Handles -> Stubs]
  /\ mutex \in [Handles -> Calls \cup {None}]
  /\ call \in [Calls -> CallRecords]

\* Whose turn it is at a handle's cell and at its stub.
Turns ==
  /\ \A h \in Handles :
       cell[h] = "busy" <=> \E c \in Calls : Owner[c] = h /\ Initializing(c)
  /\ \A c, d \in Calls : Initializing(c) /\ Initializing(d) /\ Owner[c] = Owner[d] => c = d
  /\ \A c \in Calls :
       mutex[Owner[c]] = c <=> call[c].pc \in {"send", "receive", "reconnect"}

LEMMA NamespaceType ==
  ASSUME NEW r \in Registrations
  PROVE  r[1] \in Calls /\ Namespace(r[1]) \in Namespaces
BY SessionAssumption DEF Namespace, Registrations

LEMMA RespondType ==
  ASSUME NEW r, NEW what \in {"registered", "refused"}
  PROVE  Respond(r, what) \in {what, "none"}
BY DEF Respond

LEMMA TypeSplit == TypeOK <=> Types /\ Turns
  BY DEF TypeOK, Types, Turns, Stubs, Frames, CallRecords

LEMMA RegistrationType ==
  ASSUME Types, NEW c \in Calls
  PROVE  Registration(c) \in Registrations
  BY DEF Types, CallRecords, Registration, Registrations

LEMMA OwnerType == ASSUME NEW c \in Calls PROVE Owner[c] \in Handles /\ c # None
  BY SessionAssumption

\* A return changes the call, and of its handle the mutex it holds and the
\* cell it was initializing.
LEMMA ReturnEffect ==
  ASSUME Types, NEW c \in Calls, NEW r \in Results, NEW f \in Calls \cup {None}, Return(c, r, f)
  PROVE  /\ call' \in [Calls -> CallRecords]
         /\ \A d \in Calls \ {c} : call'[d] = call[d]
         /\ call'[c].pc = "done" /\ call'[c].result = r /\ call'[c].from = f
         /\ call'[c].retried = call[c].retried
         /\ mutex' \in [Handles -> Calls \cup {None}]
         /\ \A h \in Handles : mutex'[h] = IF h = Owner[c] /\ mutex[h] = c THEN None ELSE mutex[h]
         /\ cell' \in [Handles -> {"empty", "busy", "full"}]
         /\ \A h \in Handles :
              cell'[h] = IF h = Owner[c] /\ Initializing(c) THEN "empty" ELSE cell[h]
  <1> USE OwnerType DEF Types, Return
  <1>1. /\ call' \in [Calls -> CallRecords]
        /\ \A d \in Calls \ {c} : call'[d] = call[d]
        /\ call'[c].pc = "done" /\ call'[c].result = r /\ call'[c].from = f
        /\ call'[c].retried = call[c].retried
    BY DEF CallRecords, CallStates
  <1>2. /\ mutex' \in [Handles -> Calls \cup {None}]
        /\ \A h \in Handles : mutex'[h] = IF h = Owner[c] /\ mutex[h] = c THEN None ELSE mutex[h]
    OBVIOUS
  <1>3. /\ cell' \in [Handles -> {"empty", "busy", "full"}]
        /\ \A h \in Handles :
             cell'[h] = IF h = Owner[c] /\ Initializing(c) THEN "empty" ELSE cell[h]
    OBVIOUS
  <1> QED
    BY <1>1, <1>2, <1>3

LEMMA ReturnTurns ==
  ASSUME TypeOK, NEW c \in Calls, NEW r \in Results, NEW f \in Calls \cup {None}, Return(c, r, f)
  PROVE  Turns'
  <1>1. Types /\ Turns
    BY TypeSplit
  <1> QED
    BY <1>1, OwnerType, ReturnEffect DEF Turns, Initializing

\* What the other actions do to the call, pointwise.
LEMMA GotoEffect ==
  ASSUME Types, NEW c \in Calls, NEW pc \in CallStates, Goto(c, pc)
  PROVE  /\ call' \in [Calls -> CallRecords]
         /\ \A d \in Calls \ {c} : call'[d] = call[d]
         /\ call'[c].pc = pc /\ call'[c].result = call[c].result /\ call'[c].from = call[c].from
         /\ call'[c].retried = call[c].retried
  BY DEF Types, Goto, CallRecords

LEMMA MarkEffect ==
  ASSUME Types, NEW c \in Calls, NEW pc \in CallStates, NEW b \in BOOLEAN,
         call' = [call EXCEPT ![c].pc = pc, ![c].retried = b]
  PROVE  /\ call' \in [Calls -> CallRecords]
         /\ \A d \in Calls \ {c} : call'[d] = call[d]
         /\ call'[c].pc = pc /\ call'[c].result = call[c].result /\ call'[c].from = call[c].from
         /\ call'[c].retried = b
  BY DEF Types, CallRecords

\* What the actions do to the stub, pointwise.
LEMMA ConnectEffect ==
  ASSUME Types, NEW c \in Calls, Connect(c)
  PROVE  /\ stub' \in [Handles -> Stubs]
         /\ \A h \in Handles \ {Owner[c]} : stub'[h] = stub[h]
         /\ stub'[Owner[c]].up /\ stub'[Owner[c]].epoch = epoch
         /\ stub'[Owner[c]].home = stub[Owner[c]].home
         /\ stub'[Owner[c]].requests = <<>> /\ stub'[Owner[c]].replies = <<>>
  <1>1. <<>> \in Seq(Calls) /\ <<>> \in Seq(Frames)
    BY EmptySeq
  <1> QED
    BY <1>1, OwnerType DEF Types, Connect, Stubs

LEMMA SendEffect ==
  ASSUME Types, NEW c \in Calls, Send(c)
  PROVE  /\ stub' \in [Handles -> Stubs]
         /\ \A h \in Handles \ {Owner[c]} : stub'[h] = stub[h]
         /\ stub'[Owner[c]].up = stub[Owner[c]].up
         /\ stub'[Owner[c]].epoch = stub[Owner[c]].epoch
         /\ stub'[Owner[c]].home = stub[Owner[c]].home
         /\ stub'[Owner[c]].requests = Append(stub[Owner[c]].requests, c)
         /\ stub'[Owner[c]].replies = stub[Owner[c]].replies
  <1>1. Append(stub[Owner[c]].requests, c) \in Seq(Calls)
    BY OwnerType DEF Types, Stubs
  <1> QED
    BY <1>1, OwnerType DEF Types, Send, Stubs

LEMMA ReceiveEffect ==
  ASSUME Types, NEW c \in Calls, Receive(c)
  PROVE  /\ stub' \in [Handles -> Stubs]
         /\ \A h \in Handles \ {Owner[c]} : stub'[h] = stub[h]
         /\ stub'[Owner[c]].up = stub[Owner[c]].up
         /\ stub'[Owner[c]].epoch = stub[Owner[c]].epoch
         /\ stub'[Owner[c]].home = stub[Owner[c]].home
         /\ stub'[Owner[c]].requests = stub[Owner[c]].requests
         /\ stub'[Owner[c]].replies = Tail(stub[Owner[c]].replies)
         /\ stub[Owner[c]].replies # <<>>
         /\ \E r \in Results : Return(c, r, Head(stub[Owner[c]].replies).to)
         /\ Head(stub[Owner[c]].replies).to \in Calls
  <1> DEFINE q == stub[Owner[c]].replies
  <1>1. q \in Seq(Frames) /\ q # <<>>
    BY OwnerType DEF Types, Stubs, Receive
  <1>2. Tail(q) \in Seq(Frames) /\ Head(q) \in Frames
    BY <1>1, HeadTailProperties
  <1>4. Head(q).to \in Calls /\ \E r \in Results : Return(c, r, Head(q).to)
    BY <1>2 DEF Receive, Frames, Results
  <1> HIDE DEF q
  <1>5. stub' = [stub EXCEPT ![Owner[c]].replies = Tail(q)]
    BY DEF Receive, q
  <1> QED
    BY <1>1, <1>2, <1>4, <1>5, OwnerType DEF Types, Stubs, q

LEMMA AwaitEffect ==
  ASSUME Types, NEW c \in Calls, Await(c), task[Registration(c)] = "registered"
  PROVE  /\ stub' \in [Handles -> Stubs]
         /\ \A h \in Handles \ {Owner[c]} : stub'[h] = stub[h]
         /\ stub'[Owner[c]].up = stub[Owner[c]].up
         /\ stub'[Owner[c]].epoch = stub[Owner[c]].epoch
         /\ stub'[Owner[c]].home = stub[Owner[c]].epoch
         /\ stub'[Owner[c]].requests = stub[Owner[c]].requests
         /\ stub'[Owner[c]].replies = stub[Owner[c]].replies
  <1>1. stub' = [stub EXCEPT ![Owner[c]].home = stub[Owner[c]].epoch]
    BY DEF Await
  <1>2. stub[Owner[c]].epoch \in Epochs
    BY OwnerType DEF Types, Stubs
  <1> QED
    BY <1>1, <1>2, OwnerType DEF Types, Stubs

LEMMA ServeEffect ==
  ASSUME Types, NEW h \in Handles, Serve(h)
  PROVE  /\ stub' \in [Handles -> Stubs]
         /\ \A j \in Handles \ {h} : stub'[j] = stub[j]
         /\ stub'[h].up = stub[h].up /\ stub'[h].epoch = stub[h].epoch
         /\ stub'[h].home = stub[h].home
         /\ stub[h].requests # <<>>
         /\ Head(stub[h].requests) \in Calls
         /\ stub'[h].requests = Tail(stub[h].requests)
         /\ \E r \in Frames : /\ r.to = Head(stub[h].requests)
                              /\ r.what = "unknown" => Name[h] \notin registry
                              /\ stub'[h].replies = Append(stub[h].replies, r)
         /\ served' \in [Calls -> Nat]
         /\ \A c \in Calls :
              served'[c] = IF c = Head(stub[h].requests) THEN served[c] + 1 ELSE served[c]
  <1> DEFINE c == Head(stub[h].requests)
  <1>1. /\ stub[h].requests \in Seq(Calls) /\ stub[h].requests # <<>>
        /\ stub[h].replies \in Seq(Frames)
    BY DEF Types, Stubs, Serve
  <1>2. c \in Calls /\ Tail(stub[h].requests) \in Seq(Calls)
    BY <1>1, HeadTailProperties
  <1>3. PICK what \in Outcomes(h, c) :
          /\ served' = [served EXCEPT ![c] = @ + 1]
          /\ stub' = [stub EXCEPT ![h].requests = Tail(@),
                                  ![h].replies = Append(@, [what |-> what, to |-> c])]
    BY DEF Serve
  <1> DEFINE r == [what |-> what, to |-> c]
  <1>4. r \in Frames /\ (what = "unknown" => Name[h] \notin registry)
    BY <1>2, SessionAssumption DEF Outcomes, Frames, Responses, Kinds
  <1>5. Append(stub[h].replies, r) \in Seq(Frames)
    BY <1>1, <1>4
  <1>6. r.to = c /\ (r.what = "unknown" => Name[h] \notin registry)
    BY <1>4
  <1> HIDE DEF r
  <1>7. stub' = [stub EXCEPT ![h].requests = Tail(stub[h].requests),
                             ![h].replies = Append(stub[h].replies, r)]
    BY <1>3 DEF Types, Stubs, r
  <1>8. /\ stub' \in [Handles -> Stubs]
        /\ \A j \in Handles \ {h} : stub'[j] = stub[j]
        /\ stub'[h].up = stub[h].up /\ stub'[h].epoch = stub[h].epoch
        /\ stub'[h].home = stub[h].home
        /\ stub'[h].requests = Tail(stub[h].requests)
        /\ stub'[h].replies = Append(stub[h].replies, r)
    <2> HIDE DEF c
    <2> QED
      BY <1>2, <1>5, <1>7 DEF Types, Stubs
  <1>9. /\ served' \in [Calls -> Nat]
        /\ \A d \in Calls : served'[d] = IF d = c THEN served[d] + 1 ELSE served[d]
    BY <1>2, <1>3 DEF Types
  <1> QED
    BY <1>1, <1>2, <1>4, <1>6, <1>8, <1>9

LEMMA CrashEffect ==
  ASSUME Types, Crash
  PROVE  /\ epoch' = epoch + 1 /\ epoch' \in Epochs
         /\ stub' \in [Handles -> Stubs]
         /\ \A h \in Handles : /\ stub'[h].up = stub[h].up
                               /\ stub'[h].epoch = stub[h].epoch
                               /\ stub'[h].home = stub[h].home
                               /\ stub'[h].requests = <<>>
                               /\ stub'[h].replies = stub[h].replies
  <1>1. <<>> \in Seq(Calls)
    BY EmptySeq
  <1>2. epoch' = epoch + 1 /\ epoch' \in Epochs
    BY SessionAssumption DEF Types, Crash, Epochs
  <1>3. stub' = [h \in Handles |-> [stub[h] EXCEPT !.requests = <<>>]]
    BY DEF Crash
  <1>4. stub \in [Handles -> Stubs]
    BY DEF Types
  <1> QED
    BY <1>1, <1>2, <1>3, <1>4 DEF Stubs

LEMMA BreakEffect ==
  ASSUME Types, NEW h \in Handles, Break(h)
  PROVE  /\ stub' \in [Handles -> Stubs]
         /\ \A j \in Handles \ {h} : stub'[j] = stub[j]
         /\ ~stub'[h].up
         /\ stub'[h].epoch = stub[h].epoch
         /\ stub'[h].home = stub[h].home
         /\ stub'[h].requests = <<>> /\ stub'[h].replies = <<>>
  <1>1. <<>> \in Seq(Calls) /\ <<>> \in Seq(Frames)
    BY EmptySeq
  <1> QED
    BY <1>1 DEF Types, Break, Stubs

\* A move of one call that keeps its part in the cell and at the stub.
LEMMA SameTurns ==
  ASSUME Turns, NEW c \in Calls, UNCHANGED <<cell, mutex>>,
         \A d \in Calls \ {c} : call'[d] = call[d],
         Initializing(c)' <=> Initializing(c),
         call'[c].pc \in {"send", "receive", "reconnect"} <=>
           call[c].pc \in {"send", "receive", "reconnect"}
  PROVE  Turns'
  <1>1. \A d \in Calls : Initializing(d)' <=> Initializing(d)
    BY DEF Initializing
  <1>2. \A d \in Calls : call'[d].pc \in {"send", "receive", "reconnect"} <=>
                         call[d].pc \in {"send", "receive", "reconnect"}
    OBVIOUS
  <1> QED
    BY <1>1, <1>2 DEF Turns

LEMMA CallStepType ==
  ASSUME TypeOK, NEW c \in Calls, CallStep(c) \/ Cancel(c)
  PROVE  TypeOK'
  <1>0. Types /\ Turns
    BY TypeSplit
  <1> USE <1>0, OwnerType
  <1>1. CASE Enter(c)
    <2>1. PICK pc \in {"lock", "connect"} : Goto(c, pc) /\ (pc = "lock" <=> cell[Owner[c]] = "full")
      BY <1>1 DEF Enter
    <2>2. Types'
      BY <1>1, <2>1, GotoEffect DEF Enter, daemon, Types, CallStates
    <2>3. Turns'
      BY <1>1, <2>1, GotoEffect DEF Enter, Types, Turns, Initializing, CallStates
    <2> QED
      BY <2>2, <2>3, TypeSplit, PTL
  <1>2. CASE Connect(c)
    <2>1. PICK pc \in {"register", "send"} :
            Goto(c, pc) /\ (pc = "register" <=> call[c].pc = "connect")
      BY <1>2 DEF Connect
    <2>2. Types'
      BY <1>2, <2>1, GotoEffect, ConnectEffect DEF Connect, daemon, Types, CallStates
    <2>3. Turns'
      BY <1>2, <2>1, GotoEffect, SameTurns DEF Connect, Initializing, CallStates
    <2> QED
      BY <2>2, <2>3, TypeSplit, PTL
  <1>3. CASE ConnectFail(c)
    <2>1. Types' /\ Turns'
      BY <1>3, ReturnEffect, ReturnTurns DEF ConnectFail, daemon, Types, Results
    <2> QED
      BY <2>1, TypeSplit, PTL
  <1>4. CASE Register(c)
    <2>0. Registration(c) \in Registrations
      BY RegistrationType
    <2>1. Types' /\ Turns'
      BY <1>4, <2>0, GotoEffect DEF Register, Types, Turns, TaskStates, CallStates, Initializing
    <2> QED
      BY <2>1, TypeSplit, PTL
  <1>5. CASE Await(c)
    <2>0. /\ task' \in [Registrations -> TaskStates]
          /\ UNCHANGED <<epoch, drops, registry, stray, built, served, severed>>
      BY <1>5, RegistrationType DEF Await, Types, TaskStates
    <2>1. CASE task[Registration(c)] = "registered"
      <3>1. /\ call' = [call EXCEPT ![c].pc = "lock", ![c].retried = FALSE]
            /\ cell' = [cell EXCEPT ![Owner[c]] = "full"]
            /\ UNCHANGED mutex
        BY <1>5, <2>1 DEF Await
      <3>2. Types'
        BY <1>5, <2>0, <2>1, <3>1, MarkEffect, AwaitEffect DEF Types, CallStates
      <3>3. /\ \A d \in Calls \ {c} : call'[d] = call[d]
            /\ call[c].pc = "await" /\ call'[c].pc = "lock"
            /\ \A h \in Handles : cell'[h] = IF h = Owner[c] THEN "full" ELSE cell[h]
        <4>1. call[c].pc = "await"
          BY <1>5 DEF Await
        <4>2. \A h \in Handles : cell'[h] = IF h = Owner[c] THEN "full" ELSE cell[h]
          BY <3>1 DEF Types
        <4> QED
          BY <3>1, <4>1, <4>2, MarkEffect DEF CallStates
      <3>4. Initializing(c) /\ \A d \in Calls : Initializing(d)' <=> Initializing(d) /\ d # c
        BY <3>3 DEF Initializing
      <3>5. \A d \in Calls : call'[d].pc \in {"send", "receive", "reconnect"} <=>
                             call[d].pc \in {"send", "receive", "reconnect"}
        BY <3>3
      <3>6. Turns'
        <4>1. ASSUME NEW h \in Handles
              PROVE  cell'[h] = "busy" <=> \E d \in Calls : Owner[d] = h /\ Initializing(d)'
          BY <3>3, <3>4 DEF Turns
        <4>2. \A d \in Calls : mutex'[Owner[d]] = d <=>
                              call'[d].pc \in {"send", "receive", "reconnect"}
          BY <3>1, <3>5 DEF Turns
        <4>3. \A d, e \in Calls :
                Initializing(d)' /\ Initializing(e)' /\ Owner[d] = Owner[e] => d = e
          BY <3>4 DEF Turns
        <4> QED
          BY <4>1, <4>2, <4>3 DEF Turns
      <3> QED
        BY <3>2, <3>6, TypeSplit, PTL
    <2>2. CASE task[Registration(c)] # "registered"
      <3>1. Types' /\ Turns'
        BY <1>5, <2>0, <2>2, ReturnEffect, ReturnTurns DEF Await, Types, Results
      <3> QED
        BY <3>1, TypeSplit, PTL
    <2> QED
      BY <2>1, <2>2
  <1>6. CASE Lock(c)
    <2>1. Types' /\ Turns'
      BY <1>6, GotoEffect DEF Lock, daemon, Types, Turns, CallStates, Initializing
    <2> QED
      BY <2>1, TypeSplit, PTL
  <1>7. CASE Send(c)
    <2>1. Types'
      BY <1>7, GotoEffect, SendEffect DEF Send, daemon, Types, CallStates
    <2>2. Turns'
      BY <1>7, GotoEffect, SameTurns DEF Send, CallStates, Initializing
    <2> QED
      BY <2>1, <2>2, TypeSplit, PTL
  <1>8. CASE Receive(c)
    <2>1. PICK r \in Results : Return(c, r, Head(stub[Owner[c]].replies).to)
      BY <1>8, ReceiveEffect
    <2>2. Head(stub[Owner[c]].replies).to \in Calls \cup {None}
      BY <1>8, ReceiveEffect
    <2>3. Types'
      <3>1. stub' \in [Handles -> Stubs]
        BY <1>8, ReceiveEffect
      <3>2. /\ call' \in [Calls -> CallRecords] /\ mutex' \in [Handles -> Calls \cup {None}]
            /\ cell' \in [Handles -> {"empty", "busy", "full"}]
        BY <2>1, <2>2, ReturnEffect
      <3> QED
        BY <1>8, <3>1, <3>2 DEF Receive, daemon, Types
    <2>4. Turns'
      BY <2>1, <2>2, ReturnTurns
    <2> QED
      BY <2>3, <2>4, TypeSplit, PTL
  <1>9. CASE Dropped(c)
    <2>1. CASE call[c].retried
      <3>1. Types' /\ Turns'
        BY <1>9, <2>1, ReturnEffect, ReturnTurns DEF Dropped, daemon, Types, Results
      <3> QED
        BY <3>1, TypeSplit, PTL
    <2>2. CASE ~call[c].retried
      <3>1. PICK pc \in {"connect", "reconnect"} :
              /\ call' = [call EXCEPT ![c].pc = pc, ![c].retried = TRUE]
              /\ pc = "connect" <=> Initializing(c)
        BY <1>9, <2>2 DEF Dropped
      <3>2. Types'
        BY <1>9, <2>2, <3>1, MarkEffect DEF Dropped, daemon, Types, CallStates
      <3>3. Turns'
        BY <1>9, <2>2, <3>1, MarkEffect, SameTurns DEF Dropped, CallStates, Initializing
      <3> QED
        BY <3>2, <3>3, TypeSplit, PTL
    <2> QED
      BY <2>1, <2>2
  <1>10. CASE Cancel(c)
    <2>1. Types' /\ Turns'
      BY <1>10, ReturnEffect, ReturnTurns DEF Cancel, daemon, Types, Results
    <2> QED
      BY <2>1, TypeSplit, PTL
  <1> QED
    BY <1>1, <1>2, <1>3, <1>4, <1>5, <1>6, <1>7, <1>8, <1>9, <1>10 DEF CallStep

\* What the daemon, and the network, do.
DaemonStep ==
  \/ \E r \in Registrations : BuildStep(r)
  \/ \E h \in Handles : Serve(h) \/ Break(h)
  \/ \E c \in Calls : ServeStray(c)
  \/ Crash

LEMMA DaemonQuiet == DaemonStep => UNCHANGED <<cell, mutex, call>>
  BY DEF DaemonStep, BuildStep, BuildStart, BuildEnd, BuildFail, Serve, Break, ServeStray, Crash

LEMMA BuildEffect ==
  ASSUME Types, NEW r \in Registrations, BuildStep(r)
  PROVE  /\ UNCHANGED <<epoch, drops, stray, served, severed, cell, stub, mutex, call>>
         /\ task' \in [Registrations -> TaskStates]
         /\ registry \subseteq registry' /\ registry' \subseteq Namespaces
         /\ built' \in [Namespaces -> Nat]
         /\ \A q \in Registrations :
              task'[q] = "registered" => task[q] = "registered" \/ Namespace(q[1]) \in registry'
  <1>1. PICK t \in {"registered", "refused", "build", "none"} :
          /\ task' = [task EXCEPT ![r] = t]
          /\ t = "registered" => Namespace(r[1]) \in registry'
    BY RespondType DEF BuildStep, BuildStart, BuildEnd, BuildFail
  <1>2. /\ task' \in [Registrations -> TaskStates]
        /\ \A q \in Registrations :
             task'[q] = "registered" => task[q] = "registered" \/ Namespace(q[1]) \in registry'
    BY <1>1 DEF Types, TaskStates
  <1> QED
    BY <1>2, NamespaceType DEF Types, BuildStep, BuildStart, BuildEnd, BuildFail

LEMMA DaemonStepType ==
  ASSUME TypeOK, DaemonStep
  PROVE  TypeOK'
  <1>0. Types /\ Turns
    BY TypeSplit
  <1>1. UNCHANGED <<cell, mutex, call>>
    BY DaemonQuiet
  <1>2. Turns'
    BY <1>0, <1>1 DEF Turns, Initializing
  <1>3. ASSUME NEW r \in Registrations, BuildStep(r) PROVE Types'
    BY <1>0, <1>3, BuildEffect DEF Types
  <1>4. ASSUME NEW h \in Handles, Serve(h) PROVE Types'
    BY <1>0, <1>4, ServeEffect DEF Serve, Types
  <1>5. ASSUME Crash PROVE Types'
    <2>1. epoch' \in Epochs /\ stub' \in [Handles -> Stubs]
      BY <1>0, <1>5, CrashEffect
    <2>2. /\ task' \in [Registrations -> TaskStates] /\ served' \in [Calls -> Nat]
          /\ stray' \in [Calls -> Nat] /\ severed' \subseteq Calls /\ drops' = drops
          /\ built' \in [Namespaces -> Nat] /\ registry' \subseteq Namespaces
      BY <1>0, <1>5 DEF Crash, Types, TaskStates
    <2> QED
      BY <1>0, <1>1, <2>1, <2>2 DEF Types
  <1>6. ASSUME NEW h \in Handles, Break(h) PROVE Types'
    <2>1. stub' \in [Handles -> Stubs]
      BY <1>0, <1>6, BreakEffect
    <2>2. /\ task' \in [Registrations -> TaskStates]
          /\ stray' \in [Calls -> Nat] /\ severed' \subseteq Calls
      BY <1>0, <1>6 DEF Break, Types, TaskStates
    <2>3. drops' \in 0..MaxDrops /\ UNCHANGED <<epoch, registry, built, served>>
      BY <1>0, <1>6, SessionAssumption DEF Break, Types
    <2> QED
      BY <1>0, <1>1, <2>1, <2>2, <2>3 DEF Types
  <1>7. ASSUME NEW c \in Calls, ServeStray(c) PROVE Types'
    BY <1>0, <1>7 DEF ServeStray, Types
  <1>8. Types'
    BY <1>3, <1>4, <1>5, <1>6, <1>7 DEF DaemonStep
  <1> QED
    BY <1>2, <1>8, TypeSplit, PTL

LEMMA StepType == TypeOK /\ [Next]_vars => TypeOK'
  <1> SUFFICES ASSUME TypeOK, [Next]_vars PROVE TypeOK'
    OBVIOUS
  <1>1. CASE UNCHANGED vars
    <2>1. Types' /\ Turns'
      BY <1>1, TypeSplit DEF Types, Turns, vars, Initializing
    <2> QED
      BY <2>1, TypeSplit, PTL
  <1> QED
    BY <1>1, CallStepType, DaemonStepType DEF Next, DaemonStep

\* Every variable of the conversation keeps its type; one call at a time
\* initializes a handle's cell, and the mutex is held exactly by the call at
\* the stub, through cancels, drops and reconnects (SemanticCache's
\* OnceCell and Mutex).
THEOREM TypeCorrect == Spec => []TypeOK
  <1>1. ASSUME Init PROVE TypeOK
    <2>1. [up |-> FALSE, epoch |-> 0, home |-> 0, requests |-> <<>>, replies |-> <<>>] \in Stubs
      BY SessionAssumption, EmptySeq DEF Stubs, Epochs
    <2>2. [pc |-> "start", retried |-> FALSE, result |-> "none", from |-> None] \in CallRecords
      BY DEF CallRecords, CallStates, Results
    <2>3. Types
      BY <1>1, <2>1, <2>2, SessionAssumption DEF Init, Types, Epochs, TaskStates
    <2>4. Turns
      BY <1>1, OwnerType DEF Init, Turns, Initializing
    <2> QED
      BY <2>3, <2>4, TypeSplit
  <1> QED
    BY <1>1, StepType, PTL DEF Spec

-----------------------------------------------------------------------------
(* The build lock *)

\* The build lock of handle_register: a namespace is built by one registration
\* at a time, never once it is registered, and it is registered exactly when
\* it has been built.
BuildInv ==
  /\ registry \subseteq Namespaces
  /\ task \in [Registrations -> TaskStates]
  /\ built \in [Namespaces -> Nat]
  /\ \A n \in Namespaces : built[n] = IF n \in registry THEN 1 ELSE 0
  /\ \A r \in Registrations : task[r] = "build" => Namespace(r[1]) \notin registry
  /\ \A r, q \in Registrations :
       task[r] = "build" /\ task[q] = "build" /\ Namespace(r[1]) = Namespace(q[1]) => r = q

\* A step preserves the build lock's invariant: registrations take the lock
\* one at a time, the end of a build registers what it has built, and a crash
\* forgets both together.
LEMMA BuildStepInv == TypeOK /\ BuildInv /\ [Next]_vars => BuildInv'
<1> SUFFICES ASSUME TypeOK, BuildInv, [Next]_vars PROVE BuildInv'
  OBVIOUS
<1> USE DEF BuildInv
<1>0. ASSUME NEW r \in Registrations, NEW t \in {"registered", "refused", "queued", "none"},
             task' = [task EXCEPT ![r] = t], UNCHANGED <<registry, built>>
      PROVE  BuildInv'
  BY <1>0 DEF TaskStates, Namespace
<1>1. ASSUME NEW r \in Registrations, BuildStart(r) PROVE BuildInv'
  <2>1. CASE Namespace(r[1]) \in registry
    BY <1>0, <1>1, <2>1, RespondType DEF BuildStart
  <2>2. CASE Namespace(r[1]) \notin registry
    BY <1>1, <2>2, NamespaceType DEF BuildStart, TaskStates, Namespace
  <2> QED
    BY <2>1, <2>2
<1>2. ASSUME NEW r \in Registrations, BuildEnd(r) PROVE BuildInv'
  <2> DEFINE n == Namespace(r[1])
  <2>1. n \in Namespaces /\ n \notin registry
    BY <1>2, NamespaceType DEF BuildEnd
  <2>0. PICK t \in {"registered", "none"} : task' = [task EXCEPT ![r] = t]
    BY <1>2, RespondType DEF BuildEnd
  <2>2. registry' \subseteq Namespaces /\ task' \in [Registrations -> TaskStates]
    BY <1>2, <2>0, <2>1 DEF BuildEnd, TaskStates
  <2>3. /\ built' \in [Namespaces -> Nat]
        /\ \A m \in Namespaces : built'[m] = IF m \in registry' THEN 1 ELSE 0
    BY <1>2, <2>1 DEF BuildEnd
  <2>4. \A q \in Registrations : task'[q] = "build" => Namespace(q[1]) \notin registry'
    BY <1>2, <2>0 DEF BuildEnd, Namespace
  <2>5. QED
    BY <1>2, <2>0, <2>2, <2>3, <2>4 DEF BuildEnd, Namespace
<1>3. ASSUME NEW r \in Registrations, BuildFail(r) PROVE BuildInv'
  BY <1>0, <1>3, RespondType DEF BuildFail
<1>4. ASSUME NEW c \in Calls, Register(c) \/ Await(c) PROVE BuildInv'
  BY <1>0, <1>4, TypeSplit, RegistrationType DEF Register, Await
<1>5. ASSUME Crash \/ \E h \in Handles : Break(h) PROVE BuildInv'
  <2>1. CASE Crash
    BY <2>1 DEF Crash, TaskStates, Namespace
  <2>2. ASSUME NEW h \in Handles, Break(h) PROVE BuildInv'
    <3>1. UNCHANGED <<registry, built>> /\ task' \in [Registrations -> TaskStates]
      BY <2>2 DEF Break, TaskStates
    <3>2. \A r \in Registrations : task'[r] = "build" => task[r] = "build"
      BY <2>2 DEF Break
    <3> QED
      BY <3>1, <3>2 DEF Namespace
  <2> QED
    BY <1>5, <2>1, <2>2
<1>6. ASSUME UNCHANGED <<registry, task, built>> PROVE BuildInv'
  BY <1>6 DEF Namespace
<1>7. ASSUME NEW c \in Calls, CallStep(c) \/ Cancel(c) PROVE BuildInv'
  BY <1>4, <1>6, <1>7 DEF CallStep, Cancel, Enter, Connect, ConnectFail, Lock, Send,
     Receive, Dropped, daemon
<1>8. ASSUME (\E h \in Handles : Serve(h)) \/ (\E c \in Calls : ServeStray(c)) PROVE BuildInv'
  BY <1>6, <1>8 DEF Serve, ServeStray
<1>9. CASE UNCHANGED vars
  BY <1>6, <1>9 DEF vars
<1>10. QED
  BY <1>1, <1>2, <1>3, <1>5, <1>7, <1>8, <1>9 DEF Next, BuildStep

\* A namespace's cache is built at most once by a daemon, however many handles
\* register it together and whichever of them are cancelled (handle_register,
\* DaemonState::build_lock).
THEOREM BuiltOnceCorrect == Spec => []BuiltOnce
<1>1. Init => BuildInv
  BY DEF Init, BuildInv, TaskStates
<1>2. BuildInv => BuiltOnce
  BY DEF BuildInv, BuiltOnce
<1>3. QED
  BY <1>1, <1>2, BuildStepInv, TypeCorrect, PTL DEF Spec

-----------------------------------------------------------------------------
(* Registered with the daemon that answers *)

\* A connection reaches the daemon its namespace was registered with or a
\* later one; it is used only once its cell is full, and that daemon, as long
\* as it runs, knows the namespace.
HomeInv ==
  /\ \A h \in Handles : stub[h].home <= stub[h].epoch /\ stub[h].epoch <= epoch
  /\ \A c \in Calls :
       call[c].pc \in {"lock", "send", "receive", "reconnect"} => cell[Owner[c]] = "full"
  /\ \A h \in Handles :
       cell[h] # "full" => stub[h].requests = <<>> /\ stub[h].replies = <<>>
  /\ \A h \in Handles : cell[h] = "full" /\ stub[h].home = epoch => Name[h] \in registry
  /\ \A c \in Calls :
       call[c].pc = "await" /\ task[Registration(c)] = "registered" /\ stub[Owner[c]].epoch = epoch
         => Namespace(c) \in registry
  /\ \A h \in Handles : stub[h].requests # <<>> => Live(h)

LEMMA StubEpochs ==
  ASSUME Types, NEW h \in Handles
  PROVE  stub[h].epoch \in Nat /\ stub[h].home \in Nat /\ epoch \in Nat
  BY SessionAssumption DEF Types, Stubs, Epochs

\* A return leaves a full cell full.
LEMMA ReturnHome ==
  ASSUME TypeOK, HomeInv, NEW c \in Calls, NEW r \in Results, NEW f \in Calls \cup {None},
         Return(c, r, f), UNCHANGED <<epoch, registry, stub>>,
         \A d \in Calls \ {c} : \A b \in BOOLEAN : task'[<<d, b>>] = task[<<d, b>>]
  PROVE  HomeInv'
  <1>1. Types /\ Turns
    BY TypeSplit
  <1>2. \A h \in Handles : cell'[h] = "full" <=> cell[h] = "full"
    BY <1>1, ReturnEffect DEF Turns
  <1>3. \A d \in Calls : (d # c /\ call'[d] = call[d]) \/ call'[d].pc = "done"
    BY <1>1, ReturnEffect
  <1>4. \A d \in Calls \ {c} : task'[<<d, call[d].retried>>] = task[<<d, call[d].retried>>]
    BY <1>1 DEF Types, CallRecords
  <1>5. \A d \in Calls :
          call'[d].pc = "await" /\ task'[Registration(d)'] = "registered" /\ stub[Owner[d]].epoch = epoch
            => Namespace(d) \in registry
    BY <1>3, <1>4 DEF HomeInv, Registration
  <1> QED
    BY <1>2, <1>3, <1>5, OwnerType DEF HomeInv, Live, Namespace

LEMMA CallHome ==
  ASSUME TypeOK, HomeInv, NEW c \in Calls, CallStep(c) \/ Cancel(c)
  PROVE  HomeInv'
  <1>0. Types /\ Turns
    BY TypeSplit
  <1> USE <1>0, OwnerType
  <1>1. CASE Enter(c)
    <2>1. PICK pc \in {"lock", "connect"} : Goto(c, pc) /\ (pc = "lock" <=> cell[Owner[c]] = "full")
      BY <1>1 DEF Enter
    <2>2. \A h \in Handles : cell'[h] = "full" <=> cell[h] = "full"
      BY <1>1 DEF Enter, Types
    <2> QED
      BY <1>1, <2>1, <2>2, GotoEffect DEF Enter, daemon, HomeInv, CallStates, Live, Namespace, Registration
  <1>2. CASE Connect(c)
    <2>1. PICK pc \in {"register", "send"} :
            Goto(c, pc) /\ (pc = "register" <=> call[c].pc = "connect")
      BY <1>2 DEF Connect
    <2>2. call[c].pc \in {"connect", "reconnect"} /\ UNCHANGED <<daemon, cell, mutex>>
      BY <1>2 DEF Connect
    <2>3. \A d \in Calls \ {c} : call'[d] = call[d]
      BY <2>1, GotoEffect DEF CallStates
    <2>4. call'[c].pc = pc
      BY <2>1, GotoEffect DEF CallStates
    <2>5. \A h \in Handles : stub'[h].home <= stub'[h].epoch /\ stub'[h].epoch <= epoch
      BY <1>2, ConnectEffect, StubEpochs DEF HomeInv
    <2>6. \A d \in Calls \ {c} : call[d].pc = "await" => Owner[d] # Owner[c]
      BY <2>2 DEF Turns, HomeInv, Initializing
    <2>7. \A h \in Handles :
            /\ stub'[h].home = stub[h].home
            /\ \/ stub'[h].requests = stub[h].requests /\ stub'[h].replies = stub[h].replies
               \/ stub'[h].requests = <<>> /\ stub'[h].replies = <<>>
      BY <1>2, ConnectEffect
    <2>8. \A d \in Calls : call'[d].pc = "await" => stub'[Owner[d]] = stub[Owner[d]]
      BY <1>2, <2>3, <2>4, <2>6, ConnectEffect
    <2>9. \A h \in Handles : stub'[h].requests # <<>> => Live(h)'
      BY <1>2, <2>2, ConnectEffect DEF HomeInv, Live, daemon
    <2> QED
      BY <2>1, <2>2, <2>3, <2>4, <2>5, <2>7, <2>8, <2>9 DEF HomeInv, daemon, Live, Namespace, Registration
  <1>3. CASE ConnectFail(c)
    BY <1>3, ReturnHome DEF ConnectFail, Results, daemon
  <1>4. CASE Register(c)
    <2>1. call[c].pc = "register" /\ UNCHANGED <<epoch, registry, cell, stub>>
      BY <1>4 DEF Register
    <2>2. \A q \in Registrations : task'[q] = IF q = Registration(c) THEN "queued" ELSE task[q]
      BY <1>4 DEF Register, Types
    <2>4. \A d \in Calls : Registration(d) \in Registrations
      BY RegistrationType
    <2>3. /\ \A d \in Calls \ {c} : call'[d] = call[d]
          /\ call'[c].pc = "await" /\ call'[c].retried = call[c].retried
      BY <1>4, GotoEffect DEF Register, CallStates
    <2>5. \A d \in Calls : Registration(d)' = Registration(d)
      BY <2>3 DEF Registration
    <2>6. ASSUME NEW d \in Calls, call'[d].pc = "await", task'[Registration(d)] = "registered"
          PROVE  d # c /\ call[d].pc = "await" /\ task[Registration(d)] = "registered"
      BY <2>2, <2>3, <2>4, <2>6
    <2> QED
      BY <2>1, <2>3, <2>5, <2>6 DEF HomeInv, Live, Namespace
  <1>5. CASE Await(c)
    <2>0. \A q \in Registrations : task'[q] = IF q = Registration(c) THEN "none" ELSE task[q]
      BY <1>5 DEF Await, Types
    <2>1. CASE task[Registration(c)] = "registered"
      <3>1. /\ call' = [call EXCEPT ![c].pc = "lock", ![c].retried = FALSE]
            /\ call[c].pc = "await"
            /\ cell' = [cell EXCEPT ![Owner[c]] = "full"]
            /\ UNCHANGED <<epoch, registry, mutex>>
        BY <1>5, <2>1 DEF Await
      <3>2. (\A d \in Calls \ {c} : call'[d] = call[d]) /\ call'[c].pc = "lock"
        BY <3>1, MarkEffect DEF CallStates
      <3>3. \A h \in Handles : cell'[h] = IF h = Owner[c] THEN "full" ELSE cell[h]
        BY <3>1 DEF Types
      <3>4. \A h \in Handles : stub'[h].home <= stub'[h].epoch /\ stub'[h].epoch <= epoch
        BY <1>5, <2>1, AwaitEffect, StubEpochs DEF HomeInv
      <3>5. \A h \in Handles : /\ stub'[h].up = stub[h].up /\ stub'[h].epoch = stub[h].epoch
                               /\ stub'[h].requests = stub[h].requests
                               /\ stub'[h].replies = stub[h].replies
        BY <1>5, <2>1, AwaitEffect
      <3>6. ASSUME NEW h \in Handles, cell'[h] = "full", stub'[h].home = epoch
            PROVE  Name[h] \in registry
        <4>1. CASE h = Owner[c]
          BY <1>5, <2>1, <3>1, <3>6, <4>1, AwaitEffect DEF HomeInv, Live, Namespace
        <4>2. CASE h # Owner[c]
          BY <1>5, <2>1, <3>3, <3>6, <4>2, AwaitEffect DEF HomeInv
        <4> QED
          BY <4>1, <4>2
      <3>7. \A d \in Calls :
              call'[d].pc \in {"lock", "send", "receive", "reconnect"} => cell'[Owner[d]] = "full"
        BY <3>2, <3>3 DEF HomeInv
      <3>8. \A h \in Handles :
              cell'[h] # "full" => stub'[h].requests = <<>> /\ stub'[h].replies = <<>>
        BY <3>3, <3>5 DEF HomeInv
      <3>9. ASSUME NEW d \in Calls, call'[d].pc = "await", task'[Registration(d)'] = "registered",
                   stub'[Owner[d]].epoch = epoch
            PROVE  Namespace(d) \in registry
        <4>1. d # c /\ call'[d] = call[d]
          BY <3>2, <3>9
        <4>2. Registration(d)' = Registration(d) /\ Registration(d) \in Registrations
          BY <4>1, RegistrationType DEF Registration
        <4>3. task[Registration(d)] = "registered"
          BY <2>0, <3>9, <4>2
        <4> QED
          BY <3>5, <3>9, <4>1, <4>3 DEF HomeInv
      <3>10. epoch' = epoch /\ registry' = registry
        BY <3>1
      <3> QED
        BY <3>4, <3>5, <3>6, <3>7, <3>8, <3>9, <3>10 DEF HomeInv, Live, Namespace
    <2>2. CASE task[Registration(c)] # "registered"
      <3>1. \A d \in Calls \ {c} : \A b \in BOOLEAN :
              /\ <<d, b>> \in Registrations /\ <<d, b>> # Registration(c)
        BY DEF Registrations, Registration
      <3> QED
        BY <1>5, <2>0, <2>2, <3>1, ReturnHome DEF Await, Results
    <2> QED
      BY <2>1, <2>2
  <1>6. CASE Lock(c)
    BY <1>6, GotoEffect DEF Lock, daemon, HomeInv, CallStates, Live, Namespace, Registration
  <1>7. CASE Send(c)
    <2>1. call[c].pc = "send" /\ UNCHANGED <<daemon, cell>>
      BY <1>7 DEF Send
    <2>2. (\A d \in Calls \ {c} : call'[d] = call[d]) /\ call'[c].pc = "receive"
      BY <1>7, GotoEffect DEF Send, CallStates
    <2>3. \A h \in Handles : /\ stub'[h].up = stub[h].up /\ stub'[h].epoch = stub[h].epoch
                             /\ stub'[h].home = stub[h].home
      BY <1>7, SendEffect
    <2>4. \A h \in Handles : cell[h] # "full" => stub'[h] = stub[h]
      BY <1>7, <2>1, SendEffect DEF HomeInv
    <2>5. \A h \in Handles : stub'[h].requests # <<>> => Live(h)'
      BY <1>7, <2>1, <2>3, SendEffect DEF HomeInv, Live, daemon, Send
    <2> QED
      BY <2>1, <2>2, <2>3, <2>4, <2>5 DEF HomeInv, daemon, Live, Namespace, Registration
  <1>8. CASE Receive(c)
    <2>1. call[c].pc = "receive" /\ UNCHANGED daemon
      BY <1>8 DEF Receive
    <2>2. (\A d \in Calls \ {c} : call'[d] = call[d]) /\ call'[c].pc = "done"
      BY <1>8, ReceiveEffect, ReturnEffect
    <2>3. \A h \in Handles : cell'[h] = cell[h]
      BY <1>8, <2>1, ReceiveEffect, ReturnEffect DEF Initializing
    <2>4. \A h \in Handles : /\ stub'[h].up = stub[h].up /\ stub'[h].epoch = stub[h].epoch
                             /\ stub'[h].home = stub[h].home
      BY <1>8, ReceiveEffect
    <2>5. \A h \in Handles : cell[h] # "full" => stub'[h] = stub[h]
      BY <1>8, <2>1, ReceiveEffect DEF HomeInv
    <2>6. \A h \in Handles : stub'[h].requests # <<>> => Live(h)'
      BY <1>8, <2>1, <2>4, ReceiveEffect DEF HomeInv, Live, daemon
    <2> QED
      BY <2>1, <2>2, <2>3, <2>4, <2>5, <2>6 DEF HomeInv, daemon, Live, Namespace, Registration
  <1>9. CASE Dropped(c)
    <2>1. CASE call[c].retried
      BY <1>9, <2>1, ReturnHome DEF Dropped, Results, daemon
    <2>2. CASE ~call[c].retried
      <3>1. PICK pc \in {"connect", "reconnect"} :
              /\ call' = [call EXCEPT ![c].pc = pc, ![c].retried = TRUE]
              /\ pc = "connect" <=> Initializing(c)
        BY <1>9, <2>2 DEF Dropped
      <3>2. /\ call[c].pc \in {"register", "send", "await", "receive"}
            /\ UNCHANGED <<daemon, cell, stub>>
        BY <1>9, <2>2 DEF Dropped
      <3>3. (\A d \in Calls \ {c} : call'[d] = call[d]) /\ call'[c].pc = pc
        BY <3>1, MarkEffect DEF CallStates
      <3>4. pc = "reconnect" => cell[Owner[c]] = "full"
        BY <3>1, <3>2 DEF HomeInv, Initializing
      <3>5. \A d \in Calls :
              call'[d].pc \in {"lock", "send", "receive", "reconnect"} => cell'[Owner[d]] = "full"
        BY <3>2, <3>3, <3>4 DEF HomeInv
      <3>6. \A d \in Calls : call'[d].pc = "await" => call[d].pc = "await" /\ call'[d] = call[d]
        BY <3>3
      <3> QED
        BY <3>2, <3>5, <3>6 DEF HomeInv, daemon, Live, Namespace, Registration
    <2> QED
      BY <2>1, <2>2
  <1>10. CASE Cancel(c)
    BY <1>10, ReturnHome DEF Cancel, Results, daemon
  <1> QED
    BY <1>1, <1>2, <1>3, <1>4, <1>5, <1>6, <1>7, <1>8, <1>9, <1>10 DEF CallStep

LEMMA DaemonHome ==
  ASSUME TypeOK, HomeInv, DaemonStep
  PROVE  HomeInv'
  <1>0. Types
    BY TypeSplit
  <1> USE <1>0, OwnerType
  <1>9. UNCHANGED <<cell, call>> /\ \A d \in Calls : Registration(d)' = Registration(d)
    BY DaemonQuiet DEF Registration
  <1>10. \A d \in Calls : /\ Registration(d) \in Registrations /\ Registration(d)[1] = d
                           /\ Namespace(d)' = Namespace(d)
    BY RegistrationType DEF Registration, Namespace
  <1>1. ASSUME NEW r \in Registrations, BuildStep(r) PROVE HomeInv'
    <2>1. UNCHANGED <<epoch, stub>> /\ registry \subseteq registry'
      BY <1>1, BuildEffect
    <2>2. \A d \in Calls : task'[Registration(d)] = "registered" =>
                             task[Registration(d)] = "registered" \/ Namespace(d) \in registry'
      BY <1>1, <1>10, BuildEffect
    <2> QED
      BY <1>9, <1>10, <2>1, <2>2 DEF HomeInv, Live
  <1>2. ASSUME NEW h \in Handles, Serve(h) PROVE HomeInv'
    <2>1. UNCHANGED <<epoch, registry, task>>
      BY <1>2 DEF Serve
    <2>2. \A j \in Handles : /\ stub'[j].up = stub[j].up /\ stub'[j].epoch = stub[j].epoch
                             /\ stub'[j].home = stub[j].home
      BY <1>2, ServeEffect
    <2>3. \A j \in Handles : cell[j] # "full" => stub'[j] = stub[j]
      BY <1>2, ServeEffect DEF HomeInv
    <2>4. \A j \in Handles : stub'[j].requests # <<>> => stub[j].requests # <<>>
      BY <1>2, ServeEffect
    <2> QED
      BY <1>9, <1>10, <2>1, <2>2, <2>3, <2>4 DEF HomeInv, Live
  <1>3. ASSUME Crash PROVE HomeInv'
    <2>1. /\ \A h \in Handles : stub'[h].epoch < epoch' /\ stub'[h].home < epoch'
          /\ \A h \in Handles : stub'[h].home <= stub'[h].epoch
      BY <1>3, CrashEffect, StubEpochs DEF HomeInv
    <2>2. \A h \in Handles : /\ stub'[h].epoch # epoch' /\ stub'[h].home # epoch'
                             /\ stub'[h].epoch <= epoch'
      BY <1>3, <2>1, CrashEffect, StubEpochs
    <2>4. \A h \in Handles : stub'[h].requests = <<>> /\ stub'[h].replies = stub[h].replies
      BY <1>3, CrashEffect
    <2> QED
      BY <1>9, <2>1, <2>2, <2>4 DEF HomeInv, Live
  <1>4. ASSUME NEW h \in Handles, Break(h) PROVE HomeInv'
    <2>1. UNCHANGED <<epoch, registry>>
      BY <1>4 DEF Break
    <2>2. \A d \in Calls : task'[Registration(d)] = "registered" => task[Registration(d)] = "registered"
      BY <1>4, <1>10 DEF Break
    <2>3. \A j \in Handles : /\ stub'[j].epoch = stub[j].epoch /\ stub'[j].home = stub[j].home
                             /\ stub'[j] = stub[j] \/
                                  (stub'[j].requests = <<>> /\ stub'[j].replies = <<>>)
      BY <1>4, BreakEffect
    <2> QED
      BY <1>9, <1>10, <2>1, <2>2, <2>3 DEF HomeInv, Live
  <1>5. ASSUME NEW c \in Calls, ServeStray(c) PROVE HomeInv'
    BY <1>5, <1>9, <1>10 DEF ServeStray, HomeInv, Live
  <1> QED
    BY <1>1, <1>2, <1>3, <1>4, <1>5 DEF DaemonStep

LEMMA StepHome == TypeOK /\ HomeInv /\ [Next]_vars => HomeInv'
  <1> SUFFICES ASSUME TypeOK, HomeInv, [Next]_vars PROVE HomeInv'
    OBVIOUS
  <1>1. CASE UNCHANGED vars
    BY <1>1 DEF HomeInv, vars, Live, Namespace, Registration
  <1> QED
    BY <1>1, CallHome, DaemonHome DEF Next, DaemonStep

LEMMA HomeHolds == Spec => []HomeInv
  <1>1. Init => HomeInv
    BY OwnerType DEF Init, HomeInv
  <1> QED
    BY <1>1, StepHome, TypeCorrect, PTL DEF Spec

LEMMA StepUnknown ==
  TypeOK /\ HomeInv /\ UnknownMeansRestart /\ [Next]_vars => UnknownMeansRestart'
  <1> SUFFICES ASSUME TypeOK, HomeInv, UnknownMeansRestart, [Next]_vars
               PROVE  UnknownMeansRestart'
    OBVIOUS
  <1>0. Types /\ Turns
    BY TypeSplit
  <1> USE <1>0, OwnerType
  <1>1. ASSUME NEW h \in Handles, stub'[h].replies = <<>>
        PROVE  \A i \in DOMAIN stub'[h].replies :
                 stub'[h].replies[i].what = "unknown" => stub'[h].home < stub'[h].epoch
    BY <1>1
  <1>2. ASSUME \A h \in Handles : /\ stub'[h].home = stub[h].home
                                  /\ stub'[h].epoch = stub[h].epoch
                                  /\ stub'[h].replies = stub[h].replies
        PROVE  UnknownMeansRestart'
    BY <1>2 DEF UnknownMeansRestart
  <1>3. ASSUME NEW c \in Calls, Connect(c) PROVE UnknownMeansRestart'
    BY <1>1, <1>3, ConnectEffect DEF UnknownMeansRestart
  <1>4. ASSUME NEW c \in Calls, Await(c) PROVE UnknownMeansRestart'
    <2>1. CASE task[Registration(c)] = "registered"
      <3>1. cell[Owner[c]] # "full"
        BY <1>4 DEF Await, Turns, Initializing
      <3>2. stub'[Owner[c]].replies = <<>>
        BY <1>4, <2>1, <3>1, AwaitEffect DEF HomeInv
      <3> QED
        BY <1>1, <1>4, <2>1, <3>2, AwaitEffect DEF UnknownMeansRestart
    <2>2. CASE task[Registration(c)] # "registered"
      BY <1>2, <1>4, <2>2 DEF Await
    <2> QED
      BY <2>1, <2>2
  <1>5. ASSUME NEW c \in Calls, Send(c) PROVE UnknownMeansRestart'
    BY <1>2, <1>5, SendEffect
  <1>6. ASSUME NEW c \in Calls, Receive(c) PROVE UnknownMeansRestart'
    <2> DEFINE q == stub[Owner[c]].replies
    <2>1. q \in Seq(Frames) /\ q # <<>>
      BY <1>6, ReceiveEffect DEF Types, Stubs
    <2>2. \A i \in DOMAIN Tail(q) : i + 1 \in DOMAIN q /\ Tail(q)[i] = q[i + 1]
      BY <2>1
    <2>3. \A i \in DOMAIN q : q[i].what = "unknown" => stub[Owner[c]].home < stub[Owner[c]].epoch
      BY DEF UnknownMeansRestart
    <2> HIDE DEF q
    <2>4. \A i \in DOMAIN Tail(q) :
            Tail(q)[i].what = "unknown" => stub[Owner[c]].home < stub[Owner[c]].epoch
      BY <2>2, <2>3
    <2>5. stub'[Owner[c]].replies = Tail(q)
      BY <1>6, ReceiveEffect DEF q
    <2>6. /\ \A h \in Handles \ {Owner[c]} : stub'[h] = stub[h]
          /\ stub'[Owner[c]].epoch = stub[Owner[c]].epoch
          /\ stub'[Owner[c]].home = stub[Owner[c]].home
      BY <1>6, ReceiveEffect
    <2> QED
      BY <2>4, <2>5, <2>6 DEF UnknownMeansRestart
  <1>7. ASSUME NEW h \in Handles, Serve(h) PROVE UnknownMeansRestart'
    <2> DEFINE q == stub[h].replies
    <2>1. PICK r \in Frames : /\ r.what = "unknown" => Name[h] \notin registry
                              /\ stub'[h].replies = Append(q, r)
      <3> HIDE DEF q
      <3>1. \E r \in Frames : /\ r.to = Head(stub[h].requests)
                              /\ r.what = "unknown" => Name[h] \notin registry
                              /\ stub'[h].replies = Append(stub[h].replies, r)
        BY <1>7, ServeEffect
      <3> QED
        BY <3>1 DEF q
    <2>2. q \in Seq(Frames)
      BY DEF Types, Stubs
    <2>3. cell[h] = "full" /\ stub[h].epoch = epoch
      BY <1>7, ServeEffect DEF HomeInv, Live
    <2>4. r.what = "unknown" => stub[h].home < stub[h].epoch
      BY <2>1, <2>3, StubEpochs DEF HomeInv
    <2>5. \A i \in DOMAIN q : q[i].what = "unknown" => stub[h].home < stub[h].epoch
      BY DEF UnknownMeansRestart
    <2> HIDE DEF q
    <2>6. \A i \in DOMAIN Append(q, r) : Append(q, r)[i] = r \/ (i \in DOMAIN q /\ Append(q, r)[i] = q[i])
      BY <2>2
    <2>7. \A i \in DOMAIN Append(q, r) :
            Append(q, r)[i].what = "unknown" => stub[h].home < stub[h].epoch
      BY <2>4, <2>5, <2>6
    <2>8. /\ \A j \in Handles \ {h} : stub'[j] = stub[j]
          /\ stub'[h].epoch = stub[h].epoch
          /\ stub'[h].home = stub[h].home
      BY <1>7, ServeEffect
    <2> QED
      BY <2>1, <2>7, <2>8 DEF UnknownMeansRestart
  <1>8. ASSUME Crash PROVE UnknownMeansRestart'
    BY <1>2, <1>8, CrashEffect
  <1>11. ASSUME NEW h \in Handles, Break(h) PROVE UnknownMeansRestart'
    BY <1>1, <1>11, BreakEffect DEF UnknownMeansRestart
  <1>9. ASSUME UNCHANGED stub PROVE UnknownMeansRestart'
    BY <1>2, <1>9
  <1>10. ASSUME NEW c \in Calls, CallStep(c) \/ Cancel(c) \/ ServeStray(c)
         PROVE  UnknownMeansRestart'
    BY <1>3, <1>4, <1>5, <1>6, <1>9, <1>10 DEF CallStep, Enter, ConnectFail, Register, Lock,
       Dropped, Cancel, ServeStray
  <1>12. ASSUME NEW r \in Registrations, BuildStep(r) PROVE UnknownMeansRestart'
    BY <1>9, <1>12, BuildEffect
  <1> QED
    BY <1>7, <1>8, <1>9, <1>10, <1>11, <1>12 DEF Next, vars

\* A handle registered with the daemon it talks to never reads that its
\* namespace is unknown: the daemon forgets a namespace only by ending, and a
\* connection is not used before its registration (connect of python.rs,
\* DaemonState::resolve).
THEOREM UnknownMeansRestartCorrect == Spec => []UnknownMeansRestart
  <1>1. Init => UnknownMeansRestart
    BY DEF Init, UnknownMeansRestart
  <1> QED
    BY <1>1, StepUnknown, HomeHolds, TypeCorrect, PTL DEF Spec

-----------------------------------------------------------------------------
(* What a retry repeats *)

\* The times this daemon has carried out a call's request, or still may with
\* what it has of it.
Load(c) == served[c] + stray[c] + (IF c \in Carried(Owner[c]) THEN 1 ELSE 0)

Repeats(c) == c \in severed /\ call[c].retried

\* What the load may be: one for a request that was sent, and one more for a
\* first request whose connection broke.
Quota(c) ==
  IF call[c].pc \in {"receive", "done"} THEN IF Repeats(c) THEN 2 ELSE 1
  ELSE IF call[c].pc \in {"send", "reconnect"} /\ Repeats(c) THEN 1 ELSE 0

\* A request is in the connection once, and only after its call's send; the
\* load of a call is within its quota, and a call that waits on a dead
\* connection either saw it break or has left nothing with this daemon.
ServeInv ==
  /\ \A h \in Handles : \A i \in DOMAIN stub[h].requests :
       LET c == stub[h].requests[i] IN Owner[c] = h /\ call[c].pc \in {"receive", "done"}
  /\ \A h \in Handles : \A i, j \in DOMAIN stub[h].requests :
       stub[h].requests[i] = stub[h].requests[j] => i = j
  /\ \A c \in Calls : Load(c) <= Quota(c)
  /\ \A c \in Calls : call[c].pc = "receive" /\ ~Live(Owner[c]) => c \in severed \/ Load(c) = 0

LEMMA LoadType ==
  ASSUME Types, NEW c \in Calls
  PROVE  Load(c) \in Nat /\ Quota(c) \in 0..2
  BY DEF Types, Load, Quota

\* A step that moves no request, and no call but one: it returns, or moves
\* short of its request.
LEMMA QuietServe ==
  ASSUME Types, ServeInv, NEW c \in Calls, UNCHANGED <<epoch, stray, served, severed>>,
         \A h \in Handles : /\ stub'[h].up = stub[h].up /\ stub'[h].epoch = stub[h].epoch
                            /\ stub'[h].requests = stub[h].requests,
         \A d \in Calls \ {c} : call'[d] = call[d],
         \/ call'[c].pc = "done" /\ call'[c].retried = call[c].retried
         \/ /\ call[c].pc \notin {"receive", "done"} /\ call'[c].pc \notin {"receive", "done"}
            /\ Quota(c) = 0 \/ Quota(c) <= Quota(c)'
  PROVE  ServeInv'
  <1> USE OwnerType
  <1>1. \A d \in Calls : call[d].pc \in {"receive", "done"} => call'[d].pc \in {"receive", "done"}
    OBVIOUS
  <1>2. \A h \in Handles : stub'[h].requests = stub[h].requests /\ (Live(h)' <=> Live(h))
    BY DEF Live
  <1>3. \A h \in Handles : \A i \in DOMAIN stub[h].requests : stub[h].requests[i] \in Calls
    BY DEF Types, Stubs
  <1>4. \A h \in Handles : \A i \in DOMAIN stub'[h].requests :
          LET d == stub'[h].requests[i] IN Owner[d] = h /\ call'[d].pc \in {"receive", "done"}
    BY <1>1, <1>2, <1>3 DEF ServeInv
  <1>5. \A d \in Calls : Load(d)' = Load(d)
    BY <1>2 DEF Load, Carried
  <1>6. \A d \in Calls : Quota(d) <= Quota(d)' \/ Quota(d) = 0
    <2>1. \A d \in Calls \ {c} : Quota(d)' = Quota(d)
      BY DEF Quota, Repeats
    <2>2. call'[c].pc = "done" /\ call'[c].retried = call[c].retried => Quota(c) <= Quota(c)'
      BY DEF Quota, Repeats
    <2> QED
      BY <2>1, <2>2, LoadType
  <1>7. \A d \in Calls : Load(d) \in Nat /\ Quota(d) \in Nat /\ Quota(d)' \in Nat
    BY LoadType DEF Quota
  <1>8. \A d \in Calls : Load(d)' <= Quota(d)'
    BY <1>5, <1>6, <1>7 DEF ServeInv
  <1>9. \A d \in Calls : call'[d].pc = "receive" /\ ~Live(Owner[d])' => d \in severed' \/ Load(d)' = 0
    BY <1>2, <1>5 DEF ServeInv
  <1> QED
    BY <1>2, <1>4, <1>8, <1>9 DEF ServeInv

LEMMA CallServe ==
  ASSUME TypeOK, HomeInv, ServeInv, NEW c \in Calls, CallStep(c) \/ Cancel(c)
  PROVE  ServeInv'
  <1>0. Types /\ Turns
    BY TypeSplit
  <1> USE <1>0, OwnerType
  <1>1. CASE Enter(c) \/ Register(c) \/ Lock(c)
    <2>1. PICK pc \in CallStates : Goto(c, pc) /\ pc \notin {"receive", "done"}
      BY <1>1 DEF Enter, Register, Lock, CallStates
    <2>2. /\ UNCHANGED <<epoch, stray, served, severed, stub>>
          /\ call[c].pc \notin {"send", "receive", "reconnect", "done"}
      BY <1>1 DEF Enter, Register, Lock, daemon
    <2>3. Quota(c) = 0
      BY <2>2 DEF Quota
    <2> QED
      BY <2>1, <2>2, <2>3, GotoEffect, QuietServe
  <1>2. CASE Connect(c)
    <2>1. PICK pc \in {"register", "send"} :
            Goto(c, pc) /\ (pc = "register" <=> call[c].pc = "connect")
      BY <1>2 DEF Connect
    <2>2. /\ call[c].pc \in {"connect", "reconnect"}
          /\ UNCHANGED <<epoch, stray, served, severed>>
      BY <1>2 DEF Connect, daemon
    <2>3. /\ \A d \in Calls \ {c} : call'[d] = call[d]
          /\ call'[c].pc = pc /\ call'[c].retried = call[c].retried
      BY <2>1, GotoEffect DEF CallStates
    <2>4. \A h \in Handles \ {Owner[c]} : stub'[h] = stub[h]
      BY <1>2, ConnectEffect
    <2>5. stub'[Owner[c]].requests = <<>> /\ Live(Owner[c])'
      BY <1>2, <2>2, ConnectEffect DEF Live
    <2>6. \A h \in Handles \ {Owner[c]} : Live(h)' <=> Live(h)
      BY <2>2, <2>4 DEF Live
    <2>7. \A h \in Handles : \A i \in DOMAIN stub[h].requests : stub[h].requests[i] \in Calls
      BY DEF Types, Stubs
    <2>8. \A h \in Handles : \A i \in DOMAIN stub'[h].requests :
            LET d == stub'[h].requests[i] IN Owner[d] = h /\ call'[d].pc \in {"receive", "done"}
      BY <2>2, <2>3, <2>4, <2>5, <2>7 DEF ServeInv
    <2>9. \A h \in Handles : \A i, j \in DOMAIN stub'[h].requests :
            stub'[h].requests[i] = stub'[h].requests[j] => i = j
      BY <2>4, <2>5 DEF ServeInv
    <2>10. \A d \in Calls : Load(d)' <= Load(d) /\ (Owner[d] # Owner[c] => Load(d)' = Load(d))
                            /\ Load(d)' \in Nat
      <3>1. Carried(Owner[c])' = {}
        BY <2>5 DEF Carried
      <3>2. \A h \in Handles \ {Owner[c]} : Carried(h)' = Carried(h)
        BY <2>4 DEF Carried
      <3> QED
        BY <2>2, <3>1, <3>2 DEF Load, Types
    <2>11. \A d \in Calls : Quota(d)' = Quota(d)
      BY <2>1, <2>2, <2>3 DEF Quota, Repeats
    <2>12. \A d \in Calls : Load(d)' <= Quota(d)'
      BY <2>10, <2>11, LoadType DEF ServeInv
    <2>13. \A d \in Calls :
             call'[d].pc = "receive" /\ ~Live(Owner[d])' => d \in severed' \/ Load(d)' = 0
      BY <2>1, <2>2, <2>3, <2>5, <2>6, <2>10 DEF ServeInv
    <2> QED
      BY <2>8, <2>9, <2>12, <2>13 DEF ServeInv
  <1>3. ASSUME NEW r \in Results, Return(c, r, None),
               UNCHANGED <<epoch, stray, served, severed, stub>>
        PROVE  ServeInv'
    BY <1>3, ReturnEffect, QuietServe
  <1>4. CASE ConnectFail(c) \/ Cancel(c)
    BY <1>3, <1>4 DEF ConnectFail, Cancel, Results, daemon
  <1>5. CASE Await(c)
    <2>1. CASE task[Registration(c)] = "registered"
      <3>1. /\ call' = [call EXCEPT ![c].pc = "lock", ![c].retried = FALSE]
            /\ call[c].pc = "await" /\ UNCHANGED <<epoch, stray, served, severed>>
        BY <1>5, <2>1 DEF Await
      <3>2. \A h \in Handles : /\ stub'[h].up = stub[h].up /\ stub'[h].epoch = stub[h].epoch
                               /\ stub'[h].requests = stub[h].requests
        BY <1>5, <2>1, AwaitEffect
      <3>3. Quota(c) = 0
        BY <3>1 DEF Quota
      <3> QED
        BY <3>1, <3>2, <3>3, MarkEffect, QuietServe DEF CallStates
    <2>2. CASE task[Registration(c)] # "registered"
      BY <1>3, <1>5, <2>2 DEF Await, Results
    <2> QED
      BY <2>1, <2>2
  <1>6. CASE Send(c)
    <2> DEFINE o == Owner[c]
               q == stub[o].requests
    <2>1. call[c].pc = "send" /\ Live(o) /\ UNCHANGED <<epoch, stray, served, severed>>
      BY <1>6 DEF Send, daemon
    <2>2. /\ \A d \in Calls \ {c} : call'[d] = call[d]
          /\ call'[c].pc = "receive" /\ call'[c].retried = call[c].retried
      BY <1>6, GotoEffect DEF Send, CallStates
    <2>3. /\ \A h \in Handles \ {o} : stub'[h] = stub[h]
          /\ stub'[o].up = stub[o].up /\ stub'[o].epoch = stub[o].epoch
          /\ stub'[o].requests = Append(q, c)
      BY <1>6, SendEffect
    <2>4. q \in Seq(Calls)
      BY DEF Types, Stubs
    <2>5. \A i \in DOMAIN q : q[i] # c
      BY <2>1 DEF ServeInv
    <2>6. \A h \in Handles : Live(h)' <=> Live(h)
      BY <2>1, <2>3 DEF Live
    <2>7. \A i \in DOMAIN q : q[i] \in Calls /\ Owner[q[i]] = o
                              /\ call[q[i]].pc \in {"receive", "done"}
      BY <2>4 DEF ServeInv
    <2>8. \A i, j \in DOMAIN q : q[i] = q[j] => i = j
      BY DEF ServeInv
    <2>c. Carried(o) = {q[i] : i \in DOMAIN q}
      BY DEF Carried
    <2> HIDE DEF q
    <2>9. \A i \in DOMAIN Append(q, c) : (i \in DOMAIN q /\ Append(q, c)[i] = q[i])
                                         \/ (i = Len(q) + 1 /\ Append(q, c)[i] = c)
      BY <2>4
    <2>10. \A i, j \in DOMAIN Append(q, c) : Append(q, c)[i] = Append(q, c)[j] => i = j
      BY <2>5, <2>8, <2>9
    <2>11. \A i \in DOMAIN Append(q, c) :
             LET d == Append(q, c)[i] IN Owner[d] = o /\ call'[d].pc \in {"receive", "done"}
      BY <2>2, <2>7, <2>9
    <2>12. \A h \in Handles \ {o} : \A i \in DOMAIN stub[h].requests :
             LET d == stub[h].requests[i] IN Owner[d] = h /\ call'[d].pc \in {"receive", "done"}
      <3>1. \A h \in Handles : \A i \in DOMAIN stub[h].requests : stub[h].requests[i] \in Calls
        BY DEF Types, Stubs
      <3> QED
        BY <2>2, <3>1 DEF ServeInv
    <2>13. \A h \in Handles : \A i \in DOMAIN stub'[h].requests :
             LET d == stub'[h].requests[i] IN Owner[d] = h /\ call'[d].pc \in {"receive", "done"}
      BY <2>3, <2>11, <2>12
    <2>14. \A h \in Handles : \A i, j \in DOMAIN stub'[h].requests :
             stub'[h].requests[i] = stub'[h].requests[j] => i = j
      BY <2>3, <2>10 DEF ServeInv
    <2>15. c \notin Carried(o) /\ Carried(o)' = Carried(o) \cup {c}
      <3>1. Carried(o)' = {Append(q, c)[i] : i \in DOMAIN Append(q, c)}
        BY <2>3 DEF Carried
      <3>2. /\ Len(q) + 1 \in DOMAIN Append(q, c) /\ Append(q, c)[Len(q) + 1] = c
            /\ \A i \in DOMAIN q : i \in DOMAIN Append(q, c) /\ Append(q, c)[i] = q[i]
        BY <2>4
      <3> QED
        BY <2>5, <2>9, <2>c, <3>1, <3>2
    <2>16. \A h \in Handles \ {o} : Carried(h)' = Carried(h)
      BY <2>3 DEF Carried
    <2>17. \A d \in Calls : Load(d)' = IF d = c THEN Load(d) + 1 ELSE Load(d)
      BY <2>1, <2>15, <2>16 DEF Load, Types
    <2>18. \A d \in Calls : Quota(d)' = IF d = c THEN Quota(d) + 1 ELSE Quota(d)
      BY <2>1, <2>2 DEF Quota, Repeats
    <2>19. \A d \in Calls : Load(d)' <= Quota(d)'
      BY <2>17, <2>18, LoadType DEF ServeInv
    <2>20. \A d \in Calls :
             call'[d].pc = "receive" /\ ~Live(Owner[d])' => d \in severed' \/ Load(d)' = 0
      BY <2>1, <2>2, <2>6, <2>17 DEF ServeInv
    <2> QED
      BY <2>13, <2>14, <2>19, <2>20 DEF ServeInv
  <1>7. CASE Receive(c)
    <2>1. UNCHANGED <<epoch, stray, served, severed>>
      BY <1>7 DEF Receive, daemon
    <2>2. \A h \in Handles : /\ stub'[h].up = stub[h].up /\ stub'[h].epoch = stub[h].epoch
                             /\ stub'[h].requests = stub[h].requests
      BY <1>7, ReceiveEffect
    <2>3. /\ \A d \in Calls \ {c} : call'[d] = call[d]
          /\ call'[c].pc = "done" /\ call'[c].retried = call[c].retried
      BY <1>7, ReceiveEffect, ReturnEffect
    <2> QED
      BY <2>1, <2>2, <2>3, QuietServe
  <1>8. CASE Dropped(c)
    <2>1. CASE call[c].retried
      BY <1>3, <1>8, <2>1 DEF Dropped, Results, daemon
    <2>2. CASE ~call[c].retried
      <3>1. PICK pc \in {"connect", "reconnect"} :
              call' = [call EXCEPT ![c].pc = pc, ![c].retried = TRUE]
        BY <1>8, <2>2 DEF Dropped
      <3>2. /\ \A d \in Calls \ {c} : call'[d] = call[d]
            /\ call'[c].pc = pc /\ call'[c].retried
        BY <3>1, MarkEffect DEF CallStates
      <3>3. UNCHANGED <<epoch, stray, served, severed, stub>>
        BY <1>8, <2>2 DEF Dropped, daemon
      <3>4. CASE call[c].pc = "receive"
        <4>1. ~Live(Owner[c]) /\ pc = "reconnect"
          BY <1>8, <2>2, <3>1, <3>2, <3>4, MarkEffect DEF Dropped, Initializing, CallStates
        <4>2. stub[Owner[c]].requests = <<>>
          BY <4>1 DEF HomeInv
        <4>3. \A h \in Handles : \A i \in DOMAIN stub[h].requests :
                stub[h].requests[i] \in Calls \ {c}
          BY <4>2 DEF ServeInv, Types, Stubs
        <4>4. \A h \in Handles : \A i \in DOMAIN stub[h].requests :
                LET d == stub[h].requests[i] IN
                  Owner[d] = h /\ call'[d].pc \in {"receive", "done"}
          BY <3>2, <4>3 DEF ServeInv
        <4>5. \A d \in Calls : Load(d)' = Load(d)
          BY <3>3 DEF Load, Carried
        <4>6. \A d \in Calls \ {c} : Quota(d)' = Quota(d)
          BY <3>2, <3>3 DEF Quota, Repeats
        <4>7. Load(c) <= 1 /\ (c \in severed \/ Load(c) = 0)
          BY <2>2, <3>4, <4>1 DEF ServeInv, Quota, Repeats
        <4>8. Load(c) <= Quota(c)'
          BY <3>2, <3>3, <4>1, <4>7, LoadType DEF Quota, Repeats
        <4>9. \A d \in Calls : Load(d)' <= Quota(d)'
          BY <4>5, <4>6, <4>8 DEF ServeInv
        <4>10. \A d \in Calls :
                 call'[d].pc = "receive" /\ ~Live(Owner[d])' => d \in severed' \/ Load(d)' = 0
          BY <3>2, <3>3, <4>1, <4>5 DEF ServeInv, Live
        <4> QED
          BY <3>3, <4>4, <4>9, <4>10 DEF ServeInv
      <3>5. CASE call[c].pc # "receive"
        <4>1. call[c].pc \notin {"receive", "done"} /\ Quota(c) = 0
          BY <1>8, <2>2, <3>5 DEF Dropped, Quota, Repeats
        <4> QED
          BY <3>2, <3>3, <4>1, QuietServe
      <3> QED
        BY <3>4, <3>5
    <2> QED
      BY <2>1, <2>2
  <1> QED
    BY <1>1, <1>2, <1>4, <1>5, <1>6, <1>7, <1>8 DEF CallStep

LEMMA DaemonServe ==
  ASSUME TypeOK, HomeInv, ServeInv, DaemonStep
  PROVE  ServeInv'
  <1>0. Types
    BY TypeSplit
  <1> USE <1>0, OwnerType
  <1>1. UNCHANGED call
    BY DaemonQuiet
  <1>2. ASSUME NEW r \in Registrations, BuildStep(r) PROVE ServeInv'
    <2>1. UNCHANGED <<epoch, stray, served, severed, stub>>
      BY <1>2, BuildEffect
    <2> QED
      BY <1>1, <2>1 DEF ServeInv, Load, Carried, Quota, Repeats, Live
  <1>3. ASSUME NEW h \in Handles, Serve(h) PROVE ServeInv'
    <2> DEFINE q == stub[h].requests
    <2>1. UNCHANGED <<epoch, stray, severed>>
      BY <1>3 DEF Serve
    <2>2. /\ \A j \in Handles \ {h} : stub'[j] = stub[j]
          /\ stub'[h].up = stub[h].up /\ stub'[h].epoch = stub[h].epoch
          /\ stub'[h].requests = Tail(q)
          /\ q # <<>>
      BY <1>3, ServeEffect
    <2>3. \A c \in Calls : served'[c] = IF c = Head(q) THEN served[c] + 1 ELSE served[c]
      BY <1>3, ServeEffect
    <2>4. q \in Seq(Calls)
      BY DEF Types, Stubs
    <2>5. \A i \in DOMAIN q : q[i] \in Calls /\ Owner[q[i]] = h
                              /\ call[q[i]].pc \in {"receive", "done"}
      BY <2>4 DEF ServeInv
    <2>6. \A i, j \in DOMAIN q : q[i] = q[j] => i = j
      BY DEF ServeInv
    <2>c. Carried(h) = {q[i] : i \in DOMAIN q}
      BY DEF Carried
    <2> HIDE DEF q
    <2>7. 1 \in DOMAIN q /\ Head(q) = q[1]
      BY <2>2, <2>4
    <2>8. \A i \in DOMAIN Tail(q) : i + 1 \in DOMAIN q /\ i + 1 # 1 /\ Tail(q)[i] = q[i + 1]
      BY <2>2, <2>4
    <2>9. \A i, j \in DOMAIN Tail(q) : i \in Int /\ j \in Int
      BY <2>2, <2>4
    <2>10. \A i, j \in DOMAIN Tail(q) : Tail(q)[i] = Tail(q)[j] => i = j
      BY <2>6, <2>8, <2>9
    <2>11. \A j \in Handles : \A i \in DOMAIN stub'[j].requests :
             LET d == stub'[j].requests[i] IN Owner[d] = j /\ call'[d].pc \in {"receive", "done"}
      BY <1>1, <2>2, <2>5, <2>8 DEF ServeInv
    <2>12. \A j \in Handles : \A i, k \in DOMAIN stub'[j].requests :
             stub'[j].requests[i] = stub'[j].requests[k] => i = k
      BY <2>2, <2>10 DEF ServeInv
    <2>13. Carried(h)' = Carried(h) \ {Head(q)} /\ Head(q) \in Carried(h)
      <3>1. Carried(h)' = {Tail(q)[i] : i \in DOMAIN Tail(q)}
        BY <2>2 DEF Carried
      <3>2. \A i \in DOMAIN q : i # 1 => i - 1 \in DOMAIN Tail(q) /\ Tail(q)[i - 1] = q[i]
        BY <2>2, <2>4
      <3>3. \A i \in DOMAIN Tail(q) : Tail(q)[i] \in Carried(h) \ {Head(q)}
        BY <2>6, <2>7, <2>8, <2>c
      <3>4. \A i \in DOMAIN q : q[i] # Head(q) => q[i] \in {Tail(q)[k] : k \in DOMAIN Tail(q)}
        BY <2>7, <3>2
      <3> QED
        BY <2>7, <2>c, <3>1, <3>3, <3>4
    <2>14. \A j \in Handles \ {h} : Carried(j)' = Carried(j)
      BY <2>2 DEF Carried
    <2>15. Head(q) \in Calls /\ Owner[Head(q)] = h
      BY <2>5, <2>7
    <2>16. \A d \in Calls : Load(d)' = Load(d)
      BY <2>1, <2>3, <2>13, <2>14, <2>15 DEF Load, Types
    <2>17. \A d \in Calls : Quota(d)' = Quota(d)
      BY <1>1, <2>1 DEF Quota, Repeats
    <2>18. \A j \in Handles : Live(j)' <=> Live(j)
      BY <2>1, <2>2 DEF Live
    <2> QED
      BY <1>1, <2>1, <2>11, <2>12, <2>16, <2>17, <2>18 DEF ServeInv
  <1>4. ASSUME Crash PROVE ServeInv'
    <2>1. \A h \in Handles : stub'[h].requests = <<>>
      BY <1>4, CrashEffect
    <2>2. \A c \in Calls : Load(c)' = 0
      BY <1>4, <2>1 DEF Crash, Load, Carried
    <2>3. \A c \in Calls : Quota(c)' \in Nat
      BY DEF Quota
    <2> QED
      BY <2>1, <2>2, <2>3 DEF ServeInv
  <1>5. ASSUME NEW h \in Handles, Break(h) PROVE ServeInv'
    <2>1. /\ \A j \in Handles \ {h} : stub'[j] = stub[j]
          /\ stub'[h].requests = <<>>
      BY <1>5, BreakEffect
    <2>2. /\ UNCHANGED <<epoch, served>>
          /\ severed' = severed \cup {c \in Calls : Owner[c] = h /\ call[c].pc = "receive"}
          /\ \A c \in Calls : stray'[c] = stray[c] + (IF c \in Carried(h) THEN 1 ELSE 0)
      BY <1>5 DEF Break
    <2>3. \A c \in Carried(h) : Owner[c] = h
      BY DEF Carried, ServeInv
    <2>4. Carried(h)' = {} /\ \A j \in Handles \ {h} : Carried(j)' = Carried(j)
      BY <2>1 DEF Carried
    <2>5. \A c \in Calls : Load(c)' = Load(c)
      BY <2>2, <2>3, <2>4 DEF Load, Types
    <2>6. \A c \in Calls : Quota(c) <= Quota(c)' /\ Quota(c)' \in Nat
      BY <1>1, <2>2 DEF Quota, Repeats
    <2>7. \A c \in Calls : Load(c)' <= Quota(c)'
      BY <2>5, <2>6, LoadType DEF ServeInv
    <2>8. \A c \in Calls :
            call'[c].pc = "receive" /\ ~Live(Owner[c])' => c \in severed' \/ Load(c)' = 0
      <3>1. \A j \in Handles \ {h} : Live(j)' <=> Live(j)
        BY <2>1, <2>2 DEF Live
      <3> QED
        BY <1>1, <2>2, <2>5, <3>1 DEF ServeInv
    <2> QED
      BY <1>1, <2>1, <2>7, <2>8 DEF ServeInv
  <1>6. ASSUME NEW c \in Calls, ServeStray(c) PROVE ServeInv'
    <2>1. /\ UNCHANGED <<epoch, severed, stub>>
          /\ \A d \in Calls : served'[d] + stray'[d] = served[d] + stray[d]
      BY <1>6 DEF ServeStray, Types
    <2>2. \A d \in Calls : Load(d)' = Load(d)
      <3>1. \A h \in Handles : Carried(h)' = Carried(h)
        BY <2>1 DEF Carried
      <3> QED
        BY <2>1, <3>1 DEF Load
    <2> QED
      BY <1>1, <2>1, <2>2 DEF ServeInv, Quota, Repeats, Live
  <1> QED
    BY <1>2, <1>3, <1>4, <1>5, <1>6 DEF DaemonStep

LEMMA StepServe == TypeOK /\ HomeInv /\ ServeInv /\ [Next]_vars => ServeInv'
  <1> SUFFICES ASSUME TypeOK, HomeInv, ServeInv, [Next]_vars PROVE ServeInv'
    OBVIOUS
  <1>1. CASE UNCHANGED vars
    BY <1>1 DEF ServeInv, Load, Carried, Quota, Repeats, vars, Live
  <1> QED
    BY <1>1, CallServe, DaemonServe DEF Next, DaemonStep

LEMMA ServeHolds == Spec => []ServeInv
  <1>1. Init => ServeInv
    BY OwnerType DEF Init, ServeInv, Load, Carried, Quota
  <1> QED
    BY <1>1, StepServe, HomeHolds, TypeCorrect, PTL DEF Spec

\* A daemon carries out a request twice only if the connection broke under it
\* as the call waited for the response and the client has repeated it, and
\* never a third time: the retry is one, and whatever else goes wrong repeats
\* nothing that reached this daemon (ClientStub::request, message_loop).
THEOREM ServedOnceCorrect == Spec => []ServedOnce
  <1>1. ASSUME TypeOK, ServeInv PROVE ServedOnce
    <2> SUFFICES ASSUME NEW c \in Calls
                 PROVE  served[c] <= IF Repeats(c) THEN 2 ELSE 1
      BY DEF ServedOnce, Repeats
    <2>1. served[c] <= Load(c) /\ served[c] \in Nat /\ Load(c) \in Nat
      BY <1>1, TypeSplit DEF Load, Types
    <2>2. Quota(c) <= IF Repeats(c) THEN 2 ELSE 1
      BY DEF Quota
    <2> QED
      BY <1>1, <2>1, <2>2 DEF ServeInv, Quota
  <1> QED
    BY <1>1, ServeHolds, TypeCorrect, PTL

-----------------------------------------------------------------------------
(* Answers to the right call *)

Uncancelled(h) == \A d \in Calls : Owner[d] = h => call[d].result # "cancelled"

\* At most one frame is under way, in either direction, and the call it
\* belongs to waits for it.
FramesOK(h) ==
  /\ Len(stub[h].requests) + Len(stub[h].replies) <= 1
  /\ \A i \in DOMAIN stub[h].requests :
       LET c == stub[h].requests[i] IN Owner[c] = h /\ call[c].pc = "receive"
  /\ \A i \in DOMAIN stub[h].replies :
       LET c == stub[h].replies[i].to IN Owner[c] = h /\ call[c].pc = "receive"

FrameInv ==
  /\ \A c \in Calls : call[c].pc # "done" => call[c].from = None /\ call[c].result # "cancelled"
  /\ \A h \in Handles : Uncancelled(h) => FramesOK(h)
  /\ OwnAnswerUncancelled

LEMMA StubSeqs ==
  ASSUME Types, NEW h \in Handles
  PROVE  /\ stub[h].requests \in Seq(Calls) /\ stub[h].replies \in Seq(Frames)
         /\ \A i \in DOMAIN stub[h].requests : stub[h].requests[i] \in Calls
         /\ \A i \in DOMAIN stub[h].replies : stub[h].replies[i].to \in Calls
  <1>1. stub[h].requests \in Seq(Calls) /\ stub[h].replies \in Seq(Frames)
    BY DEF Types, Stubs
  <1>2. \A i \in DOMAIN stub[h].replies : stub[h].replies[i] \in Frames
    BY <1>1
  <1> QED
    BY <1>1, <1>2 DEF Frames

LEMMA OneFrame == \A m, n \in Nat : (m + n <= 1 \/ n + m <= 1) /\ m # 0 => m = 1 /\ n = 0
  OBVIOUS

\* A step of one call at one connection leaves the other handles' frames.
LEMMA OtherFrames ==
  ASSUME Types, FrameInv, NEW c \in Calls, call[c].pc # "done",
         \A d \in Calls \ {c} : call'[d] = call[d],
         \A h \in Handles \ {Owner[c]} : stub'[h] = stub[h],
         call'[c].pc # "done" => call'[c].from = None /\ call'[c].result # "cancelled",
         Uncancelled(Owner[c]) /\ call'[c].result # "cancelled" =>
           FramesOK(Owner[c])' /\ call'[c].from \in {None, c}
  PROVE  FrameInv'
  <1> USE OwnerType
  <1>1. \A h \in Handles : Uncancelled(h)' => Uncancelled(h)
    BY DEF FrameInv, Uncancelled
  <1>2. Uncancelled(Owner[c])' => call'[c].result # "cancelled"
    BY DEF Uncancelled
  <1>3. ASSUME NEW h \in Handles \ {Owner[c]}, FramesOK(h) PROVE FramesOK(h)'
    <2>1. \A i \in DOMAIN stub[h].requests : stub[h].requests[i] \in Calls \ {c}
      BY <1>3, StubSeqs DEF FramesOK
    <2>2. \A i \in DOMAIN stub[h].replies : stub[h].replies[i].to \in Calls \ {c}
      BY <1>3, StubSeqs DEF FramesOK
    <2>3. stub'[h] = stub[h]
      BY <1>3
    <2>4. \A i \in DOMAIN stub[h].requests :
            LET d == stub[h].requests[i] IN Owner[d] = h /\ call'[d].pc = "receive"
      BY <1>3, <2>1 DEF FramesOK
    <2>5. \A i \in DOMAIN stub[h].replies :
            LET d == stub[h].replies[i].to IN Owner[d] = h /\ call'[d].pc = "receive"
      BY <1>3, <2>2 DEF FramesOK
    <2>6. Len(stub[h].requests) + Len(stub[h].replies) <= 1
      BY <1>3 DEF FramesOK
    <2> QED
      BY <2>3, <2>4, <2>5, <2>6 DEF FramesOK
  <1>4. \A h \in Handles : Uncancelled(h)' => FramesOK(h)'
    BY <1>1, <1>2, <1>3 DEF FrameInv
  <1>5. \A d \in Calls : Uncancelled(Owner[d])' => call'[d].from \in {None, d}
    <2>1. \A d \in Calls : Uncancelled(Owner[d]) => call[d].from \in {None, d}
      BY DEF FrameInv, OwnAnswerUncancelled, Uncancelled
    <2> QED
      BY <1>1, <1>2, <2>1
  <1>6. OwnAnswerUncancelled'
    BY <1>5 DEF OwnAnswerUncancelled, Uncancelled
  <1>7. \A d \in Calls : call'[d].pc # "done" => call'[d].from = None /\ call'[d].result # "cancelled"
    BY DEF FrameInv
  <1> QED
    BY <1>4, <1>6, <1>7 DEF FrameInv

\* A call that is not receiving has no frame under way.
LEMMA IdleFrames ==
  ASSUME Types, NEW c \in Calls, call[c].pc # "receive", FramesOK(Owner[c]),
         \A d \in Calls \ {c} : call'[d] = call[d],
         stub'[Owner[c]].requests = stub[Owner[c]].requests,
         stub'[Owner[c]].replies = stub[Owner[c]].replies
  PROVE  FramesOK(Owner[c])'
  <1> USE OwnerType
  <1>1. \A i \in DOMAIN stub[Owner[c]].requests : stub[Owner[c]].requests[i] \in Calls \ {c}
    BY StubSeqs DEF FramesOK
  <1>2. \A i \in DOMAIN stub[Owner[c]].replies : stub[Owner[c]].replies[i].to \in Calls \ {c}
    BY StubSeqs DEF FramesOK
  <1> QED
    BY <1>1, <1>2 DEF FramesOK

LEMMA QuietFrames ==
  ASSUME NEW h \in Handles, stub'[h].requests = <<>>, stub'[h].replies = <<>>
  PROVE  FramesOK(h)'
  BY DEF FramesOK

LEMMA CallFrames ==
  ASSUME TypeOK, HomeInv, FrameInv, NEW c \in Calls, CallStep(c) \/ Cancel(c)
  PROVE  FrameInv'
  <1>0. Types /\ Turns
    BY TypeSplit
  <1> USE <1>0, OwnerType
  <1>1. ASSUME call[c].pc \notin {"receive", "done"}, UNCHANGED stub,
               \A d \in Calls \ {c} : call'[d] = call[d],
               call'[c].from = None, call'[c].pc # "done" => call'[c].result = call[c].result
        PROVE  FrameInv'
    <2>1. Uncancelled(Owner[c]) => FramesOK(Owner[c])'
      BY <1>1, IdleFrames DEF FrameInv
    <2> QED
      BY <1>1, <2>1, OtherFrames DEF FrameInv
  <1>2. CASE Enter(c) \/ Register(c) \/ Lock(c)
    <2>1. PICK pc \in CallStates : Goto(c, pc)
      BY <1>2 DEF Enter, Register, Lock, CallStates
    <2>2. UNCHANGED stub /\ call[c].pc \notin {"receive", "done"}
      BY <1>2 DEF Enter, Register, Lock
    <2> QED
      BY <1>1, <2>1, <2>2, GotoEffect DEF FrameInv
  <1>3. CASE Connect(c)
    <2>1. PICK pc \in CallStates : Goto(c, pc)
      BY <1>3 DEF Connect, CallStates
    <2>2. call[c].pc \notin {"receive", "done"}
      BY <1>3 DEF Connect
    <2>3. FramesOK(Owner[c])' /\ \A h \in Handles \ {Owner[c]} : stub'[h] = stub[h]
      BY <1>3, ConnectEffect, QuietFrames
    <2> QED
      BY <2>1, <2>2, <2>3, GotoEffect, OtherFrames DEF FrameInv
  <1>4. ASSUME NEW r \in Results, Return(c, r, None), UNCHANGED stub,
               call[c].pc \notin {"receive", "done"}
        PROVE  FrameInv'
    BY <1>1, <1>4, ReturnEffect
  <1>5. CASE ConnectFail(c)
    BY <1>4, <1>5 DEF ConnectFail, Results
  <1>6. CASE Await(c)
    <2>1. CASE task[Registration(c)] = "registered"
      <3>1. call' = [call EXCEPT ![c].pc = "lock", ![c].retried = FALSE] /\ call[c].pc = "await"
        BY <1>6, <2>1 DEF Await
      <3>2. /\ \A d \in Calls \ {c} : call'[d] = call[d]
            /\ call'[c].from = None /\ call'[c].result # "cancelled"
        <4>1. call'[c].from = call[c].from /\ call'[c].result = call[c].result
          BY <3>1, MarkEffect DEF CallStates
        <4>2. \A d \in Calls \ {c} : call'[d] = call[d]
          BY <3>1, MarkEffect DEF CallStates
        <4> QED
          BY <3>1, <4>1, <4>2 DEF FrameInv
      <3>3. /\ \A h \in Handles \ {Owner[c]} : stub'[h] = stub[h]
            /\ stub'[Owner[c]].requests = stub[Owner[c]].requests
            /\ stub'[Owner[c]].replies = stub[Owner[c]].replies
        BY <1>6, <2>1, AwaitEffect
      <3>4. Uncancelled(Owner[c]) => FramesOK(Owner[c])'
        BY <3>1, <3>2, <3>3, IdleFrames DEF FrameInv
      <3> QED
        BY <3>1, <3>2, <3>3, <3>4, OtherFrames
    <2>2. CASE task[Registration(c)] # "registered"
      BY <1>4, <1>6, <2>2 DEF Await, Results
    <2> QED
      BY <2>1, <2>2
  <1>7. CASE Send(c)
    <2> DEFINE o == Owner[c]
    <2>1. call[c].pc = "send"
      BY <1>7 DEF Send
    <2>2. /\ \A d \in Calls \ {c} : call'[d] = call[d]
          /\ call'[c].pc = "receive" /\ call'[c].from = None /\ call'[c].result # "cancelled"
      BY <1>7, <2>1, GotoEffect DEF Send, CallStates, FrameInv
    <2>3. /\ \A h \in Handles \ {o} : stub'[h] = stub[h]
          /\ stub'[o].requests = Append(stub[o].requests, c)
          /\ stub'[o].replies = stub[o].replies
      BY <1>7, SendEffect
    <2>4. ASSUME NEW d \in Calls, Owner[d] = o, call[d].pc = "receive" PROVE FALSE
      <3>1. mutex[o] = d /\ mutex[o] = c
        BY <2>1, <2>4 DEF Turns
      <3> QED
        BY <2>1, <2>4, <3>1
    <2>5. ASSUME Uncancelled(o) PROVE FramesOK(o)'
      <3>1. FramesOK(o)
        BY <2>5 DEF FrameInv
      <3>2. DOMAIN stub[o].requests = {} /\ DOMAIN stub[o].replies = {}
        BY <2>4, <3>1, StubSeqs DEF FramesOK
      <3>3. stub[o].requests = <<>> /\ stub[o].replies = <<>>
        BY <3>2, StubSeqs
      <3>4. stub'[o].requests = <<c>> /\ stub'[o].replies = <<>>
        BY <2>3, <3>3
      <3> QED
        BY <2>2, <3>4 DEF FramesOK
    <2> QED
      BY <2>1, <2>2, <2>3, <2>5, OtherFrames
  <1>8. CASE Receive(c)
    <2> DEFINE o == Owner[c]
               f == Head(stub[o].replies).to
    <2>1. call[c].pc = "receive"
      BY <1>8 DEF Receive
    <2>2. /\ \A h \in Handles \ {o} : stub'[h] = stub[h]
          /\ stub'[o].requests = stub[o].requests
          /\ stub'[o].replies = Tail(stub[o].replies)
          /\ stub[o].replies # <<>>
          /\ f \in Calls
      BY <1>8, ReceiveEffect
    <2>3. PICK r \in Results : Return(c, r, f)
      BY <1>8, ReceiveEffect
    <2>4. /\ \A d \in Calls \ {c} : call'[d] = call[d]
          /\ call'[c].pc = "done" /\ call'[c].from = f
      <3> HIDE DEF f
      <3> QED
        BY <2>2, <2>3, ReturnEffect
    <2>5. ASSUME Uncancelled(o) PROVE FramesOK(o)' /\ f = c
      <3>1. FramesOK(o)
        BY <2>5 DEF FrameInv
      <3>2. /\ Len(stub[o].replies) \in Nat /\ Len(stub[o].requests) \in Nat
            /\ Len(stub[o].replies) # 0
            /\ Len(stub[o].requests) + Len(stub[o].replies) <= 1
        <4>1. stub[o].replies \in Seq(Frames) /\ stub[o].requests \in Seq(Calls)
          BY StubSeqs
        <4>2. Len(stub[o].replies) \in Nat /\ Len(stub[o].requests) \in Nat
              /\ Len(stub[o].replies) # 0
          BY <2>2, <4>1
        <4>3. Len(stub[o].requests) + Len(stub[o].replies) <= 1
          BY <3>1 DEF FramesOK
        <4> QED
          BY <4>2, <4>3
      <3>3. 1 \in DOMAIN stub[o].replies /\ f = stub[o].replies[1].to
        BY <2>2, StubSeqs
      <3>4. Owner[f] = o /\ call[f].pc = "receive"
        BY <3>1, <3>3 DEF FramesOK
      <3>5. f = c
        BY <2>1, <2>2, <3>4 DEF Turns
      <3>6. Len(stub[o].requests) = 0 /\ Len(stub[o].replies) = 1
        BY <3>2, OneFrame
      <3>7. stub[o].requests = <<>> /\ Tail(stub[o].replies) = <<>>
        BY <2>2, <3>6, StubSeqs
      <3>8. FramesOK(o)'
        BY <2>2, <3>7, QuietFrames
      <3> QED
        BY <3>5, <3>8
    <2> HIDE DEF f
    <2> QED
      BY <2>1, <2>2, <2>4, <2>5, OtherFrames
  <1>9. CASE Dropped(c)
    <2>1. CASE call[c].pc = "receive"
      <3>1. stub[Owner[c]].replies = <<>> /\ ~Live(Owner[c]) /\ UNCHANGED stub
        BY <1>9, <2>1 DEF Dropped
      <3>2. FramesOK(Owner[c])'
        BY <3>1, QuietFrames DEF HomeInv
      <3>3. \A d \in Calls \ {c} : call'[d] = call[d]
        BY <1>9, MarkEffect, ReturnEffect DEF Dropped, Results, CallStates
      <3>4. call'[c].from = None
        BY <1>9, <2>1, MarkEffect, ReturnEffect DEF Dropped, Results, CallStates, FrameInv
      <3>5. call'[c].pc # "done" => call'[c].result # "cancelled"
        BY <1>9, <2>1, MarkEffect, ReturnEffect DEF Dropped, Results, CallStates, FrameInv
      <3> QED
        BY <2>1, <3>1, <3>2, <3>3, <3>4, <3>5, OtherFrames
    <2>2. CASE call[c].pc # "receive" /\ call[c].retried
      BY <1>4, <1>9, <2>2 DEF Dropped, Results
    <2>3. CASE call[c].pc # "receive" /\ ~call[c].retried
      <3>1. PICK pc \in CallStates :
              call' = [call EXCEPT ![c].pc = pc, ![c].retried = TRUE]
        BY <1>9, <2>3 DEF Dropped, CallStates
      <3>2. call[c].pc \notin {"receive", "done"} /\ UNCHANGED stub
        BY <1>9, <2>3 DEF Dropped
      <3> QED
        BY <1>1, <3>1, <3>2, MarkEffect DEF FrameInv
    <2> QED
      BY <2>1, <2>2, <2>3
  <1>10. CASE Cancel(c)
    <2>1. call[c].pc # "done" /\ Return(c, "cancelled", None) /\ UNCHANGED stub
      BY <1>10 DEF Cancel
    <2>2. /\ \A d \in Calls \ {c} : call'[d] = call[d]
          /\ call'[c].pc = "done" /\ call'[c].result = "cancelled"
      BY <2>1, ReturnEffect DEF Results
    <2> QED
      BY <2>1, <2>2, OtherFrames
  <1> QED
    BY <1>2, <1>3, <1>5, <1>6, <1>7, <1>8, <1>9, <1>10 DEF CallStep

LEMMA DaemonFrames ==
  ASSUME TypeOK, FrameInv, DaemonStep
  PROVE  FrameInv'
  <1>0. Types
    BY TypeSplit
  <1>1. UNCHANGED call
    BY DaemonQuiet
  <1>2. /\ \A h \in Handles : Uncancelled(h)' <=> Uncancelled(h)
        /\ OwnAnswerUncancelled'
        /\ \A c \in Calls : call'[c].pc # "done" =>
                              call'[c].from = None /\ call'[c].result # "cancelled"
    BY <1>1 DEF FrameInv, OwnAnswerUncancelled, Uncancelled
  <1>3. ASSUME \A h \in Handles : FramesOK(h) => FramesOK(h)' PROVE FrameInv'
    BY <1>2, <1>3 DEF FrameInv
  <1>4. ASSUME UNCHANGED stub PROVE FrameInv'
    BY <1>1, <1>3, <1>4 DEF FramesOK
  <1>5. ASSUME NEW h \in Handles, Serve(h) PROVE FrameInv'
    <2> DEFINE q == stub[h].requests
               p == stub[h].replies
    <2>1. /\ \A j \in Handles \ {h} : stub'[j] = stub[j]
          /\ stub'[h].requests = Tail(q) /\ q # <<>>
      BY <1>0, <1>5, ServeEffect
    <2>2. PICK r \in Frames : r.to = Head(q) /\ stub'[h].replies = Append(p, r)
      BY <1>0, <1>5, ServeEffect
    <2>3. q \in Seq(Calls) /\ p \in Seq(Frames)
      BY <1>0, StubSeqs
    <2>4. ASSUME FramesOK(h) PROVE FramesOK(h)'
      <3>1. Len(q) \in Nat /\ Len(p) \in Nat /\ Len(q) # 0
        BY <2>1, <2>3
      <3>0. Len(q) + Len(p) <= 1
        BY <2>4 DEF FramesOK
      <3>2. Owner[q[1]] = h /\ call[q[1]].pc = "receive"
        BY <2>3, <2>4, <3>1 DEF FramesOK
      <3> HIDE DEF q, p
      <3>3. Len(q) = 1 /\ Len(p) = 0
        BY <3>0, <3>1, OneFrame
      <3>4. Tail(q) = <<>> /\ p = <<>> /\ Head(q) = q[1]
        BY <2>1, <2>3, <3>3
      <3>5. stub'[h].requests = <<>> /\ stub'[h].replies = <<r>>
        BY <2>1, <2>2, <3>4
      <3> QED
        BY <1>1, <2>2, <3>2, <3>4, <3>5 DEF FramesOK
    <2>5. \A j \in Handles \ {h} : FramesOK(j) => FramesOK(j)'
      BY <1>1, <2>1 DEF FramesOK
    <2> QED
      BY <1>3, <2>4, <2>5
  <1>6. ASSUME Crash PROVE FrameInv'
    <2>1. \A h \in Handles : stub'[h].requests = <<>> /\ stub'[h].replies = stub[h].replies
      BY <1>0, <1>6, CrashEffect
    <2>2. ASSUME NEW h \in Handles, FramesOK(h) PROVE FramesOK(h)'
      <3>1. /\ Len(stub'[h].requests) = 0 /\ DOMAIN stub'[h].requests = {}
            /\ Len(stub[h].requests) \in Nat /\ Len(stub[h].replies) \in Nat
        BY <1>0, <2>1, StubSeqs
      <3>2. Len(stub[h].requests) + Len(stub[h].replies) <= 1
        BY <2>2 DEF FramesOK
      <3>3. Len(stub'[h].requests) + Len(stub'[h].replies) <= 1
        <4>1. \A m, n \in Nat : m + n <= 1 => 0 + n <= 1
          OBVIOUS
        <4>2. Len(stub'[h].replies) = Len(stub[h].replies)
          BY <2>1
        <4> QED
          BY <3>1, <3>2, <4>1, <4>2
      <3>4. \A i \in DOMAIN stub'[h].replies :
              LET c == stub'[h].replies[i].to IN Owner[c] = h /\ call'[c].pc = "receive"
        BY <1>1, <2>1, <2>2 DEF FramesOK
      <3> QED
        BY <3>1, <3>3, <3>4 DEF FramesOK
    <2> QED
      BY <1>3, <2>2
  <1>7. ASSUME NEW h \in Handles, Break(h) PROVE FrameInv'
    <2>1. FramesOK(h)' /\ \A j \in Handles \ {h} : stub'[j] = stub[j]
      BY <1>0, <1>7, BreakEffect, QuietFrames
    <2>2. \A j \in Handles \ {h} : FramesOK(j) => FramesOK(j)'
      BY <1>1, <2>1 DEF FramesOK
    <2> QED
      BY <1>3, <2>1, <2>2
  <1>8. ASSUME (\E r \in Registrations : BuildStep(r)) \/ (\E c \in Calls : ServeStray(c))
        PROVE  FrameInv'
    BY <1>0, <1>4, <1>8, BuildEffect DEF ServeStray
  <1> QED
    BY <1>5, <1>6, <1>7, <1>8 DEF DaemonStep

LEMMA StepFrames == TypeOK /\ HomeInv /\ FrameInv /\ [Next]_vars => FrameInv'
  <1> SUFFICES ASSUME TypeOK, HomeInv, FrameInv, [Next]_vars PROVE FrameInv'
    OBVIOUS
  <1>1. CASE UNCHANGED vars
    BY <1>1 DEF FrameInv, FramesOK, OwnAnswerUncancelled, Uncancelled, vars
  <1> QED
    BY <1>1, CallFrames, DaemonFrames DEF Next, DaemonStep

\* Until a call of its handle is cancelled, every call returns the daemon's
\* response to its own request, whatever is dropped, repeated and reconnected
\* (round_trip's mutex, ClientStub::request).
THEOREM OwnAnswerUncancelledCorrect == Spec => []OwnAnswerUncancelled
  <1>1. Init => FrameInv
    BY OwnerType DEF Init, FrameInv, FramesOK, OwnAnswerUncancelled
  <1>2. FrameInv => OwnAnswerUncancelled
    BY DEF FrameInv
  <1> QED
    BY <1>1, <1>2, StepFrames, HomeHolds, TypeCorrect, PTL DEF Spec
=============================================================================
