-------------------------- MODULE WriteBehindProofs --------------------------
(***************************************************************************)
(* Proofs about WriteBehind, for any entries, connections, workers, queue  *)
(* bound, scores, faults and number of Sets.                               *)
(***************************************************************************)
EXTENDS WriteBehind, FiniteSetTheorems, TLAPS

-----------------------------------------------------------------------------
(* Facts about the operators *)

\* `find_match` answers an indexed entry the query accepts, or NoId when it
\* accepts none.
LEMMA BestFact ==
  ASSUME index \subseteq Ids, NEW i \in Ids, NEW j \in Best(i)
  PROVE  /\ j \in Ids \cup {NoId}
         /\ j # NoId => j \in index
         /\ j = NoId => (SelfBest(i) => i \notin index)
  BY WriteBehindAssumption DEF Best, SelfBest

\* The handler and worker records in terms of their fields.
LEMMA HandlerFact ==
  ASSUME NEW h \in Handlers
  PROVE  /\ h.pc \in ConnStates /\ h.id \in Ids \cup {NoId} /\ h.arc \in Arcs \cup {NoArc}
         /\ h.hit \in Ids \cup {NoId} /\ h.removed \in BOOLEAN
         /\ h.pc # "idle" => h.id \in Ids
         /\ h.pc \in {"push", "undo"} => h.arc \in Arcs
         /\ h.pc \in {"fetch", "delVector", "delObject"} => h.hit \in Ids
  BY DEF Handlers

LEMMA NewHandlerFact ==
  ASSUME NEW i \in Ids, NEW a \in Arcs, NEW r \in BOOLEAN
  PROVE  /\ Handler("push", i, a, FALSE) \in Handlers
         /\ Handler("find", i, NoArc, FALSE) \in Handlers
         /\ Handler("delFind", i, NoArc, r) \in Handlers
  BY DEF Handler, Handlers, ConnStates

LEMMA IdleFact == Idle \in Handlers /\ Idle.pc = "idle" /\ Idle.id = NoId
  BY DEF Idle, Handler, Handlers, ConnStates

LEMMA ThreadFact ==
  ASSUME NEW t \in Threads
  PROVE  /\ t.pc \in WorkerStates /\ t.id \in Ids \cup {NoId} /\ t.arc \in Arcs \cup {NoArc}
         /\ t.ok \in BOOLEAN
         /\ t.pc \notin {"recv", "dead"} => t.id \in Ids /\ t.arc \in Arcs
  BY DEF Threads

LEMMA FreeFact ==
  /\ Free \in Threads /\ Free.pc = "recv"
  /\ Thread("dead", NoId, NoArc) \in Threads
  /\ \A i \in Ids, a \in Arcs : Thread("enter", i, a) \in Threads
  BY DEF Free, Thread, Threads, WorkerStates

-----------------------------------------------------------------------------
(* Types *)

LEMMA InitType == Init => TypeOK
  BY WriteBehindAssumption, IdleFact, FreeFact
  DEF Init, TypeOK, NoArc, NoResponse, Responses

LEMMA SilentFact == Silent => response' \in Responses
  BY DEF Silent, NoResponse, NoArc, Responses

LEMMA AnswerFact ==
  ASSUME TypeOK, NEW c \in Conns, NEW v \in Arcs \cup {NoArc},
         NEW k \in {"accepted", "rejected", "value", "deleted", "absent", "error"}
  PROVE  Answer(c, k, v) \in Responses
  <1>1. conn[c] \in Handlers
    BY DEF TypeOK
  <1>2. (c \in known) \in BOOLEAN
    OBVIOUS
  <1> QED
    BY <1>1, <1>2, HandlerFact DEF Answer, Responses

LEMMA SetInsertType ==
  ASSUME TypeOK, NEW c \in Conns, NEW i \in Ids, SetInsert(c, i)
  PROVE  TypeOK'
  <1>1. issued + 1 \in Arcs /\ issued' \in 0..MaxSets
    BY WriteBehindAssumption DEF TypeOK, SetInsert, Arcs
  <1>2. conn' \in [Conns -> Handlers]
    BY <1>1, NewHandlerFact DEF TypeOK, SetInsert
  <1> QED
    BY <1>1, <1>2, SilentFact DEF TypeOK, SetInsert, store

LEMMA SetPushType ==
  ASSUME TypeOK, NEW c \in Conns, SetPush(c)
  PROVE  TypeOK'
  <1>1. conn[c] \in Handlers /\ conn[c].id \in Ids /\ conn[c].arc \in Arcs
    BY HandlerFact DEF TypeOK, SetPush
  <1>2. [id |-> conn[c].id, arc |-> conn[c].arc] \in Jobs
    BY <1>1 DEF Jobs
  <1>3. queue' \in Seq(Jobs) /\ Len(queue') <= Capacity
    BY <1>2, WriteBehindAssumption DEF TypeOK, SetPush
  <1>4. conn' \in [Conns -> Handlers]
    BY IdleFact DEF TypeOK, SetPush, Reply
  <1>5. response' \in Responses
    BY <1>1, AnswerFact DEF SetPush, Reply
  <1> QED
    BY <1>1, <1>3, <1>4, <1>5 DEF TypeOK, SetPush, Acknowledge, Reply, store

LEMMA SetRejectType ==
  ASSUME TypeOK, NEW c \in Conns, SetReject(c)
  PROVE  TypeOK'
  <1>1. conn[c] \in Handlers /\ conn[c].pc = "push"
    BY DEF TypeOK, SetReject
  <1>2. [conn[c] EXCEPT !.pc = "undo"] \in Handlers
    BY <1>1 DEF Handlers, ConnStates
  <1>3. conn' \in [Conns -> Handlers]
    BY <1>2 DEF TypeOK, SetReject
  <1> QED
    BY <1>3, SilentFact DEF TypeOK, SetReject, store, ghosts

LEMMA SetUndoType ==
  ASSUME TypeOK, NEW c \in Conns, SetUndo(c)
  PROVE  TypeOK'
  <1>1. conn[c] \in Handlers /\ conn[c].id \in Ids /\ conn[c].arc \in Arcs
    BY HandlerFact DEF TypeOK, SetUndo
  <1>2. conn' \in [Conns -> Handlers]
    BY IdleFact DEF TypeOK, SetUndo, Reply
  <1>3. response' \in Responses
    BY <1>1, AnswerFact DEF SetUndo, Reply
  <1> QED
    BY <1>1, <1>2, <1>3 DEF TypeOK, SetUndo, Reply, RemoveIf, Lose, store

LEMMA GetShadowType ==
  ASSUME TypeOK, NEW c \in Conns, NEW i \in Ids, GetShadow(c, i)
  PROVE  TypeOK'
  <1>1. CASE pending[i] # NoArc
    <2>1. Held(i) \in BOOLEAN
      BY DEF Held
    <2>2. [kind |-> "value", id |-> i, hit |-> i, val |-> pending[i],
           known |-> Held(i)] \in Responses
      BY <2>1 DEF TypeOK, Responses
    <2>3. response' \in Responses /\ conn' = conn /\ known' = known
      BY <1>1, <2>2 DEF GetShadow
    <2> QED
      BY <2>3 DEF TypeOK, GetShadow, store
  <1>2. CASE pending[i] = NoArc
    <2>1. Handler("find", i, NoArc, FALSE) \in Handlers
      BY DEF Handler, Handlers, ConnStates
    <2>2. conn' \in [Conns -> Handlers] /\ known' \subseteq Conns /\ response' \in Responses
      BY <1>2, <2>1, SilentFact DEF TypeOK, GetShadow
    <2> QED
      BY <2>2 DEF TypeOK, GetShadow, store
  <1> QED
    BY <1>1, <1>2

LEMMA GetFindType ==
  ASSUME TypeOK, NEW c \in Conns, GetFind(c)
  PROVE  TypeOK'
  <1>1. conn[c] \in Handlers /\ conn[c].id \in Ids /\ conn[c].pc = "find"
    BY HandlerFact DEF TypeOK, GetFind
  <1>2. PICK j \in Best(conn[c].id) :
          IF j = NoId
          THEN Reply(c, "value", NoArc)
          ELSE /\ conn' = [conn EXCEPT ![c].pc = "fetch", ![c].hit = j]
               /\ Silent
               /\ UNCHANGED <<known, quiet>>
    BY DEF GetFind
  <1>3. j \in Ids \cup {NoId}
    BY <1>1, BestFact DEF TypeOK
  <1>4. CASE j = NoId
    <2>1. conn' \in [Conns -> Handlers] /\ response' \in Responses
      BY <1>2, <1>4, IdleFact, AnswerFact DEF TypeOK, Reply
    <2> QED
      BY <1>2, <1>4, <2>1 DEF TypeOK, GetFind, Reply, store
  <1>5. CASE j # NoId
    <2>1. [conn[c] EXCEPT !.pc = "fetch", !.hit = j] \in Handlers
      BY <1>1, <1>3, <1>5 DEF Handlers, ConnStates
    <2>2. conn' \in [Conns -> Handlers]
      BY <1>2, <1>5, <2>1 DEF TypeOK
    <2> QED
      BY <1>2, <1>5, <2>2, SilentFact DEF TypeOK, GetFind, store
  <1> QED
    BY <1>4, <1>5

LEMMA GetFetchType ==
  ASSUME TypeOK, NEW c \in Conns, GetFetch(c)
  PROVE  TypeOK'
  <1>1. objects[conn[c].hit] \in Arcs \cup {NoArc}
    BY HandlerFact DEF TypeOK, GetFetch
  <1>2. conn' \in [Conns -> Handlers] /\ response' \in Responses
    BY <1>1, IdleFact, AnswerFact DEF TypeOK, GetFetch, Reply
  <1> QED
    BY <1>2 DEF TypeOK, GetFetch, Reply, store

LEMMA LookupFailType ==
  ASSUME TypeOK, NEW c \in Conns, LookupFail(c)
  PROVE  TypeOK'
  <1>1. conn' \in [Conns -> Handlers] /\ response' \in Responses
    BY IdleFact, AnswerFact DEF TypeOK, LookupFail, Reply
  <1> QED
    BY <1>1 DEF TypeOK, LookupFail, Reply, store

LEMMA DelShadowType ==
  ASSUME TypeOK, NEW c \in Conns, NEW i \in Ids, DelShadow(c, i)
  PROVE  TypeOK'
  <1>1. (pending[i] # NoArc) \in BOOLEAN
    OBVIOUS
  <1>2. Handler("delFind", i, NoArc, pending[i] # NoArc) \in Handlers
    BY <1>1 DEF Handler, Handlers, ConnStates
  <1>3. conn' \in [Conns -> Handlers]
    BY <1>2 DEF TypeOK, DelShadow
  <1> QED
    BY <1>3, SilentFact DEF TypeOK, DelShadow, store

LEMMA DelFindType ==
  ASSUME TypeOK, NEW c \in Conns, DelFind(c)
  PROVE  TypeOK'
  <1>1. conn[c] \in Handlers /\ conn[c].id \in Ids /\ conn[c].pc = "delFind"
    BY HandlerFact DEF TypeOK, DelFind
  <1>2. PICK j \in Best(conn[c].id) :
       IF j = NoId
       THEN /\ Reply(c, IF conn[c].removed THEN "deleted" ELSE "absent", NoArc)
            /\ erased' = IF c \in quiet /\ SelfBest(conn[c].id)
                         THEN erased \cup {conn[c].id} ELSE erased
       ELSE /\ conn' = [conn EXCEPT ![c].pc = "delVector", ![c].hit = j]
            /\ Silent
            /\ UNCHANGED <<known, quiet, erased>>
    BY DEF DelFind
  <1>3. j \in Ids \cup {NoId}
    BY <1>1, BestFact DEF TypeOK
  <1>4. CASE j = NoId
    <2>1. conn' \in [Conns -> Handlers] /\ response' \in Responses
      BY <1>2, <1>4, IdleFact, AnswerFact DEF TypeOK, Reply
    <2>2. erased' \subseteq Ids
      BY <1>1, <1>2, <1>4 DEF TypeOK
    <2> QED
      BY <1>2, <1>4, <2>1, <2>2 DEF TypeOK, DelFind, Reply, store
  <1>5. CASE j # NoId
    <2>1. [conn[c] EXCEPT !.pc = "delVector", !.hit = j] \in Handlers
      BY <1>1, <1>3, <1>5 DEF Handlers, ConnStates
    <2>2. conn' \in [Conns -> Handlers]
      BY <1>2, <1>5, <2>1 DEF TypeOK
    <2> QED
      BY <1>2, <1>5, <2>2, SilentFact DEF TypeOK, DelFind, store
  <1> QED
    BY <1>4, <1>5

LEMMA DelVectorType ==
  ASSUME TypeOK, NEW c \in Conns, DelVector(c)
  PROVE  TypeOK'
  <1>1. conn[c] \in Handlers /\ conn[c].hit \in Ids /\ conn[c].pc = "delVector"
    BY HandlerFact DEF TypeOK, DelVector
  <1>2. [conn[c] EXCEPT !.pc = "delObject"] \in Handlers
    BY <1>1 DEF Handlers, ConnStates
  <1>3. conn' \in [Conns -> Handlers]
    BY <1>2, IdleFact DEF TypeOK, DelVector
  <1>4. response' \in Responses
    BY AnswerFact, SilentFact DEF TypeOK, DelVector
  <1>5. index' \subseteq Ids /\ known' \subseteq Conns /\ quiet' \subseteq Conns
    BY DEF TypeOK, DelVector, Unaware
  <1> QED
    BY <1>1, <1>3, <1>4, <1>5 DEF TypeOK, DelVector, NoArc

LEMMA DelObjectType ==
  ASSUME TypeOK, NEW c \in Conns, DelObject(c)
  PROVE  TypeOK'
  <1>1. conn[c].id \in Ids /\ conn[c].hit \in Ids
    BY HandlerFact DEF TypeOK, DelObject
  <1>2. conn' \in [Conns -> Handlers]
    BY IdleFact DEF TypeOK, DelObject
  <1>3. response' \in Responses
    BY AnswerFact DEF TypeOK, DelObject
  <1>4. objects' \in [Ids -> Arcs \cup {NoArc}] /\ erased' \subseteq Ids
    BY <1>1 DEF TypeOK, DelObject
  <1>5. known' \subseteq Conns /\ quiet' \subseteq Conns
    BY DEF TypeOK, DelObject, Unaware
  <1> QED
    BY <1>1, <1>2, <1>3, <1>4, <1>5 DEF TypeOK, DelObject

-----------------------------------------------------------------------------
(* The in-flight counter *)

\* Workers between guard entry and guard drop.
MidRun == {w \in Workers : worker[w].pc \in
             {"prepare", "holds", "put", "upsert", "cleanup", "leave"}}

InFlightExact == inFlight = Cardinality(MidRun)

LEMMA MidRunFact ==
  /\ IsFiniteSet(MidRun)
  /\ Cardinality(MidRun) \in Nat
  /\ \A w \in MidRun : /\ Cardinality(MidRun \ {w}) = Cardinality(MidRun) - 1
                       /\ Cardinality(MidRun) > 0
  /\ \A w \in Workers \ MidRun : Cardinality(MidRun \cup {w}) = Cardinality(MidRun) + 1
  <1>1. IsFiniteSet(MidRun)
    BY WriteBehindAssumption, FS_Subset DEF MidRun
  <1>2. Cardinality(MidRun) \in Nat
    BY <1>1, FS_CardinalityType
  <1>3. ASSUME NEW w \in MidRun
        PROVE  /\ Cardinality(MidRun \ {w}) = Cardinality(MidRun) - 1
               /\ Cardinality(MidRun) > 0
    BY <1>1, <1>2, <1>3, FS_RemoveElement, FS_EmptySet
  <1>4. ASSUME NEW w \in Workers \ MidRun
        PROVE  Cardinality(MidRun \cup {w}) = Cardinality(MidRun) + 1
    BY <1>1, FS_AddElement
  <1> QED
    BY <1>1, <1>2, <1>3, <1>4

\* A step of worker w that leaves it mid-run, or leaves it out.
LEMMA SameMidRun ==
  ASSUME TypeOK, NEW w \in Workers, NEW t \in Threads,
         worker' = [worker EXCEPT ![w] = t],
         w \in MidRun <=> t.pc \in {"prepare", "holds", "put", "upsert", "cleanup", "leave"}
  PROVE  MidRun' = MidRun
  BY DEF TypeOK, MidRun

LEMMA WorkerRecvType ==
  ASSUME TypeOK, InFlightExact, NEW w \in Workers, WorkerRecv(w)
  PROVE  TypeOK' /\ InFlightExact'
  <1> DEFINE t == Thread("enter", Head(queue).id, Head(queue).arc)
  <1>1. Head(queue) \in Jobs /\ Tail(queue) \in Seq(Jobs) /\ Len(Tail(queue)) <= Capacity
    BY WriteBehindAssumption DEF TypeOK, WorkerRecv
  <1>2. t \in Threads /\ t.pc = "enter"
    BY <1>1 DEF Jobs, Thread, Threads, WorkerStates
  <1>3. worker' = [worker EXCEPT ![w] = t] /\ w \notin MidRun
    BY DEF WorkerRecv, MidRun
  <1>4. MidRun' = MidRun
    BY <1>2, <1>3, SameMidRun
  <1>5. TypeOK'
    BY <1>1, <1>2, <1>3, SilentFact DEF TypeOK, WorkerRecv, store, ghosts
  <1> QED
    BY <1>4, <1>5 DEF InFlightExact, WorkerRecv

LEMMA WorkerEnterType ==
  ASSUME TypeOK, InFlightExact, NEW w \in Workers, WorkerEnter(w)
  PROVE  TypeOK' /\ InFlightExact'
  <1>1. worker[w] \in Threads /\ worker[w].pc = "enter"
    BY DEF TypeOK, WorkerEnter
  <1>2. [worker[w] EXCEPT !.pc = "prepare"] \in Threads
    BY <1>1 DEF Threads, WorkerStates
  <1>3. worker' \in [Workers -> Threads]
    BY <1>2 DEF TypeOK, WorkerEnter, Goto
  <1>4. MidRun' = MidRun \cup {w} /\ w \notin MidRun
    BY <1>1 DEF TypeOK, WorkerEnter, Goto, MidRun
  <1>5. TypeOK'
    BY <1>3, SilentFact DEF TypeOK, WorkerEnter, store, ghosts
  <1> QED
    BY <1>4, <1>5, MidRunFact DEF InFlightExact, WorkerEnter

\* A step that moves worker w within its job.
LEMMA GotoType ==
  ASSUME TypeOK, InFlightExact, NEW w \in Workers,
         worker[w].pc \in {"prepare", "holds", "put", "upsert", "cleanup"},
         NEW pc \in {"holds", "put", "upsert", "cleanup", "leave"}, NEW ok \in BOOLEAN,
         worker' = [worker EXCEPT ![w].pc = pc, ![w].ok = ok] \/ Goto(w, pc),
         inFlight' = inFlight
  PROVE  worker' \in [Workers -> Threads] /\ InFlightExact'
  <1>1. worker[w] \in Threads
    BY DEF TypeOK
  <1>2. [worker[w] EXCEPT !.pc = pc, !.ok = ok] \in Threads /\ [worker[w] EXCEPT !.pc = pc] \in Threads
    BY <1>1 DEF Threads, WorkerStates
  <1>3. worker' \in [Workers -> Threads]
    BY <1>2 DEF TypeOK, Goto
  <1>4. worker'[w].pc = pc /\ \A v \in Workers : v # w => worker'[v] = worker[v]
    BY <1>1 DEF TypeOK, Goto, Threads
  <1>5. MidRun' = MidRun
    BY <1>4 DEF MidRun
  <1> QED
    BY <1>3, <1>5 DEF InFlightExact

LEMMA WorkerRunType ==
  ASSUME TypeOK, InFlightExact, NEW w \in Workers,
         WorkerPrepare(w) \/ WorkerHolds(w) \/ WorkerPut(w) \/ WorkerUpsert(w) \/ WorkerCleanup(w)
  PROVE  TypeOK' /\ InFlightExact'
  <1>1. CASE WorkerPrepare(w)
    <2>1. worker' \in [Workers -> Threads] /\ InFlightExact'
      BY <1>1, GotoType DEF WorkerPrepare
    <2>2. leaked' \subseteq Arcs
      BY <1>1, ThreadFact DEF TypeOK, WorkerPrepare
    <2> QED
      BY <1>1, <2>1, <2>2, SilentFact DEF TypeOK, WorkerPrepare, store
  <1>2. CASE WorkerHolds(w)
    <2>1. worker' \in [Workers -> Threads] /\ InFlightExact'
      BY <1>2, GotoType DEF WorkerHolds
    <2> QED
      BY <1>2, <2>1, SilentFact DEF TypeOK, WorkerHolds, store, ghosts
  <1>3. CASE WorkerPut(w)
    <2>1. PICK outcome \in Outcomes("commit") :
       /\ objects' = IF outcome = "refused" THEN objects
                     ELSE [objects EXCEPT ![worker[w].id] = worker[w].arc]
       /\ worker' = [worker EXCEPT ![w].pc = IF outcome = "ok" THEN "upsert" ELSE "cleanup",
                                   ![w].ok = outcome = "ok"]
      BY <1>3 DEF WorkerPut
    <2>2. (outcome = "ok") \in BOOLEAN
      OBVIOUS
    <2>3. worker' \in [Workers -> Threads] /\ InFlightExact'
      BY <1>3, <2>1, <2>2, GotoType DEF WorkerPut
    <2>4. objects' \in [Ids -> Arcs \cup {NoArc}]
      BY <1>3, <2>1, ThreadFact DEF TypeOK, WorkerPut
    <2> QED
      BY <1>3, <2>3, <2>4, SilentFact DEF TypeOK, WorkerPut, ghosts
  <1>4. CASE WorkerUpsert(w)
    <2>1. PICK outcome \in Outcomes("commit") :
       /\ index' = IF outcome = "refused" THEN index ELSE index \cup {worker[w].id}
       /\ worker' = [worker EXCEPT ![w].pc = "cleanup", ![w].ok = outcome = "ok"]
      BY <1>4 DEF WorkerUpsert
    <2>2. (outcome = "ok") \in BOOLEAN
      OBVIOUS
    <2>3. worker' \in [Workers -> Threads] /\ InFlightExact'
      BY <1>4, <2>1, <2>2, GotoType DEF WorkerUpsert
    <2>4. index' \subseteq Ids
      BY <1>4, <2>1, ThreadFact DEF TypeOK, WorkerUpsert
    <2> QED
      BY <1>4, <2>3, <2>4, SilentFact DEF TypeOK, WorkerUpsert, ghosts
  <1>5. CASE WorkerCleanup(w)
    <2>1. worker' \in [Workers -> Threads] /\ InFlightExact'
      BY <1>5, GotoType DEF WorkerCleanup
    <2>2. worker[w].id \in Ids
      BY <1>5, ThreadFact DEF TypeOK, WorkerCleanup
    <2> QED
      BY <1>5, <2>1, <2>2, SilentFact DEF TypeOK, WorkerCleanup, RemoveIf, Lose, store
  <1> QED
    BY <1>1, <1>2, <1>3, <1>4, <1>5

LEMMA WorkerEndType ==
  ASSUME TypeOK, InFlightExact, NEW w \in Workers, WorkerLeave(w) \/ WorkerPanic(w)
  PROVE  TypeOK' /\ InFlightExact'
  <1>1. w \in MidRun /\ inFlight' = inFlight - 1
    BY DEF WorkerLeave, WorkerPanic, MidRun
  <1>2. PICK t \in Threads : t.pc \in {"recv", "dead"} /\ worker' = [worker EXCEPT ![w] = t]
    BY FreeFact DEF WorkerLeave, WorkerPanic, Thread
  <1>3. MidRun' = MidRun \ {w}
    BY <1>2 DEF TypeOK, MidRun
  <1>4. inFlight' \in Nat /\ InFlightExact'
    BY <1>1, <1>3, MidRunFact DEF InFlightExact
  <1>5. leaked' \subseteq Arcs
    BY ThreadFact DEF TypeOK, WorkerLeave, WorkerPanic, ghosts
  <1> QED
    BY <1>2, <1>4, <1>5, SilentFact DEF TypeOK, WorkerLeave, WorkerPanic, store, ghosts

LEMMA HandlerKeepsCount ==
  ASSUME InFlightExact, UNCHANGED <<worker, inFlight>>
  PROVE  InFlightExact'
  BY DEF InFlightExact, MidRun

LEMMA NextType ==
  ASSUME TypeOK, InFlightExact, [Next]_vars
  PROVE  TypeOK' /\ InFlightExact'
  <1>1. CASE \E c \in Conns, i \in Ids : SetInsert(c, i) \/ GetShadow(c, i) \/ DelShadow(c, i)
    <2>1. UNCHANGED <<worker, inFlight>>
      BY <1>1 DEF SetInsert, GetShadow, DelShadow
    <2> QED
      BY <1>1, <2>1, SetInsertType, GetShadowType, DelShadowType, HandlerKeepsCount
  <1>2. CASE \E c \in Conns : HandlerStep(c)
    <2>1. PICK c \in Conns : HandlerStep(c)
      BY <1>2
    <2>2. UNCHANGED <<worker, inFlight>>
      BY <2>1 DEF HandlerStep, SetStep, SetPush, SetReject, SetUndo, GetFind, GetFetch, LookupFail,
                  DelFind, DelVector, DelObject
    <2>3. TypeOK'
      BY <2>1, SetPushType, SetRejectType, SetUndoType, GetFindType, GetFetchType,
         LookupFailType, DelFindType, DelVectorType, DelObjectType DEF HandlerStep, SetStep
    <2> QED
      BY <2>2, <2>3, HandlerKeepsCount
  <1>3. CASE \E w \in Workers : WorkerStep(w)
    BY <1>3, WorkerRecvType, WorkerEnterType, WorkerRunType, WorkerEndType DEF WorkerStep
  <1>4. CASE UNCHANGED vars
    BY <1>4 DEF vars, TypeOK, InFlightExact, MidRun
  <1> QED
    BY <1>1, <1>2, <1>3, <1>4 DEF Next

\* Every reachable state is well typed and the in-flight counter is the
\* number of jobs between guard entry and guard drop, so that fetch_sub
\* never wraps.
THEOREM TypeCorrect == Spec => [](TypeOK /\ InFlightExact)
  <1>1. Init => TypeOK /\ InFlightExact
    <2>1. Init => MidRun = {}
      BY FreeFact DEF Init, MidRun
    <2> QED
      BY <2>1, InitType, FS_EmptySet DEF Init, InFlightExact
  <1>2. TypeOK /\ InFlightExact /\ [Next]_vars => (TypeOK /\ InFlightExact)'
    BY NextType
  <1> QED
    BY <1>1, <1>2, PTL DEF Spec

-----------------------------------------------------------------------------
(* Allocations *)

Unpushed(c) == conn[c].pc \in {"push", "undo"}
Busy(w) == worker[w].pc \notin {"recv", "dead"}

\* A write has one carrier: no two of the handlers that have not pushed, the
\* queued jobs and the workers have the same allocation.  It is what makes
\* `Arc::ptr_eq` identify a write.
ArcsDistinct ==
  /\ \A c \in Conns : Unpushed(c) => conn[c].arc <= issued
  /\ \A c, d \in Conns : Unpushed(c) /\ Unpushed(d) /\ c # d => conn[c].arc # conn[d].arc
  /\ \A n \in 1..Len(queue) : queue[n].arc <= issued
  /\ \A c \in Conns, n \in 1..Len(queue) : Unpushed(c) => queue[n].arc # conn[c].arc
  /\ \A w \in Workers : Busy(w) => worker[w].arc <= issued
  /\ \A c \in Conns, w \in Workers : Unpushed(c) /\ Busy(w) => worker[w].arc # conn[c].arc
  /\ \A v, w \in Workers : Busy(v) /\ Busy(w) /\ v # w => worker[v].arc # worker[w].arc
  /\ \A m, n \in 1..Len(queue) : m # n => queue[m].arc # queue[n].arc
  /\ \A n \in 1..Len(queue), w \in Workers : Busy(w) => queue[n].arc # worker[w].arc

\* A handler step after which c has no unpushed allocation, and that leaves
\* the queue and the workers alone.
LEMMA HandlerKeepsArcs ==
  ASSUME ArcsDistinct, NEW c \in Conns, ~Unpushed(c)',
         \A d \in Conns : d # c => conn'[d] = conn[d],
         UNCHANGED <<queue, worker, issued>>
  PROVE  ArcsDistinct'
  BY DEF ArcsDistinct, Unpushed, Busy

\* A worker step that keeps the worker's allocation or drops it.
LEMMA WorkerKeepsArcs ==
  ASSUME ArcsDistinct, NEW w \in Workers,
         \A v \in Workers : v # w => worker'[v] = worker[v],
         Busy(w)' => Busy(w) /\ worker'[w].arc = worker[w].arc,
         UNCHANGED <<queue, conn, issued>>
  PROVE  ArcsDistinct'
  BY DEF ArcsDistinct, Unpushed, Busy

\* What a handler step does to the handlers.
LEMMA HandlerStepFact ==
  ASSUME TypeOK, NEW c \in Conns, HandlerStep(c)
  PROVE  /\ \A d \in Conns : d # c => conn'[d] = conn[d]
         /\ UNCHANGED <<worker, inFlight, issued>>
         /\ ~SetPush(c) => UNCHANGED queue
         /\ ~SetReject(c) => ~Unpushed(c)'
  <1>0. conn[c] \in Handlers
    BY DEF TypeOK
  <1>1. CASE SetPush(c)
    BY <1>1, IdleFact DEF SetPush, Reply, TypeOK, Unpushed
  <1>2. CASE SetReject(c)
    BY <1>2 DEF SetReject, TypeOK
  <1>3. CASE SetUndo(c)
    BY <1>3, IdleFact DEF SetUndo, Reply, TypeOK, Unpushed
  <1>4. CASE GetFind(c)
    BY <1>0, <1>4, IdleFact DEF GetFind, Reply, TypeOK, Unpushed, Handlers
  <1>5. CASE GetFetch(c)
    BY <1>5, IdleFact DEF GetFetch, Reply, TypeOK, Unpushed
  <1>6. CASE LookupFail(c)
    BY <1>6, IdleFact DEF LookupFail, Reply, TypeOK, Unpushed
  <1>7. CASE DelFind(c)
    BY <1>0, <1>7, IdleFact DEF DelFind, Reply, TypeOK, Unpushed, Handlers
  <1>8. CASE DelVector(c)
    BY <1>0, <1>8, IdleFact DEF DelVector, TypeOK, Unpushed, Handlers
  <1>9. CASE DelObject(c)
    BY <1>9, IdleFact DEF DelObject, TypeOK, Unpushed
  <1> QED
    BY <1>1, <1>2, <1>3, <1>4, <1>5, <1>6, <1>7, <1>8, <1>9 DEF HandlerStep, SetStep

\* What a worker step does to the workers.
LEMMA WorkerStepFact ==
  ASSUME TypeOK, NEW w \in Workers, WorkerStep(w)
  PROVE  /\ \A v \in Workers : v # w => worker'[v] = worker[v]
         /\ UNCHANGED <<conn, issued, acked, raced, known, quiet, erased>>
         /\ Silent
         /\ ~WorkerRecv(w) => UNCHANGED queue
         /\ ~WorkerRecv(w) /\ Busy(w)' =>
              Busy(w) /\ worker'[w].arc = worker[w].arc /\ worker'[w].id = worker[w].id
  <1>0. worker[w] \in Threads
    BY DEF TypeOK
  <1>1. CASE WorkerRecv(w)
    BY <1>1 DEF WorkerRecv, TypeOK, ghosts
  <1>2. CASE WorkerEnter(w)
    BY <1>0, <1>2 DEF WorkerEnter, Goto, TypeOK, Busy, ghosts, Threads
  <1>3. CASE WorkerPrepare(w)
    BY <1>0, <1>3 DEF WorkerPrepare, Goto, TypeOK, Busy, ghosts, Threads
  <1>4. CASE WorkerHolds(w)
    BY <1>0, <1>4 DEF WorkerHolds, Goto, TypeOK, Busy, ghosts, Threads
  <1>5. CASE WorkerPut(w)
    BY <1>0, <1>5 DEF WorkerPut, TypeOK, Busy, ghosts, Threads
  <1>6. CASE WorkerUpsert(w)
    BY <1>0, <1>6 DEF WorkerUpsert, TypeOK, Busy, ghosts, Threads
  <1>7. CASE WorkerCleanup(w)
    BY <1>0, <1>7 DEF WorkerCleanup, Goto, TypeOK, Busy, Threads
  <1>8. CASE WorkerLeave(w)
    BY <1>8, FreeFact DEF WorkerLeave, TypeOK, Busy, ghosts
  <1>9. CASE WorkerPanic(w)
    BY <1>9 DEF WorkerPanic, Thread, TypeOK, Busy, ghosts
  <1> QED
    BY <1>1, <1>2, <1>3, <1>4, <1>5, <1>6, <1>7, <1>8, <1>9 DEF WorkerStep

LEMMA NextArcs ==
  ASSUME TypeOK, ArcsDistinct, [Next]_vars
  PROVE  ArcsDistinct'
  <1>1. ASSUME NEW c \in Conns, NEW i \in Ids, SetInsert(c, i)
        PROVE  ArcsDistinct'
    <2>1. /\ conn'[c].arc = issued + 1
          /\ \A d \in Conns : d # c => conn'[d] = conn[d]
          /\ issued \in Nat /\ issued' = issued + 1
          /\ UNCHANGED <<queue, worker>>
      BY <1>1 DEF SetInsert, Handler, TypeOK
    <2>2. \A d \in Conns : d # c /\ Unpushed(d)' => conn'[d].arc \in Nat /\ conn'[d].arc <= issued
      BY <2>1, HandlerFact DEF TypeOK, ArcsDistinct, Unpushed, Arcs
    <2>3. \A n \in 1..Len(queue) : queue[n].arc \in Nat /\ queue[n].arc <= issued
      <3>1. \A n \in 1..Len(queue) : queue[n] \in Jobs
        BY DEF TypeOK
      <3>2. \A job \in Jobs : job.arc \in Nat
        BY DEF Jobs, Arcs
      <3> QED
        BY <3>1, <3>2 DEF ArcsDistinct
    <2>4. \A w \in Workers : Busy(w) => worker[w].arc \in Nat /\ worker[w].arc <= issued
      BY ThreadFact DEF TypeOK, ArcsDistinct, Busy, Arcs
    <2> QED
      BY <2>1, <2>2, <2>3, <2>4 DEF ArcsDistinct, Unpushed, Busy
  <1>2. ASSUME NEW c \in Conns, NEW i \in Ids, GetShadow(c, i) \/ DelShadow(c, i)
        PROVE  ArcsDistinct'
    <2>1. ~Unpushed(c)' /\ \A d \in Conns : d # c => conn'[d] = conn[d]
      BY <1>2 DEF GetShadow, DelShadow, Handler, Unpushed, TypeOK
    <2> QED
      BY <1>2, <2>1, HandlerKeepsArcs DEF GetShadow, DelShadow
  <1>3. ASSUME NEW c \in Conns, SetPush(c)
        PROVE  ArcsDistinct'
    <2>1. /\ ~Unpushed(c)' /\ Unpushed(c)
          /\ \A d \in Conns : d # c => conn'[d] = conn[d]
          /\ UNCHANGED <<worker, issued>>
      BY <1>3, HandlerStepFact DEF HandlerStep, SetStep, Unpushed, SetPush, SetReject
    <2>2. /\ queue' = Append(queue, [id |-> conn[c].id, arc |-> conn[c].arc])
          /\ queue \in Seq(Jobs)
      BY <1>3 DEF SetPush, TypeOK
    <2>3. \A n \in 1..Len(queue') :
            \/ n \in 1..Len(queue) /\ queue'[n] = queue[n]
            \/ n = Len(queue) + 1 /\ queue'[n].arc = conn[c].arc
      BY <2>2
    <2> QED
      BY <2>1, <2>3 DEF ArcsDistinct, Unpushed, Busy
  <1>4. ASSUME NEW c \in Conns, SetReject(c)
        PROVE  ArcsDistinct'
    <2>1. conn'[c].arc = conn[c].arc /\ Unpushed(c) /\ \A d \in Conns : d # c => conn'[d] = conn[d]
      BY <1>4 DEF SetReject, TypeOK, Unpushed, Handlers
    <2> QED
      BY <1>4, <2>1 DEF SetReject, ArcsDistinct, Unpushed, Busy
  <1>5. ASSUME NEW c \in Conns, HandlerStep(c), ~SetPush(c), ~SetReject(c)
        PROVE  ArcsDistinct'
    BY <1>5, HandlerStepFact, HandlerKeepsArcs
  <1>6. ASSUME NEW w \in Workers, WorkerRecv(w)
        PROVE  ArcsDistinct'
    <2>1. /\ queue' = Tail(queue) /\ queue # <<>> /\ queue \in Seq(Jobs)
          /\ worker'[w].arc = Head(queue).arc
          /\ \A v \in Workers : v # w => worker'[v] = worker[v]
          /\ UNCHANGED <<conn, issued>>
      BY <1>6 DEF WorkerRecv, Thread, TypeOK
    <2>2. /\ 1 \in 1..Len(queue) /\ Head(queue) = queue[1]
          /\ \A n \in 1..Len(queue') : n + 1 \in 1..Len(queue) /\ queue'[n] = queue[n + 1]
      BY <2>1
    <2> QED
      BY <2>1, <2>2 DEF ArcsDistinct, Unpushed, Busy
  <1>7. ASSUME NEW w \in Workers, WorkerStep(w), ~WorkerRecv(w)
        PROVE  ArcsDistinct'
    BY <1>7, WorkerStepFact, WorkerKeepsArcs
  <1>8. CASE UNCHANGED vars
    BY <1>8 DEF vars, ArcsDistinct, Unpushed, Busy
  <1> QED
    BY <1>1, <1>2, <1>3, <1>4, <1>5, <1>6, <1>7, <1>8 DEF Next

LEMMA InitArcs == Init => ArcsDistinct
  BY IdleFact, FreeFact DEF Init, ArcsDistinct, Unpushed, Busy

-----------------------------------------------------------------------------
(* No gap between the shadow and the stores *)

\* A worker whose shadow is still its own has already written what its
\* position says, as far as no Del has intervened.
Committed ==
  \A w \in Workers :
    LET i == worker[w].id IN
    pending[i] = worker[w].arc /\ acked[i] # NoArc =>
      /\ worker[w].pc = "upsert" => objects[i] # NoArc
      /\ worker[w].pc = "cleanup" /\ worker[w].ok => Durable(i)

GapInv == NoGap /\ Committed

LEMMA ArcFact == \A a \in Arcs : a # NoArc
  BY WriteBehindAssumption DEF Arcs, NoArc

LEMMA RunningFact ==
  ASSUME TypeOK, NEW w \in Workers, worker[w].pc \notin {"recv", "dead"}
  PROVE  worker[w].id \in Ids /\ worker[w].arc \in Arcs
  BY ThreadFact DEF TypeOK

LEMMA SetInsertGap ==
  ASSUME TypeOK, ArcsDistinct, GapInv, NEW c \in Conns, NEW i \in Ids, SetInsert(c, i)
  PROVE  GapInv'
  <1>1. issued + 1 \in Arcs /\ pending' = [pending EXCEPT ![i] = issued + 1]
    BY WriteBehindAssumption DEF TypeOK, SetInsert, Arcs
  <1>2. UNCHANGED <<worker, objects, index, acked, lost>>
    BY DEF SetInsert, store
  <1>3. NoGap'
    BY <1>1, <1>2, ArcFact DEF GapInv, NoGap, Held, Durable, TypeOK
  <1>4. ASSUME NEW w \in Workers, worker[w].pc \in {"upsert", "cleanup"}
        PROVE  worker[w].id \in Ids /\ worker[w].arc # issued + 1
    BY <1>4, RunningFact DEF ArcsDistinct, Busy, Arcs, TypeOK
  <1>5. Committed'
    BY <1>1, <1>2, <1>4 DEF GapInv, Committed, Durable, TypeOK
  <1> QED
    BY <1>3, <1>5 DEF GapInv

LEMMA SetPushGap ==
  ASSUME TypeOK, ArcsDistinct, GapInv, NEW c \in Conns, SetPush(c)
  PROVE  GapInv'
  <1> DEFINE i == conn[c].id  a == conn[c].arc
  <1>1. /\ i \in Ids /\ a \in Arcs /\ Unpushed(c)
        /\ Acknowledge(i, a)
        /\ UNCHANGED <<pending, worker, objects, index>>
    BY HandlerFact DEF TypeOK, SetPush, Unpushed, store
  <1>2. NoGap'
    BY <1>1, ArcFact DEF Acknowledge, GapInv, NoGap, Held, Durable, TypeOK
  <1>3. ASSUME NEW w \in Workers, worker[w].pc \in {"upsert", "cleanup"}
        PROVE  worker[w].id \in Ids /\ worker[w].arc # a
    BY <1>1, <1>3, RunningFact DEF ArcsDistinct, Busy
  <1>4. Committed'
    BY <1>1, <1>3 DEF Acknowledge, GapInv, Committed, Durable, TypeOK
  <1> QED
    BY <1>2, <1>4 DEF GapInv

\* A step that may drop the shadow of i, and then ends its acknowledgement,
\* records it as lost, or finds it in the stores.
LEMMA DropGap ==
  ASSUME TypeOK, GapInv, NEW i \in Ids,
         pending' = pending \/ pending' = [pending EXCEPT ![i] = NoArc],
         acked' = acked \/ acked' = [acked EXCEPT ![i] = NoArc],
         \A j \in Ids : j # i => (j \in lost <=> j \in lost'),
         i \in lost /\ acked'[i] # NoArc => i \in lost',
         pending' = pending \/ acked'[i] = NoArc \/ i \in lost' \/ Durable(i),
         UNCHANGED <<worker, objects, index>>
  PROVE  GapInv'
  <1>1. NoGap'
    BY DEF GapInv, NoGap, Held, Durable, TypeOK
  <1>2. ASSUME NEW w \in Workers, worker[w].pc \in {"upsert", "cleanup"}
        PROVE  worker[w].id \in Ids /\ worker[w].arc # NoArc
    BY <1>2, RunningFact, ArcFact
  <1>3. Committed'
    BY <1>2 DEF GapInv, Committed, Durable, TypeOK
  <1> QED
    BY <1>1, <1>3 DEF GapInv

LEMMA DelGap ==
  ASSUME TypeOK, GapInv, NEW c \in Conns, DelVector(c) \/ DelObject(c)
  PROVE  GapInv'
  <1> DEFINE j == conn[c].hit
  <1>1. /\ j \in Ids
        /\ acked' = [acked EXCEPT ![j] = NoArc]
        /\ UNCHANGED <<pending, worker, lost>>
        /\ \A i \in Ids : i # j => objects'[i] = objects[i] /\ (i \in index' <=> i \in index)
    BY HandlerFact DEF TypeOK, DelVector, DelObject
  <1>2. NoGap'
    BY <1>1 DEF GapInv, NoGap, Held, Durable, TypeOK
  <1>3. ASSUME NEW w \in Workers, worker[w].pc \in {"upsert", "cleanup"}
        PROVE  worker[w].id \in Ids
    BY <1>3, RunningFact
  <1>4. Committed'
    BY <1>1, <1>3 DEF GapInv, Committed, Durable, TypeOK
  <1> QED
    BY <1>2, <1>4 DEF GapInv

LEMMA WorkerGap ==
  ASSUME TypeOK, GapInv, NEW w \in Workers, WorkerStep(w)
  PROVE  GapInv'
  <1>0. /\ worker[w] \in Threads
        /\ \A v \in Workers : v # w => worker'[v] = worker[v]
        /\ \A v \in Workers : worker[v].pc \in {"upsert", "cleanup"} =>
             worker[v].id \in Ids /\ worker[v].arc \in Arcs /\ worker[v].arc # NoArc
    BY WorkerStepFact, RunningFact, ArcFact DEF TypeOK
  <1>1. CASE WorkerPut(w)
    <2>1. PICK outcome \in Outcomes("commit") :
       /\ objects' = IF outcome = "refused" THEN objects
                     ELSE [objects EXCEPT ![worker[w].id] = worker[w].arc]
       /\ worker' = [worker EXCEPT ![w].pc = IF outcome = "ok" THEN "upsert" ELSE "cleanup",
                                   ![w].ok = outcome = "ok"]
      BY <1>1 DEF WorkerPut
    <2>2. worker[w].id \in Ids /\ worker[w].arc # NoArc /\ UNCHANGED <<pending, index, acked, lost>>
      BY <1>1, RunningFact, ArcFact DEF WorkerPut, ghosts
    <2>3. \A i \in Ids : objects[i] # NoArc => objects'[i] # NoArc
      BY <2>1, <2>2 DEF TypeOK
    <2>4. /\ worker'[w].id = worker[w].id
          /\ worker'[w].pc = "upsert" => outcome = "ok"
          /\ worker'[w].pc = "cleanup" => ~worker'[w].ok
          /\ worker'[w].pc \in {"upsert", "cleanup"}
      <3>1. CASE outcome = "ok"
        BY <1>0, <2>1, <3>1 DEF TypeOK, Threads
      <3>2. CASE outcome # "ok"
        BY <1>0, <2>1, <3>2 DEF TypeOK, Threads
      <3> QED
        BY <3>1, <3>2
    <2>5. worker'[w].pc = "upsert" => objects'[worker[w].id] # NoArc
      BY <2>1, <2>2, <2>4 DEF TypeOK
    <2>6. NoGap'
      BY <2>2, <2>3 DEF GapInv, NoGap, Held, Durable
    <2>7. Committed'
      BY <1>0, <2>2, <2>3, <2>4, <2>5 DEF GapInv, Committed, Durable
    <2> QED
      BY <2>6, <2>7 DEF GapInv
  <1>2. CASE WorkerUpsert(w)
    <2>1. PICK outcome \in Outcomes("commit") :
       /\ index' = IF outcome = "refused" THEN index ELSE index \cup {worker[w].id}
       /\ worker' = [worker EXCEPT ![w].pc = "cleanup", ![w].ok = outcome = "ok"]
      BY <1>2 DEF WorkerUpsert
    <2>2. worker[w].pc = "upsert" /\ UNCHANGED <<pending, objects, acked, lost>>
      BY <1>2 DEF WorkerUpsert, ghosts
    <2>3. /\ worker'[w].id = worker[w].id /\ worker'[w].arc = worker[w].arc
          /\ worker'[w].pc = "cleanup"
          /\ worker'[w].ok => worker[w].id \in index'
      <3>1. CASE outcome = "ok"
        BY <1>0, <2>1, <3>1 DEF TypeOK, Threads
      <3>2. CASE outcome # "ok"
        BY <1>0, <2>1, <3>2 DEF TypeOK, Threads
      <3> QED
        BY <3>1, <3>2
    <2>4. index \subseteq index'
      BY <2>1
    <2>5. NoGap'
      BY <2>2, <2>4 DEF GapInv, NoGap, Held, Durable
    <2>6. Committed'
      BY <1>0, <2>2, <2>3, <2>4 DEF GapInv, Committed, Durable
    <2> QED
      BY <2>5, <2>6 DEF GapInv
  <1>3. CASE WorkerCleanup(w)
    <2> DEFINE i == worker[w].id  a == worker[w].arc
    <2>1. /\ pending' = IF pending[i] = a THEN [pending EXCEPT ![i] = NoArc] ELSE pending
          /\ worker[w].ok \/ Lose(i, a)
          /\ worker[w].ok => lost' = lost
          /\ worker[w].pc = "cleanup"
          /\ UNCHANGED <<objects, index, acked>>
      BY <1>3 DEF WorkerCleanup, RemoveIf, store
    <2>2. worker'[w].pc = "leave"
      BY <1>0, <1>3 DEF WorkerCleanup, Goto, TypeOK, Threads
    <2>3. NoGap'
      BY <1>0, <2>1 DEF GapInv, NoGap, Held, Committed, Durable, Lose, TypeOK
    <2>4. Committed'
      BY <1>0, <2>1, <2>2 DEF GapInv, Committed, Durable, TypeOK
    <2> QED
      BY <2>3, <2>4 DEF GapInv
  <1>4. CASE ~(WorkerPut(w) \/ WorkerUpsert(w) \/ WorkerCleanup(w))
    <2>1. UNCHANGED <<pending, objects, index, acked, lost>>
      BY <1>4 DEF WorkerStep, WorkerRecv, WorkerEnter, WorkerPrepare, WorkerHolds, WorkerLeave,
                  WorkerPanic, store, ghosts
    <2>2. worker'[w].pc \notin {"upsert", "cleanup"}
      BY <1>0, <1>4, FreeFact DEF WorkerStep, WorkerRecv, WorkerEnter, WorkerPrepare, WorkerHolds,
                        WorkerLeave, WorkerPanic, Thread, Goto, TypeOK, Threads
    <2> QED
      BY <1>0, <2>1, <2>2 DEF GapInv, NoGap, Held, Committed, Durable
  <1> QED
    BY <1>1, <1>2, <1>3, <1>4

LEMMA NextGap ==
  ASSUME TypeOK, ArcsDistinct, GapInv, [Next]_vars
  PROVE  GapInv'
  <1>1. ASSUME NEW c \in Conns, NEW i \in Ids, DelShadow(c, i)
        PROVE  GapInv'
    BY <1>1, DropGap DEF DelShadow, store, TypeOK
  <1>2. ASSUME NEW c \in Conns, SetUndo(c)
        PROVE  GapInv'
    BY <1>2, DropGap, HandlerFact DEF SetUndo, RemoveIf, Lose, store, TypeOK
  <1>3. ASSUME UNCHANGED <<pending, worker, objects, index, acked, lost>>
        PROVE  GapInv'
    BY <1>3 DEF GapInv, NoGap, Held, Committed, Durable
  <1>4. ASSUME NEW c \in Conns, NEW i \in Ids, GetShadow(c, i)
        PROVE  GapInv'
    BY <1>3, <1>4 DEF GetShadow, store
  <1>5. ASSUME NEW c \in Conns,
               SetReject(c) \/ GetFind(c) \/ GetFetch(c) \/ LookupFail(c) \/ DelFind(c)
        PROVE  GapInv'
    BY <1>3, <1>5 DEF SetReject, GetFind, GetFetch, LookupFail, DelFind, store, ghosts
  <1>6. CASE UNCHANGED vars
    BY <1>3, <1>6 DEF vars
  <1> QED
    BY <1>1, <1>2, <1>4, <1>5, <1>6, SetInsertGap, SetPushGap, DelGap, WorkerGap
    DEF Next, HandlerStep, SetStep

\* An acknowledged Set is always in the shadow or in both stores, until a Del
\* removes it, its commit fails, or a later Set of the entry overwrites its
\* shadow and is then refused.
THEOREM NoGapCorrect == Spec => []NoGap
  <1>1. Init => ArcsDistinct /\ GapInv
    BY InitArcs, FreeFact DEF Init, GapInv, NoGap, Held, Committed
  <1>2. TypeOK /\ ArcsDistinct /\ GapInv /\ [Next]_vars => (ArcsDistinct /\ GapInv)'
    BY NextArcs, NextGap
  <1>3. GapInv => NoGap
    BY DEF GapInv
  <1> QED
    BY <1>1, <1>2, <1>3, TypeCorrect, PTL DEF Spec

-----------------------------------------------------------------------------
(* Read-after-write *)

\* A request that may count on its entry, and has looked for the shadow,
\* will find the entry in the stores (or has just dropped its shadow).
KnownDurable ==
  \A c \in known :
    /\ conn[c].pc \in {"find", "fetch", "delFind", "delVector", "delObject"}
    /\ conn[c].pc \in {"find", "fetch"} => Durable(conn[c].id)
    /\ conn[c].pc = "delFind" => conn[c].removed \/ Durable(conn[c].id)

ReadInv == KnownDurable /\ ReadAfterWrite /\ DeleteIsReported

\* A step that answers nothing.
LEMMA SilentRead ==
  ASSUME Silent
  PROVE  ReadAfterWrite' /\ DeleteIsReported'
  BY DEF Silent, NoResponse, ReadAfterWrite, DeleteIsReported

\* A step that takes nothing out of the stores and starts no request.
LEMMA GrowKeepsRead ==
  ASSUME ReadInv, UNCHANGED <<conn, known>>, Silent, index \subseteq index',
         \A i \in Ids : objects[i] # NoArc => objects'[i] # NoArc,
         TypeOK
  PROVE  ReadInv'
  <1>1. \A c \in known : conn[c].pc # "idle" => conn[c].id \in Ids
    BY HandlerFact DEF TypeOK
  <1> QED
    BY <1>1, SilentRead DEF ReadInv, KnownDurable, Durable

\* A step of c that leaves the stores alone, ends with c out of `known`, and
\* answers nothing the properties speak of.
LEMMA LeaveKeepsRead ==
  ASSUME ReadInv, TypeOK, NEW c \in Conns, known' = known \ {c},
         \A d \in Conns : d # c => conn'[d] = conn[d],
         UNCHANGED <<objects, index>>,
         ReadAfterWrite', DeleteIsReported'
  PROVE  ReadInv'
  BY DEF ReadInv, KnownDurable, Durable, TypeOK

LEMMA BeginKeepsRead ==
  ASSUME TypeOK, GapInv, ReadInv, NEW c \in Conns, NEW i \in Ids,
         GetShadow(c, i) \/ DelShadow(c, i)
  PROVE  ReadInv'
  <1>1. CASE GetShadow(c, i) /\ pending[i] # NoArc
    <2>1. /\ UNCHANGED <<conn, known, objects, index>>
          /\ response'.kind = "value" /\ response'.val # NoArc
      BY <1>1 DEF GetShadow, store
    <2> QED
      BY <2>1 DEF ReadInv, KnownDurable, ReadAfterWrite, DeleteIsReported, Durable
  <1>2. CASE GetShadow(c, i) /\ pending[i] = NoArc
    <2>1. /\ conn'[c].pc = "find" /\ conn'[c].id = i
          /\ \A d \in Conns : d # c => conn'[d] = conn[d]
          /\ known' = IF Held(i) THEN known \cup {c} ELSE known
          /\ UNCHANGED <<objects, index>> /\ Silent
          /\ c \notin known
      BY <1>2 DEF GetShadow, store, Handler, TypeOK, ReadInv, KnownDurable
    <2>2. Held(i) => Durable(i)
      BY <1>2 DEF GapInv, NoGap
    <2> QED
      BY <2>1, <2>2, SilentRead DEF ReadInv, KnownDurable, Durable, TypeOK
  <1>3. CASE DelShadow(c, i)
    <2>1. /\ conn'[c].pc = "delFind" /\ conn'[c].id = i
          /\ conn'[c].removed = (pending[i] # NoArc)
          /\ \A d \in Conns : d # c => conn'[d] = conn[d]
          /\ known' = IF Held(i) THEN known \cup {c} ELSE known
          /\ UNCHANGED <<objects, index>> /\ Silent
          /\ c \notin known
      BY <1>3 DEF DelShadow, store, Handler, TypeOK, ReadInv, KnownDurable
    <2>2. Held(i) => pending[i] # NoArc \/ Durable(i)
      BY DEF GapInv, NoGap
    <2> QED
      BY <2>1, <2>2, SilentRead DEF ReadInv, KnownDurable, Durable, TypeOK
  <1> QED
    BY <1>1, <1>2, <1>3

LEMMA FindKeepsRead ==
  ASSUME TypeOK, ReadInv, NEW c \in Conns, GetFind(c) \/ DelFind(c)
  PROVE  ReadInv'
  <1>1. /\ conn[c] \in Handlers /\ conn[c].id \in Ids
        /\ conn[c].pc \in {"find", "delFind"}
        /\ UNCHANGED <<objects, index>>
        /\ \A d \in Conns : d # c => conn'[d] = conn[d]
    BY HandlerFact, HandlerStepFact DEF TypeOK, GetFind, DelFind, store, HandlerStep, SetStep
  <1>2. PICK j \in Best(conn[c].id) :
          IF j = NoId
          THEN Reply(c, IF conn[c].pc = "find" THEN "value"
                        ELSE IF conn[c].removed THEN "deleted" ELSE "absent", NoArc)
          ELSE /\ conn' = [conn EXCEPT ![c].pc = IF conn[c].pc = "find" THEN "fetch" ELSE "delVector",
                                       ![c].hit = j]
               /\ Silent /\ UNCHANGED known
    BY DEF GetFind, DelFind
  <1>3. CASE j = NoId
    <2>1. SelfBest(conn[c].id) => ~Durable(conn[c].id)
      BY <1>1, <1>3, BestFact DEF TypeOK, Durable
    <2>2. /\ response'.id = conn[c].id /\ response'.known = (c \in known)
          /\ response'.kind = IF conn[c].pc = "find" THEN "value"
                              ELSE IF conn[c].removed THEN "deleted" ELSE "absent"
      BY <1>2, <1>3 DEF Reply, Answer
    <2>3. c \in known /\ SelfBest(conn[c].id) => conn[c].pc = "delFind" /\ conn[c].removed
      BY <1>1, <2>1 DEF ReadInv, KnownDurable
    <2>4. ReadAfterWrite' /\ DeleteIsReported'
      BY <2>2, <2>3 DEF ReadAfterWrite, DeleteIsReported, SelfBest
    <2> QED
      BY <1>1, <1>2, <1>3, <2>4, LeaveKeepsRead DEF Reply
  <1>4. CASE j # NoId
    <2>1. /\ conn'[c].id = conn[c].id
          /\ conn'[c].pc \in {"fetch", "delVector"}
          /\ conn'[c].pc = "fetch" => conn[c].pc = "find"
          /\ Silent /\ UNCHANGED known
      BY <1>1, <1>2, <1>4 DEF TypeOK, Handlers
    <2> QED
      BY <1>1, <2>1, SilentRead DEF ReadInv, KnownDurable, Durable, TypeOK
  <1> QED
    BY <1>3, <1>4

LEMMA FetchKeepsRead ==
  ASSUME TypeOK, ReadInv, NEW c \in Conns, GetFetch(c)
  PROVE  ReadInv'
  <1>1. /\ conn[c].hit \in Ids /\ conn[c].id \in Ids
        /\ response'.kind = "value" /\ response'.val = objects[conn[c].hit]
        /\ response'.id = conn[c].id /\ response'.hit = conn[c].hit
        /\ response'.known = (c \in known)
        /\ known' = known \ {c}
        /\ UNCHANGED <<objects, index>>
        /\ \A d \in Conns : d # c => conn'[d] = conn[d]
    BY HandlerFact DEF GetFetch, Reply, Answer, TypeOK, store
  <1>2. c \in known => objects[conn[c].id] # NoArc
    BY DEF GetFetch, ReadInv, KnownDurable, Durable
  <1>3. ReadAfterWrite' /\ DeleteIsReported'
    BY <1>1, <1>2, WriteBehindAssumption DEF ReadAfterWrite, DeleteIsReported, SelfBest
  <1> QED
    BY <1>1, <1>3, LeaveKeepsRead

\* Deleting an entry takes every other request about it out of `known`.
LEMMA DeleteKeepsRead ==
  ASSUME TypeOK, ReadInv, NEW c \in Conns, DelVector(c) \/ DelObject(c)
  PROVE  ReadInv'
  <1> DEFINE j == conn[c].hit
  <1>1. /\ conn[c] \in Handlers /\ conn[c].hit \in Ids
        /\ known' \subseteq Unaware(c, j)
        /\ \A d \in Conns : d # c => conn'[d] = conn[d]
        /\ c \in known' => conn'[c].pc = "delObject"
        /\ \A i \in Ids : i # j => objects'[i] = objects[i] /\ (i \in index' <=> i \in index)
    <2>1. CASE DelVector(c)
      BY <2>1, HandlerFact DEF DelVector, TypeOK, Handlers
    <2>2. CASE DelObject(c)
      BY <2>2, HandlerFact DEF DelObject, TypeOK
    <2> QED
      BY <2>1, <2>2
  <1>2. ASSUME NEW d \in known', d # c
        PROVE  /\ d \in known /\ d \in Conns /\ conn'[d] = conn[d]
               /\ conn[d].pc # "idle" /\ conn[d].id # j /\ conn[d].id \in Ids
    BY <1>1, <1>2, HandlerFact DEF Unaware, TypeOK, ReadInv, KnownDurable
  <1>3. KnownDurable'
    BY <1>1, <1>2 DEF ReadInv, KnownDurable, Durable, TypeOK
  <1>4. Silent \/ response'.kind \in {"deleted", "error"}
    BY DEF DelVector, DelObject, Answer
  <1>5. ReadAfterWrite' /\ DeleteIsReported'
    BY <1>4, SilentRead DEF ReadAfterWrite, DeleteIsReported
  <1> QED
    BY <1>3, <1>5 DEF ReadInv

LEMMA NextRead ==
  ASSUME TypeOK, GapInv, ReadInv, [Next]_vars
  PROVE  ReadInv'
  <1>1. ASSUME NEW c \in Conns, NEW i \in Ids, SetInsert(c, i)
        PROVE  ReadInv'
    <2>1. /\ c \notin known
          /\ \A d \in Conns : d # c => conn'[d] = conn[d]
          /\ UNCHANGED <<objects, index, known>> /\ Silent
      BY <1>1 DEF SetInsert, ReadInv, KnownDurable, TypeOK, store
    <2> QED
      BY <2>1, SilentRead DEF ReadInv, KnownDurable, Durable, TypeOK
  <1>2. ASSUME NEW c \in Conns, SetReject(c)
        PROVE  ReadInv'
    <2>1. /\ c \notin known
          /\ \A d \in Conns : d # c => conn'[d] = conn[d]
          /\ UNCHANGED <<objects, index, known>> /\ Silent
      BY <1>2 DEF SetReject, ReadInv, KnownDurable, TypeOK, store, ghosts
    <2> QED
      BY <2>1, SilentRead DEF ReadInv, KnownDurable, Durable, TypeOK
  <1>3. ASSUME NEW c \in Conns, SetPush(c) \/ SetUndo(c) \/ LookupFail(c)
        PROVE  ReadInv'
    <2>1. /\ known' = known \ {c} /\ UNCHANGED <<objects, index>>
          /\ \A d \in Conns : d # c => conn'[d] = conn[d]
          /\ response'.kind \in {"accepted", "rejected", "error"}
      BY <1>3 DEF SetPush, SetUndo, LookupFail, Reply, Answer, TypeOK, store
    <2>2. ReadAfterWrite' /\ DeleteIsReported'
      BY <2>1 DEF ReadAfterWrite, DeleteIsReported
    <2> QED
      BY <2>1, <2>2, LeaveKeepsRead
  <1>4. ASSUME NEW w \in Workers, WorkerStep(w)
        PROVE  ReadInv'
    <2>1. UNCHANGED <<conn, known>> /\ Silent
      BY <1>4, WorkerStepFact
    <2>2. index \subseteq index' /\ \A i \in Ids : objects[i] # NoArc => objects'[i] # NoArc
      <3>1. CASE WorkerPut(w)
        BY <3>1, RunningFact, ArcFact DEF WorkerPut, TypeOK
      <3>2. CASE WorkerUpsert(w)
        BY <3>2 DEF WorkerUpsert
      <3>3. CASE ~(WorkerPut(w) \/ WorkerUpsert(w))
        BY <1>4, <3>3 DEF WorkerStep, WorkerRecv, WorkerEnter, WorkerPrepare, WorkerHolds,
                          WorkerCleanup, WorkerLeave, WorkerPanic, store
      <3> QED
        BY <3>1, <3>2, <3>3
    <2> QED
      BY <2>1, <2>2, GrowKeepsRead
  <1>5. CASE UNCHANGED vars
    BY <1>5 DEF vars, ReadInv, KnownDurable, ReadAfterWrite, DeleteIsReported, Durable, SelfBest
  <1> QED
    BY <1>1, <1>2, <1>3, <1>4, <1>5, BeginKeepsRead, FindKeepsRead, FetchKeepsRead, DeleteKeepsRead
    DEF Next, HandlerStep, SetStep

LEMMA ReadsCorrect == Spec => []ReadInv
  <1>1. Init => ArcsDistinct /\ GapInv /\ ReadInv
    BY InitArcs, FreeFact DEF Init, GapInv, NoGap, Held, Committed, ReadInv, KnownDurable,
       ReadAfterWrite, DeleteIsReported, NoResponse
  <1>2. TypeOK /\ ArcsDistinct /\ GapInv /\ ReadInv /\ [Next]_vars
          => (ArcsDistinct /\ GapInv /\ ReadInv)'
    BY NextArcs, NextGap, NextRead
  <1> QED
    BY <1>1, <1>2, TypeCorrect, PTL DEF Spec

\* A Get of an entry that is its own best match never answers a miss for it,
\* wherever the worker is in moving the entry from the shadow to the stores
\* (handle_get, WriteJob::run), if the entry was acknowledged when the Get
\* began and had not been deleted, lost to a failed commit or lost to a
\* refused later Set (handle_set) by then.
THEOREM ReadAfterWriteCorrect == Spec => []ReadAfterWrite
  <1>1. ReadInv => ReadAfterWrite
    BY DEF ReadInv
  <1> QED
    BY <1>1, ReadsCorrect, PTL

\* A Del of an entry that is its own best match, that was acknowledged and
\* not lost as in ReadAfterWrite, and that no other Del removes first never
\* answers Deleted(false), whether the entry is still in the shadow or already
\* in the stores (handle_del).
THEOREM DeleteIsReportedCorrect == Spec => []DeleteIsReported
  <1>1. ReadInv => DeleteIsReported
    BY DEF ReadInv
  <1> QED
    BY <1>1, ReadsCorrect, PTL

-----------------------------------------------------------------------------
(* No resurrected delete *)

\* While a quiet Del runs its entry has no shadow and no worker is past the
\* `holds` check with it, so that nothing can put it back in the index.
QuietUnwritten ==
  \A c \in quiet :
    /\ conn[c].pc \in {"delFind", "delVector", "delObject"}
    /\ pending[conn[c].id] = NoArc
    /\ ~Committing(conn[c].id)
    /\ conn[c].pc = "delObject" /\ conn[c].hit = conn[c].id => conn[c].id \notin index

ErasedUnwritten ==
  \A i \in erased : pending[i] = NoArc /\ i \notin index /\ ~Committing(i)

EraseInv == QuietUnwritten /\ ErasedUnwritten

\* A step that adds nothing to the index, shadows no entry and moves no
\* worker past its check keeps what is known of erased entries.
LEMMA ErasedKept ==
  ASSUME TypeOK, EraseInv, erased' \subseteq erased,
         \A i \in Ids : pending[i] = NoArc => pending'[i] = NoArc,
         index' \subseteq index,
         \A i \in Ids : Committing(i)' => Committing(i)
  PROVE  ErasedUnwritten'
  BY DEF EraseInv, ErasedUnwritten, TypeOK

\* The same for the quiet Dels other than c.
LEMMA QuietKept ==
  ASSUME TypeOK, EraseInv, NEW c \in Conns, quiet' \subseteq quiet \ {c},
         \A d \in Conns : d # c => conn'[d] = conn[d],
         \A i \in Ids : pending[i] = NoArc => pending'[i] = NoArc,
         index' \subseteq index,
         \A i \in Ids : Committing(i)' => Committing(i)
  PROVE  QuietUnwritten'
  <1>1. \A d \in quiet' : d \in quiet /\ d \in Conns /\ conn'[d] = conn[d] /\ conn[d].id \in Ids
    BY HandlerFact DEF TypeOK, EraseInv, QuietUnwritten
  <1> QED
    BY <1>1 DEF EraseInv, QuietUnwritten

LEMMA SetInsertErase ==
  ASSUME TypeOK, EraseInv, NEW c \in Conns, NEW i \in Ids, SetInsert(c, i)
  PROVE  EraseInv'
  <1>1. /\ c \notin quiet
        /\ \A d \in Conns : d # c => conn'[d] = conn[d]
        /\ \A k \in Ids : k # i => pending'[k] = pending[k]
        /\ quiet' = quiet \ {d \in Conns : conn[d].id = i}
        /\ erased' = erased \ {i}
        /\ UNCHANGED <<index, worker>>
    BY DEF SetInsert, EraseInv, QuietUnwritten, TypeOK, store
  <1>2. \A d \in quiet' : d # c /\ d \in quiet /\ d \in Conns /\ conn[d].id \in Ids \ {i}
    BY <1>1, HandlerFact DEF TypeOK, EraseInv, QuietUnwritten
  <1>3. QuietUnwritten'
    BY <1>1, <1>2 DEF EraseInv, QuietUnwritten, Committing
  <1>4. ErasedUnwritten'
    BY <1>1 DEF EraseInv, ErasedUnwritten, Committing, TypeOK
  <1> QED
    BY <1>3, <1>4 DEF EraseInv

LEMMA DelShadowErase ==
  ASSUME TypeOK, EraseInv, NEW c \in Conns, NEW i \in Ids, DelShadow(c, i)
  PROVE  EraseInv'
  <1>1. /\ c \notin quiet
        /\ conn'[c].pc = "delFind" /\ conn'[c].id = i
        /\ \A d \in Conns : d # c => conn'[d] = conn[d]
        /\ pending' = [pending EXCEPT ![i] = NoArc]
        /\ quiet' = IF Committing(i) THEN quiet ELSE quiet \cup {c}
        /\ UNCHANGED <<index, worker, erased>>
    BY DEF DelShadow, EraseInv, QuietUnwritten, TypeOK, store, Handler
  <1>2. \A k \in Ids : pending[k] = NoArc => pending'[k] = NoArc
    BY <1>1 DEF TypeOK
  <1>3. \A d \in quiet : d # c /\ d \in Conns /\ conn[d].id \in Ids
    BY <1>1, HandlerFact DEF TypeOK, EraseInv, QuietUnwritten
  <1>4. QuietUnwritten'
    BY <1>1, <1>2, <1>3 DEF EraseInv, QuietUnwritten, Committing, TypeOK
  <1>5. ErasedUnwritten'
    BY <1>1, <1>2, ErasedKept DEF Committing
  <1> QED
    BY <1>4, <1>5 DEF EraseInv

LEMMA DelFindErase ==
  ASSUME TypeOK, EraseInv, NEW c \in Conns, DelFind(c)
  PROVE  EraseInv'
  <1>1. /\ conn[c] \in Handlers /\ conn[c].id \in Ids /\ conn[c].pc = "delFind"
        /\ UNCHANGED <<pending, index, worker>>
        /\ \A d \in Conns : d # c => conn'[d] = conn[d]
    BY HandlerFact, HandlerStepFact DEF TypeOK, DelFind, store, HandlerStep, SetStep
  <1>2. PICK j \in Best(conn[c].id) :
       IF j = NoId
       THEN /\ Reply(c, IF conn[c].removed THEN "deleted" ELSE "absent", NoArc)
            /\ erased' = IF c \in quiet /\ SelfBest(conn[c].id)
                         THEN erased \cup {conn[c].id} ELSE erased
       ELSE /\ conn' = [conn EXCEPT ![c].pc = "delVector", ![c].hit = j]
            /\ Silent
            /\ UNCHANGED <<known, quiet, erased>>
    BY DEF DelFind
  <1>3. CASE j = NoId
    <2>1. quiet' = quiet \ {c}
      BY <1>2, <1>3 DEF Reply
    <2>2. SelfBest(conn[c].id) => conn[c].id \notin index
      BY <1>1, <1>3, BestFact DEF TypeOK
    <2>3. QuietUnwritten'
      BY <1>1, <2>1, QuietKept DEF Committing
    <2>4. ErasedUnwritten'
      BY <1>1, <1>2, <1>3, <2>2 DEF EraseInv, ErasedUnwritten, QuietUnwritten, Committing
    <2> QED
      BY <2>3, <2>4 DEF EraseInv
  <1>4. CASE j # NoId
    <2>1. /\ conn'[c].id = conn[c].id /\ conn'[c].pc = "delVector"
          /\ UNCHANGED <<quiet, erased>>
      BY <1>1, <1>2, <1>4 DEF TypeOK, Handlers
    <2> QED
      BY <1>1, <2>1 DEF EraseInv, QuietUnwritten, ErasedUnwritten, Committing, TypeOK
  <1> QED
    BY <1>3, <1>4

LEMMA DelVectorErase ==
  ASSUME TypeOK, EraseInv, NEW c \in Conns, DelVector(c)
  PROVE  EraseInv'
  <1>1. /\ conn[c] \in Handlers /\ conn[c].id \in Ids /\ conn[c].pc = "delVector"
        /\ UNCHANGED <<pending, worker, erased>>
        /\ index' \subseteq index
        /\ \A d \in Conns : d # c => conn'[d] = conn[d]
    BY HandlerFact, HandlerStepFact DEF TypeOK, DelVector, HandlerStep, SetStep
  <1>2. ErasedUnwritten'
    BY <1>1, ErasedKept DEF Committing
  <1>3. CASE quiet' = quiet \ {c}
    BY <1>1, <1>2, <1>3, QuietKept DEF EraseInv, Committing
  <1>4. CASE quiet' # quiet \ {c}
    <2>1. /\ conn' = [conn EXCEPT ![c].pc = "delObject"]
          /\ index' = index \ {conn[c].hit}
          /\ quiet' = quiet
      BY <1>4 DEF DelVector
    <2>2. conn'[c].id = conn[c].id /\ conn'[c].hit = conn[c].hit /\ conn'[c].pc = "delObject"
      BY <1>1, <2>1 DEF TypeOK, Handlers
    <2>3. QuietUnwritten'
      BY <1>1, <2>1, <2>2 DEF EraseInv, QuietUnwritten, Committing, TypeOK
    <2> QED
      BY <1>2, <2>3 DEF EraseInv
  <1> QED
    BY <1>3, <1>4

LEMMA DelObjectErase ==
  ASSUME TypeOK, EraseInv, NEW c \in Conns, DelObject(c)
  PROVE  EraseInv'
  <1>1. /\ conn[c].pc = "delObject"
        /\ UNCHANGED <<pending, worker, index>>
        /\ quiet' = quiet \ {c}
        /\ \A d \in Conns : d # c => conn'[d] = conn[d]
        /\ \A i \in erased' : i \in erased \/ (c \in quiet /\ i = conn[c].id /\ i = conn[c].hit)
    BY DEF TypeOK, DelObject
  <1>2. QuietUnwritten'
    BY <1>1, QuietKept DEF Committing
  <1>3. ErasedUnwritten'
    BY <1>1 DEF EraseInv, ErasedUnwritten, QuietUnwritten, Committing
  <1> QED
    BY <1>2, <1>3 DEF EraseInv

\* The worker steps: only one that finds its shadow in place starts to
\* write, and only one that has started reaches the index.
LEMMA WorkerErase ==
  ASSUME TypeOK, EraseInv, NEW w \in Workers, WorkerStep(w)
  PROVE  EraseInv'
  <1>1. /\ \A v \in Workers : v # w => worker'[v] = worker[v]
        /\ UNCHANGED <<conn, quiet, erased>>
        /\ worker[w] \in Threads
    BY WorkerStepFact DEF TypeOK
  <1>2. \A i \in Ids : pending[i] = NoArc => pending'[i] = NoArc
    BY DEF WorkerStep, WorkerRecv, WorkerEnter, WorkerPrepare, WorkerHolds, WorkerPut, WorkerUpsert,
           WorkerCleanup, WorkerLeave, WorkerPanic, RemoveIf, TypeOK
  <1>3. \A i \in index' : i \in index \/ Committing(i)
    BY DEF WorkerStep, WorkerRecv, WorkerEnter, WorkerPrepare, WorkerHolds, WorkerPut, WorkerUpsert,
           WorkerCleanup, WorkerLeave, WorkerPanic, Committing, store
  <1>4. ASSUME NEW i \in Ids, Committing(i)', pending[i] = NoArc
        PROVE  Committing(i)
    <2>1. PICK v \in Workers : worker'[v].pc \in {"put", "upsert"} /\ worker'[v].id = i
      BY <1>4 DEF Committing
    <2>2. CASE v # w
      BY <1>1, <2>1, <2>2 DEF Committing
    <2>3. CASE v = w
      <3>1. CASE WorkerHolds(w)
        <4>1. worker[w].arc # NoArc /\ worker'[w].id = worker[w].id /\ pending[worker[w].id] = worker[w].arc
          BY <1>1, <2>1, <2>3, <3>1, RunningFact, ArcFact DEF WorkerHolds, Goto, TypeOK, Threads
        <4> QED
          BY <1>4, <2>1, <2>3, <4>1
      <3>2. CASE WorkerPut(w)
        BY <1>1, <2>1, <2>3, <3>2 DEF WorkerPut, Committing, TypeOK, Threads
      <3>3. CASE ~(WorkerHolds(w) \/ WorkerPut(w))
        BY <1>1, <2>1, <2>3, <3>3, FreeFact
        DEF WorkerStep, WorkerRecv, WorkerEnter, WorkerPrepare, WorkerUpsert, WorkerCleanup,
            WorkerLeave, WorkerPanic, Thread, Goto, TypeOK, Threads
      <3> QED
        BY <3>1, <3>2, <3>3
    <2> QED
      BY <2>2, <2>3
  <1>5. \A d \in quiet : d \in Conns /\ conn[d].id \in Ids
    BY HandlerFact DEF TypeOK, EraseInv, QuietUnwritten
  <1>6. QuietUnwritten'
    BY <1>1, <1>2, <1>3, <1>4, <1>5 DEF EraseInv, QuietUnwritten
  <1>7. ErasedUnwritten'
    BY <1>1, <1>2, <1>3, <1>4 DEF EraseInv, ErasedUnwritten, TypeOK
  <1> QED
    BY <1>6, <1>7 DEF EraseInv

LEMMA NextErase ==
  ASSUME TypeOK, EraseInv, [Next]_vars
  PROVE  EraseInv'
  <1>1. ASSUME NEW c \in Conns, NEW i \in Ids, GetShadow(c, i)
        PROVE  EraseInv'
    <2>1. /\ c \notin quiet
          /\ \A d \in Conns : d # c => conn'[d] = conn[d]
          /\ UNCHANGED <<pending, index, worker, quiet, erased>>
      BY <1>1 DEF GetShadow, EraseInv, QuietUnwritten, TypeOK, store
    <2> QED
      BY <2>1, QuietKept, ErasedKept DEF EraseInv, Committing
  <1>2. ASSUME NEW c \in Conns, SetReject(c) \/ GetFind(c)
        PROVE  EraseInv'
    <2>1. /\ c \notin quiet
          /\ \A d \in Conns : d # c => conn'[d] = conn[d]
          /\ UNCHANGED <<pending, index, worker, erased>>
          /\ quiet' \subseteq quiet
      BY <1>2, HandlerStepFact
      DEF HandlerStep, SetStep, SetReject, GetFind, Reply, EraseInv, QuietUnwritten, store, ghosts
    <2> QED
      BY <2>1, QuietKept, ErasedKept DEF EraseInv, Committing
  <1>3. ASSUME NEW c \in Conns, SetPush(c) \/ SetUndo(c) \/ GetFetch(c) \/ LookupFail(c)
        PROVE  EraseInv'
    <2>1. /\ quiet' = quiet \ {c}
          /\ \A d \in Conns : d # c => conn'[d] = conn[d]
          /\ \A i \in Ids : pending[i] = NoArc => pending'[i] = NoArc
          /\ UNCHANGED <<index, worker, erased>>
      BY <1>3 DEF SetPush, SetUndo, GetFetch, LookupFail, Reply, RemoveIf, TypeOK, store
    <2> QED
      BY <2>1, QuietKept, ErasedKept DEF EraseInv, Committing
  <1>4. CASE UNCHANGED vars
    BY <1>4 DEF vars, EraseInv, QuietUnwritten, ErasedUnwritten, Committing
  <1> QED
    BY <1>1, <1>2, <1>3, <1>4, SetInsertErase, DelShadowErase, DelFindErase, DelVectorErase,
       DelObjectErase, WorkerErase
    DEF Next, HandlerStep, SetStep

\* Once an unraced Del has been answered nothing already queued or running
\* brings the entry back.
THEOREM NoResurrectionCorrect == Spec => []NoResurrection
  <1>1. Init => EraseInv
    BY DEF Init, EraseInv, QuietUnwritten, ErasedUnwritten
  <1>2. TypeOK /\ EraseInv /\ [Next]_vars => EraseInv'
    BY NextErase
  <1>3. EraseInv => NoResurrection
    BY DEF EraseInv, ErasedUnwritten, NoResurrection
  <1> QED
    BY <1>1, <1>2, <1>3, TypeCorrect, PTL DEF Spec

-----------------------------------------------------------------------------
(* The queue's contract *)

InHand == {w \in Workers : worker[w].pc = "enter"}
Dead   == {w \in Workers : worker[w].pc = "dead"}

\* One element more or less, for any set of workers.
LEMMA CountFact ==
  ASSUME NEW S \in SUBSET Workers
  PROVE  /\ Cardinality(S) \in Nat
         /\ \A w \in S : Cardinality(S \ {w}) = Cardinality(S) - 1 /\ Cardinality(S) > 0
         /\ \A w \in Workers \ S : Cardinality(S \cup {w}) = Cardinality(S) + 1
  <1>1. IsFiniteSet(S)
    BY WriteBehindAssumption, FS_Subset
  <1>2. Cardinality(S) \in Nat
    BY <1>1, FS_CardinalityType
  <1>3. ASSUME NEW w \in S
        PROVE  Cardinality(S \ {w}) = Cardinality(S) - 1 /\ Cardinality(S) > 0
    BY <1>1, <1>2, <1>3, FS_RemoveElement, FS_EmptySet
  <1>4. ASSUME NEW w \in Workers \ S
        PROVE  Cardinality(S \cup {w}) = Cardinality(S) + 1
    BY <1>1, FS_AddElement
  <1> QED
    BY <1>2, <1>3, <1>4

LEMMA DisjointCount ==
  ASSUME NEW S, IsFiniteSet(S), NEW T, IsFiniteSet(T), S \cap T = {}
  PROVE  Cardinality(S \cup T) = Cardinality(S) + Cardinality(T)
  <1>1. Cardinality(S \cup T) = Cardinality(S) + Cardinality(T) - Cardinality(S \cap T)
    BY FS_Union
  <1>2. Cardinality(S \cap T) = 0
    BY FS_EmptySet
  <1>3. Cardinality(S) \in Nat /\ Cardinality(T) \in Nat
    BY FS_CardinalityType
  <1> QED
    BY <1>1, <1>2, <1>3

\* A free worker is none of those the contract counts, so there are fewer of
\* them than workers.
LEMMA FreeWorker ==
  ASSUME InFlightExact, NEW w \in Workers, worker[w].pc = "recv"
  PROVE  Cardinality(InHand) + inFlight + Cardinality(Dead) < Cardinality(Workers)
  <1> DEFINE Rest == Workers \ {w}
             Some == InHand \cup MidRun
  <1>1. /\ IsFiniteSet(InHand) /\ IsFiniteSet(MidRun) /\ IsFiniteSet(Dead) /\ IsFiniteSet(Rest)
        /\ IsFiniteSet(Some)
    BY WriteBehindAssumption, FS_Subset DEF InHand, MidRun, Dead
  <1>2. /\ InHand \cap MidRun = {} /\ Some \cap Dead = {} /\ Some \cup Dead \subseteq Rest
    BY DEF InHand, MidRun, Dead
  <1>3. Cardinality(Some) = Cardinality(InHand) + Cardinality(MidRun)
    BY <1>1, <1>2, DisjointCount
  <1>4. Cardinality(Some \cup Dead) = Cardinality(Some) + Cardinality(Dead)
    BY <1>1, <1>2, DisjointCount
  <1>5. Cardinality(Some \cup Dead) <= Cardinality(Rest)
    BY <1>1, <1>2, FS_Subset
  <1>6. Cardinality(Rest) = Cardinality(Workers) - 1 /\ Cardinality(Workers) \in Nat
    BY CountFact
  <1>7. Cardinality(Rest) \in Nat /\ Cardinality(InHand) \in Nat /\ Cardinality(Dead) \in Nat
        /\ Cardinality(MidRun) \in Nat
    BY <1>1, FS_CardinalityType
  <1> HIDE DEF Rest, Some
  <1>8. Cardinality(InHand) + Cardinality(MidRun) + Cardinality(Dead) < Cardinality(Workers)
    BY <1>3, <1>4, <1>5, <1>6, <1>7
  <1> QED
    BY <1>8 DEF InFlightExact

\* A step outside the queue: the contract's counts stay.
LEMMA QueueStutter ==
  ASSUME UNCHANGED <<queue, inFlight>>, InHand' = InHand, Dead' = Dead
  PROVE  UNCHANGED Queue!qvars
  BY DEF Queue!qvars, InHand, Dead

LEMMA QueueStep ==
  ASSUME TypeOK, InFlightExact, [Next]_vars
  PROVE  [Queue!QNext]_(Queue!qvars)
  <1> USE DEF Queue!QNext
  <1>0. /\ Cardinality(InHand) \in Nat /\ Cardinality(Dead) \in Nat /\ inFlight \in Nat
        /\ Len(queue) \in Nat
    BY CountFact DEF InHand, Dead, TypeOK
  <1>1. ASSUME UNCHANGED <<queue, worker, inFlight>> PROVE UNCHANGED Queue!qvars
    BY <1>1, QueueStutter DEF InHand, Dead
  <1>2. ASSUME NEW c \in Conns, SetPush(c) PROVE Queue!Push
    <2>1. Len(queue) < Capacity /\ Len(queue') = Len(queue) + 1 /\ UNCHANGED <<worker, inFlight>>
      BY <1>2 DEF SetPush, TypeOK
    <2> QED
      BY <2>1 DEF Queue!Push
  <1>3. ASSUME NEW c \in Conns, HandlerStep(c), ~SetPush(c) PROVE UNCHANGED Queue!qvars
    BY <1>1, <1>3, HandlerStepFact
  <1>4. ASSUME NEW w \in Workers, WorkerRecv(w) PROVE Queue!Recv
    <2>1. /\ Len(queue) > 0 /\ Len(queue') = Len(queue) - 1 /\ inFlight' = inFlight
      BY <1>4 DEF WorkerRecv, TypeOK
    <2>2. InHand' = InHand \cup {w} /\ Dead' = Dead /\ w \notin InHand
      BY <1>4 DEF WorkerRecv, TypeOK, Thread, InHand, Dead
    <2>3. Cardinality(InHand') = Cardinality(InHand) + 1
      BY <2>2, CountFact DEF InHand
    <2>4. Cardinality(InHand) + inFlight + Cardinality(Dead) < Cardinality(Workers)
      BY <1>4, FreeWorker DEF WorkerRecv
    <2> QED
      BY <2>1, <2>2, <2>3, <2>4 DEF Queue!Recv, InHand, Dead
  <1>5. ASSUME NEW w \in Workers, WorkerEnter(w) PROVE Queue!Enter
    <2>1. worker[w].pc = "enter" /\ worker'[w].pc = "prepare" /\ \A v \in Workers \ {w} : worker'[v] = worker[v]
      BY <1>5 DEF WorkerEnter, Goto, TypeOK, Threads
    <2>2. InHand' = InHand \ {w} /\ Dead' = Dead /\ w \in InHand
      BY <2>1 DEF InHand, Dead
    <2>3. Cardinality(InHand') = Cardinality(InHand) - 1 /\ Cardinality(InHand) > 0
      BY <2>2, CountFact DEF InHand
    <2>4. inFlight' = inFlight + 1 /\ queue' = queue
      BY <1>5 DEF WorkerEnter
    <2> QED
      BY <2>2, <2>3, <2>4 DEF Queue!Enter, InHand, Dead
  <1>6. ASSUME NEW w \in Workers, WorkerLeave(w) PROVE Queue!Leave
    <2>1. worker[w].pc = "leave" /\ worker'[w].pc = "recv" /\ \A v \in Workers \ {w} : worker'[v] = worker[v]
      BY <1>6, FreeFact DEF WorkerLeave, TypeOK
    <2>2. InHand' = InHand /\ Dead' = Dead /\ w \in MidRun
      BY <2>1 DEF InHand, Dead, MidRun
    <2>3. inFlight > 0 /\ inFlight' = inFlight - 1 /\ queue' = queue
      BY <1>6, <2>2, MidRunFact DEF WorkerLeave, InFlightExact
    <2> QED
      BY <2>2, <2>3 DEF Queue!Leave, InHand, Dead
  <1>7. ASSUME NEW w \in Workers, WorkerPanic(w) PROVE Queue!Panic
    <2>1. /\ worker[w].pc \in {"prepare", "put", "upsert"} /\ worker'[w].pc = "dead"
          /\ \A v \in Workers \ {w} : worker'[v] = worker[v]
      BY <1>7 DEF WorkerPanic, TypeOK, Thread
    <2>2. InHand' = InHand /\ Dead' = Dead \cup {w} /\ w \in MidRun /\ w \notin Dead
      BY <2>1 DEF InHand, Dead, MidRun
    <2>3. Cardinality(Dead') = Cardinality(Dead) + 1
      BY <2>2, CountFact DEF Dead
    <2>4. inFlight > 0 /\ inFlight' = inFlight - 1 /\ queue' = queue
      BY <1>7, <2>2, MidRunFact DEF WorkerPanic, InFlightExact
    <2> QED
      BY <2>2, <2>3, <2>4 DEF Queue!Panic, InHand, Dead
  <1>8. ASSUME NEW w \in Workers,
               WorkerPrepare(w) \/ WorkerHolds(w) \/ WorkerPut(w) \/ WorkerUpsert(w) \/ WorkerCleanup(w)
        PROVE  UNCHANGED Queue!qvars
    <2>1. /\ worker[w].pc \in {"prepare", "holds", "put", "upsert", "cleanup"}
          /\ UNCHANGED <<queue, inFlight>>
      BY <1>8 DEF WorkerPrepare, WorkerHolds, WorkerPut, WorkerUpsert, WorkerCleanup
    <2>2. \A v \in Workers \ {w} : worker'[v] = worker[v]
      BY <1>8, WorkerStepFact DEF WorkerStep
    <2>3. worker'[w].pc \in {"holds", "put", "upsert", "cleanup", "leave"}
      <3>1. worker[w] \in Threads
        BY DEF TypeOK
      <3>2. CASE WorkerPrepare(w) \/ WorkerHolds(w) \/ WorkerCleanup(w)
        BY <3>1, <3>2 DEF WorkerPrepare, WorkerHolds, WorkerCleanup, Goto, TypeOK, Threads
      <3>3. CASE WorkerPut(w)
        BY <3>1, <3>3 DEF WorkerPut, TypeOK, Threads
      <3>4. CASE WorkerUpsert(w)
        BY <3>1, <3>4 DEF WorkerUpsert, TypeOK, Threads
      <3> QED
        BY <1>8, <3>2, <3>3, <3>4
    <2>4. InHand' = InHand /\ Dead' = Dead
      BY <2>1, <2>2, <2>3 DEF InHand, Dead
    <2> QED
      BY <2>1, <2>4, QueueStutter
  <1>9. ASSUME NEW c \in Conns, NEW i \in Ids, SetInsert(c, i) \/ GetShadow(c, i) \/ DelShadow(c, i)
        PROVE  UNCHANGED Queue!qvars
    BY <1>1, <1>9 DEF SetInsert, GetShadow, DelShadow
  <1>10. CASE UNCHANGED vars
    BY <1>1, <1>10 DEF vars
  <1> QED
    BY <1>2, <1>3, <1>4, <1>5, <1>6, <1>7, <1>8, <1>9, <1>10 DEF Next, WorkerStep

\* The write-behind path implements the counts the supervisor relies on, for any
\* number of workers and any capacity: every step of the handlers and of the
\* worker threads is a step of the contract or leaves its counts alone
\* (writer.rs try_push, the worker loop, InFlightGuard).
THEOREM ImplementsQueueCorrect == Spec => ImplementsQueue
  <1>1. Init => Queue!QInit
    <2>1. Init => InHand = {} /\ Dead = {}
      BY FreeFact DEF Init, InHand, Dead
    <2> QED
      BY <2>1, FS_EmptySet DEF Init, Queue!QInit, InHand, Dead
  <1>2. TypeOK /\ InFlightExact /\ [Next]_vars => [Queue!QNext]_(Queue!qvars)
    BY QueueStep
  <1> QED
    BY <1>1, <1>2, TypeCorrect, PTL DEF Spec, ImplementsQueue, Queue!QSpec

-----------------------------------------------------------------------------
(* Every shadow is in flight *)

\* What carries a shadow, part by part.
InHandler(i, a) == \E c \in Conns : Unpushed(c) /\ conn[c].id = i /\ conn[c].arc = a
InQueue(i, a)   == \E n \in 1..Len(queue) : queue[n] = [id |-> i, arc |-> a]
InWorker(i, a)  ==
  \E w \in Workers : /\ worker[w].pc \in {"enter", "prepare", "holds", "put", "upsert", "cleanup"}
                     /\ worker[w].id = i
                     /\ worker[w].arc = a

LEMMA CarriedFact ==
  ASSUME TypeOK, NEW i, NEW a
  PROVE  Carried(i, a) <=> InHandler(i, a) \/ InQueue(i, a) \/ InWorker(i, a)
  <1>1. DOMAIN queue = 1..Len(queue)
    BY DEF TypeOK
  <1> QED
    BY <1>1 DEF Carried, InHandler, InQueue, InWorker, Unpushed

\* A step that keeps what carries every shadow it does not drop or leak.
LEMMA CarriersKept ==
  ASSUME TypeOK, TypeOK', ShadowInFlight,
         \A i \in Ids : pending'[i] \in {pending[i], NoArc},
         leaked \subseteq leaked',
         \A i \in Ids, a \in Arcs : pending'[i] = a /\ pending[i] = a =>
           /\ InHandler(i, a) => InHandler(i, a)' \/ InQueue(i, a)'
           /\ InQueue(i, a) => InQueue(i, a)' \/ InWorker(i, a)'
           /\ InWorker(i, a) => InWorker(i, a)' \/ a \in leaked'
  PROVE  ShadowInFlight'
  <1> SUFFICES ASSUME NEW i \in Ids, pending'[i] # NoArc, pending'[i] \notin leaked'
               PROVE  Carried(i, pending[i])'
    BY DEF ShadowInFlight
  <1>1. PICK a \in Arcs : a = pending[i] /\ a = pending'[i]
    BY DEF TypeOK
  <1>2. InHandler(i, a) \/ InQueue(i, a) \/ InWorker(i, a)
    BY <1>1, CarriedFact DEF ShadowInFlight
  <1>3. InHandler(i, a)' \/ InQueue(i, a)' \/ InWorker(i, a)'
    BY <1>1, <1>2
  <1>4. Carried(i, a)'
    BY <1>3, CarriedFact DEF Carried, InHandler, InQueue, InWorker, Unpushed, TypeOK
  <1> QED
    BY <1>1, <1>4 DEF Carried

\* A worker's step keeps its job, drops the job's shadow or leaks it.
LEMMA WorkerShadow ==
  ASSUME TypeOK, TypeOK', ShadowInFlight, NEW w \in Workers, WorkerStep(w)
  PROVE  ShadowInFlight'
  <1>0. /\ \A v \in Workers : v # w => worker'[v] = worker[v]
        /\ conn' = conn /\ worker[w] \in Threads
        /\ leaked \subseteq leaked'
    BY WorkerStepFact
    DEF TypeOK, WorkerStep, WorkerRecv, WorkerEnter, WorkerPrepare, WorkerHolds, WorkerPut,
        WorkerUpsert, WorkerCleanup, WorkerLeave, WorkerPanic, ghosts
  <1>1. CASE WorkerRecv(w)
    <2>1. /\ queue' = Tail(queue) /\ queue # <<>> /\ queue \in Seq(Jobs) /\ pending' = pending
          /\ worker[w].pc = "recv"
          /\ worker'[w].pc = "enter" /\ worker'[w].id = Head(queue).id /\ worker'[w].arc = Head(queue).arc
      BY <1>1 DEF WorkerRecv, TypeOK, Thread
    <2>2. \A n \in 1..Len(queue) : \/ n = 1 /\ queue[n] = Head(queue)
                                   \/ n - 1 \in 1..Len(queue') /\ queue'[n - 1] = queue[n]
      BY <2>1
    <2>3. ASSUME NEW i \in Ids, NEW a \in Arcs
          PROVE  /\ InHandler(i, a) => InHandler(i, a)'
                 /\ InQueue(i, a) => InQueue(i, a)' \/ InWorker(i, a)'
                 /\ InWorker(i, a) => InWorker(i, a)'
      <3>1. InHandler(i, a) => InHandler(i, a)'
        BY <1>0 DEF InHandler, Unpushed
      <3>2. InWorker(i, a) => InWorker(i, a)'
        BY <1>0, <2>1 DEF InWorker
      <3>3. InQueue(i, a) => InQueue(i, a)' \/ InWorker(i, a)'
        <4> SUFFICES ASSUME InQueue(i, a) PROVE InQueue(i, a)' \/ InWorker(i, a)'
          OBVIOUS
        <4>1. PICK n \in 1..Len(queue) : queue[n] = [id |-> i, arc |-> a]
          BY DEF InQueue
        <4>2. CASE n = 1
          <5>1. Head(queue).id = i /\ Head(queue).arc = a
            BY <2>1, <4>1, <4>2
          <5> QED
            BY <2>1, <5>1 DEF InWorker
        <4>3. CASE n # 1
          BY <2>2, <4>1, <4>3 DEF InQueue
        <4> QED
          BY <4>2, <4>3
      <3> QED
        BY <3>1, <3>2, <3>3
    <2> QED
      BY <1>0, <2>1, <2>3, CarriersKept
  <1>2. CASE ~WorkerRecv(w)
    <2>1. queue' = queue
      BY <1>2, WorkerStepFact
    <2>2. ASSUME NEW i \in Ids, NEW a \in Arcs
          PROVE  (InHandler(i, a) => InHandler(i, a)') /\ (InQueue(i, a) => InQueue(i, a)')
      BY <1>0, <2>1 DEF InHandler, InQueue, Unpushed
    <2>3. \A i \in Ids : pending'[i] \in {pending[i], NoArc}
      BY <1>2 DEF WorkerStep, WorkerEnter, WorkerPrepare, WorkerHolds, WorkerPut, WorkerUpsert,
         WorkerCleanup, WorkerLeave, WorkerPanic, RemoveIf, TypeOK
    <2>4. \/ worker[w].pc = "leave"
          \/ worker[w].arc \in leaked'
          \/ worker[w].pc \in WorkerStates \ {"recv", "dead"} /\ pending'[worker[w].id] # worker[w].arc
          \/ /\ worker'[w].pc \in {"enter", "prepare", "holds", "put", "upsert", "cleanup"}
             /\ worker'[w].id = worker[w].id /\ worker'[w].arc = worker[w].arc
      <3>1. CASE WorkerEnter(w)
        BY <1>0, <3>1 DEF WorkerEnter, Goto, TypeOK, Threads
      <3>2. CASE WorkerPrepare(w)
        BY <1>0, <3>2 DEF WorkerPrepare, Goto, TypeOK, Threads
      <3>3. CASE WorkerHolds(w)
        BY <1>0, <3>3 DEF WorkerHolds, Goto, TypeOK, Threads, WorkerStates
      <3>4. CASE WorkerPut(w)
        BY <1>0, <3>4 DEF WorkerPut, TypeOK, Threads
      <3>5. CASE WorkerUpsert(w)
        BY <1>0, <3>5 DEF WorkerUpsert, TypeOK, Threads
      <3>6. CASE WorkerCleanup(w)
        <4>1. worker[w].id \in Ids /\ worker[w].arc \in Arcs
          BY <3>6, RunningFact DEF WorkerCleanup
        <4> QED
          BY <3>6, <4>1, ArcFact DEF WorkerCleanup, RemoveIf, TypeOK, WorkerStates
      <3>7. CASE WorkerLeave(w)
        BY <3>7 DEF WorkerLeave
      <3>8. CASE WorkerPanic(w)
        BY <3>8 DEF WorkerPanic
      <3> QED
        BY <1>2, <3>1, <3>2, <3>3, <3>4, <3>5, <3>6, <3>7, <3>8 DEF WorkerStep
    <2>5. ASSUME NEW i \in Ids, NEW a \in Arcs, pending'[i] = a, InWorker(i, a)
          PROVE  InWorker(i, a)' \/ a \in leaked'
      <3>1. PICK v \in Workers :
              /\ worker[v].pc \in {"enter", "prepare", "holds", "put", "upsert", "cleanup"}
              /\ worker[v].id = i /\ worker[v].arc = a
        BY <2>5 DEF InWorker
      <3>2. CASE v # w
        BY <1>0, <3>1, <3>2 DEF InWorker
      <3>3. CASE v = w
        BY <2>4, <2>5, <3>1, <3>3 DEF InWorker
      <3> QED
        BY <3>2, <3>3
    <2> QED
      BY <1>0, <2>2, <2>3, <2>5, CarriersKept
  <1> QED
    BY <1>1, <1>2

LEMMA NextShadow ==
  ASSUME TypeOK, TypeOK', ShadowInFlight, [Next]_vars
  PROVE  ShadowInFlight'
  <1>1. ASSUME NEW c \in Conns, NEW i \in Ids, SetInsert(c, i)
        PROVE  ShadowInFlight'
    <2>1. /\ pending' = [pending EXCEPT ![i] = issued + 1]
          /\ conn[c].pc = "idle" /\ conn'[c] = Handler("push", i, issued + 1, FALSE)
          /\ \A d \in Conns : d # c => conn'[d] = conn[d]
          /\ UNCHANGED <<queue, worker, leaked>>
      BY <1>1 DEF SetInsert, TypeOK
    <2>2. ASSUME NEW j \in Ids, pending'[j] # NoArc, pending'[j] \notin leaked'
          PROVE  Carried(j, pending[j])'
      <3>1. CASE j = i
        <4>1. pending'[i] = issued + 1
          BY <2>1 DEF TypeOK
        <4> QED
          BY <2>1, <3>1, <4>1 DEF Carried, Handler
      <3>2. CASE j # i
        <4>1. PICK a : a = pending[j] /\ a = pending'[j]
          BY <2>1, <3>2 DEF TypeOK
        <4>2. Carried(j, a)
          <5>1. leaked' = leaked
            BY <2>1
          <5>2. pending[j] # NoArc /\ pending[j] \notin leaked
            BY <2>2, <4>1, <5>1
          <5> QED
            BY <4>1, <5>2 DEF ShadowInFlight
        <4>3. Carried(j, a)'
          BY <2>1, <4>2 DEF Carried
        <4> QED
          BY <4>1, <4>3 DEF Carried
      <3> QED
        BY <3>1, <3>2
    <2> QED
      BY <2>2 DEF ShadowInFlight
  <1>2. ASSUME NEW c \in Conns, ~Unpushed(c), \A d \in Conns : d # c => conn'[d] = conn[d],
               UNCHANGED <<queue, worker, leaked>>, \A i \in Ids : pending'[i] \in {pending[i], NoArc}
        PROVE  ShadowInFlight'
    <2>1. ASSUME NEW i \in Ids, NEW a \in Arcs
          PROVE  /\ InHandler(i, a) => InHandler(i, a)'
                 /\ InQueue(i, a) => InQueue(i, a)'
                 /\ InWorker(i, a) => InWorker(i, a)'
      BY <1>2 DEF InHandler, InQueue, InWorker, Unpushed
    <2> QED
      BY <1>2, <2>1, CarriersKept
  <1>3. ASSUME NEW c \in Conns, NEW i \in Ids, GetShadow(c, i) \/ DelShadow(c, i)
        PROVE  ShadowInFlight'
    <2>1. ~Unpushed(c) /\ \A d \in Conns : d # c => conn'[d] = conn[d]
      BY <1>3 DEF GetShadow, DelShadow, Unpushed, TypeOK
    <2>2. UNCHANGED <<queue, worker, leaked>> /\ \A j \in Ids : pending'[j] \in {pending[j], NoArc}
      BY <1>3 DEF GetShadow, DelShadow, TypeOK
    <2> QED
      BY <1>2, <2>1, <2>2
  <1>4. ASSUME NEW c \in Conns, GetFind(c) \/ GetFetch(c) \/ LookupFail(c) \/ DelFind(c) \/ DelVector(c)
                                \/ DelObject(c)
        PROVE  ShadowInFlight'
    <2>1. ~Unpushed(c) /\ UNCHANGED <<pending, leaked>>
      BY <1>4 DEF GetFind, GetFetch, LookupFail, DelFind, DelVector, DelObject, Unpushed
    <2>2. /\ \A d \in Conns : d # c => conn'[d] = conn[d]
          /\ UNCHANGED <<queue, worker>>
      BY <1>4, <2>1, HandlerStepFact DEF HandlerStep, SetStep, SetPush, Unpushed
    <2> QED
      BY <1>2, <2>1, <2>2
  <1>5. ASSUME NEW c \in Conns, SetPush(c) PROVE ShadowInFlight'
    <2>1. /\ queue \in Seq(Jobs) /\ queue' = Append(queue, [id |-> conn[c].id, arc |-> conn[c].arc])
          /\ \A d \in Conns : d # c => conn'[d] = conn[d]
          /\ UNCHANGED <<pending, worker, leaked>>
      BY <1>5 DEF SetPush, Reply, TypeOK
    <2>2. ASSUME NEW i \in Ids, NEW a \in Arcs
          PROVE  /\ InHandler(i, a) => InHandler(i, a)' \/ InQueue(i, a)'
                 /\ InQueue(i, a) => InQueue(i, a)'
                 /\ InWorker(i, a) => InWorker(i, a)'
      <3>1. InWorker(i, a) => InWorker(i, a)'
        BY <2>1 DEF InWorker
      <3>2. InQueue(i, a) => InQueue(i, a)'
        BY <2>1 DEF InQueue
      <3>3. Len(queue) + 1 \in 1..Len(queue') /\ queue'[Len(queue) + 1] = [id |-> conn[c].id, arc |-> conn[c].arc]
        BY <2>1
      <3>4. InHandler(i, a) => InHandler(i, a)' \/ InQueue(i, a)'
        BY <2>1, <3>3 DEF InHandler, InQueue, Unpushed
      <3> QED
        BY <3>1, <3>2, <3>4
    <2> QED
      BY <2>1, <2>2, CarriersKept
  <1>6. ASSUME NEW c \in Conns, SetReject(c) PROVE ShadowInFlight'
    <2>1. /\ Unpushed(c)' /\ conn'[c].id = conn[c].id /\ conn'[c].arc = conn[c].arc
          /\ \A d \in Conns : d # c => conn'[d] = conn[d]
          /\ UNCHANGED <<pending, queue, worker, leaked>>
      BY <1>6 DEF SetReject, TypeOK, Unpushed, Handlers, ghosts
    <2>2. ASSUME NEW i \in Ids, NEW a \in Arcs
          PROVE  /\ InHandler(i, a) => InHandler(i, a)'
                 /\ InQueue(i, a) => InQueue(i, a)'
                 /\ InWorker(i, a) => InWorker(i, a)'
      BY <2>1 DEF InHandler, InQueue, InWorker, Unpushed
    <2> QED
      BY <2>1, <2>2, CarriersKept
  <1>7. ASSUME NEW c \in Conns, SetUndo(c) PROVE ShadowInFlight'
    <2>1. conn[c].id \in Ids /\ conn[c].arc \in Arcs
      BY <1>7, HandlerFact DEF SetUndo, TypeOK
    <2>2. /\ \A d \in Conns : d # c => conn'[d] = conn[d]
          /\ UNCHANGED <<queue, worker, leaked>>
          /\ \A i \in Ids : pending'[i] \in {pending[i], NoArc}
          /\ pending'[conn[c].id] # conn[c].arc
      BY <1>7, <2>1, ArcFact DEF SetUndo, Reply, RemoveIf, TypeOK
    <2>3. ASSUME NEW i \in Ids, NEW a \in Arcs, pending'[i] = a
          PROVE  /\ InHandler(i, a) => InHandler(i, a)'
                 /\ InQueue(i, a) => InQueue(i, a)'
                 /\ InWorker(i, a) => InWorker(i, a)'
      BY <2>2, <2>3 DEF InHandler, InQueue, InWorker, Unpushed
    <2> QED
      BY <2>2, <2>3, CarriersKept
  <1>8. CASE UNCHANGED vars
    BY <1>8 DEF vars, ShadowInFlight, Carried
  <1> QED
    BY <1>1, <1>3, <1>4, <1>5, <1>6, <1>7, <1>8, WorkerShadow DEF Next, HandlerStep, SetStep

\* What remains of "the buffer only ever holds in-flight writes"
\* (PendingWrites), for any number of connections and workers and whatever
\* fails: a shadow that neither a handler that has not replied, nor the queue,
\* nor a worker carries is one a failed preparation or a panic left behind
\* (WriteJob::run).
THEOREM ShadowInFlightCorrect == Spec => []ShadowInFlight
  <1>1. Init => ShadowInFlight
    BY DEF Init, ShadowInFlight
  <1>2. TypeOK /\ TypeOK' /\ ShadowInFlight /\ [Next]_vars => ShadowInFlight'
    BY NextShadow
  <1> QED
    BY <1>1, <1>2, TypeCorrect, PTL DEF Spec


-----------------------------------------------------------------------------
(* The newest acknowledged Set is what is stored *)

\* A shadow that is not the acknowledged write belongs to a Set that has not
\* been pushed.
AckedCurrent ==
  \A i \in Ids : pending[i] # NoArc /\ acked[i] # NoArc /\ acked[i] # pending[i]
    => InHandler(i, pending[i])

\* A worker about to put an entry that no newer Set has raced still has the
\* entry's shadow, unless a Del has taken the shadow and the acknowledgement.
PutShadowed ==
  \A w \in Workers :
    LET i == worker[w].id IN
    worker[w].pc = "put" /\ i \notin raced =>
      pending[i] = worker[w].arc \/ (pending[i] = NoArc /\ acked[i] = NoArc)

\* A worker that has put an unraced entry, and whose shadow is still in place,
\* finds its own bytes in the object store.
CommitStored ==
  \A w \in Workers :
    LET i == worker[w].id IN
    /\ worker[w].pc = "upsert" \/ (worker[w].pc = "cleanup" /\ worker[w].ok)
    /\ pending[i] = worker[w].arc /\ i \notin raced /\ acked[i] # NoArc
    => objects[i] = worker[w].arc

UpdateInv == NewestStored /\ AckedCurrent /\ PutShadowed /\ CommitStored

\* What a handler's step does to an entry: nothing; it ends its
\* acknowledgement, with or without its shadow; or it drops its shadow only.
Untouched(i) ==
  /\ pending'[i] = pending[i] /\ objects'[i] = objects[i] /\ acked'[i] = acked[i]
  /\ i \in lost <=> i \in lost'
  /\ i \in raced <=> i \in raced'
Deleted(i) ==
  /\ acked'[i] = NoArc
  /\ pending'[i] = NoArc \/ (pending'[i] = pending[i] /\ (i \in raced <=> i \in raced'))
Undone(i) ==
  /\ pending'[i] = NoArc
  /\ i \in lost' \/ objects'[i] = acked'[i]
  /\ \A w \in Workers : worker[w].pc = "put" /\ worker[w].id = i => i \in raced'

\* The shadow's handler, in the next state, with the shadow as it was.
LEMMA HandlerKept ==
  ASSUME NEW c \in Conns, \A d \in Conns : d # c => conn'[d] = conn[d],
         NEW i, NEW a, InHandler(i, a), ~Unpushed(c) \/ conn[c].id # i \/ conn[c].arc # a
  PROVE  InHandler(i, a)'
  BY DEF InHandler, Unpushed

LEMMA HandlerUpdate ==
  ASSUME TypeOK, UpdateInv, worker' = worker,
         \A i \in Ids : Untouched(i) \/ Deleted(i) \/ Undone(i),
         \A i \in Ids, a \in Arcs : pending'[i] = a /\ InHandler(i, a) => InHandler(i, a)'
  PROVE  UpdateInv'
  <1>1. NewestStored'
    BY DEF UpdateInv, NewestStored, Held, Untouched, Deleted, Undone
  <1>2. AckedCurrent'
    <2> SUFFICES ASSUME NEW i \in Ids, pending'[i] # NoArc, acked'[i] # NoArc, acked'[i] # pending'[i]
                 PROVE  InHandler(i, pending[i])'
      BY DEF AckedCurrent
    <2>1. PICK a \in Arcs : a = pending[i] /\ a = pending'[i] /\ acked[i] # NoArc /\ acked[i] # a
      BY DEF TypeOK, Untouched, Deleted, Undone
    <2>2. InHandler(i, a)'
      BY <2>1, ArcFact DEF UpdateInv, AckedCurrent
    <2> QED
      BY <2>1, <2>2 DEF InHandler
  <1>3. \A w \in Workers : worker[w].pc \in {"put", "upsert", "cleanup"} =>
          worker[w].id \in Ids /\ worker[w].arc # NoArc
    BY RunningFact, ArcFact
  <1>4. PutShadowed'
    BY <1>3 DEF UpdateInv, PutShadowed, Untouched, Deleted, Undone
  <1>5. CommitStored'
    BY <1>3 DEF UpdateInv, CommitStored, Untouched, Deleted, Undone
  <1> QED
    BY <1>1, <1>2, <1>4, <1>5 DEF UpdateInv

\* A Set that arrives while a worker is about to put marks the entry as raced;
\* any other Set has a shadow no worker has.
LEMMA SetInsertUpdate ==
  ASSUME TypeOK, ArcsDistinct, UpdateInv, NEW c \in Conns, NEW i \in Ids, SetInsert(c, i)
  PROVE  UpdateInv'
  <1>1. /\ pending'[i] = issued + 1 /\ \A j \in Ids : j # i => pending'[j] = pending[j]
        /\ ~Unpushed(c) /\ conn'[c] = Handler("push", i, issued + 1, FALSE)
        /\ \A d \in Conns : d # c => conn'[d] = conn[d]
        /\ UNCHANGED <<worker, objects, acked, lost>>
        /\ raced' = IF Putting(i) THEN raced \cup {i} ELSE raced \ {i}
        /\ issued \in Nat
    BY DEF SetInsert, TypeOK, store, Unpushed
  <1>2. \A w \in Workers : worker[w].pc \in {"put", "upsert", "cleanup"} =>
          worker[w].id \in Ids /\ worker[w].arc # issued + 1
    <2>1. \A w \in Workers : Busy(w) => worker[w].arc \in Nat /\ worker[w].arc <= issued
      BY ThreadFact DEF TypeOK, ArcsDistinct, Busy, Arcs
    <2> QED
      BY <1>1, <2>1, RunningFact DEF Busy
  <1>3. NewestStored'
    BY <1>1 DEF UpdateInv, NewestStored, Held, NoArc
  <1>4. AckedCurrent'
    <2> SUFFICES ASSUME NEW j \in Ids, pending'[j] # NoArc, acked'[j] # NoArc, acked'[j] # pending'[j]
                 PROVE  InHandler(j, pending[j])'
      BY DEF AckedCurrent
    <2>1. CASE j = i
      BY <1>1, <2>1 DEF InHandler, Unpushed, Handler
    <2>2. CASE j # i
      <3>1. PICK a : a = pending[j] /\ a = pending'[j]
        BY <1>1, <2>2
      <3>2. InHandler(j, a)
        BY <1>1, <3>1 DEF UpdateInv, AckedCurrent
      <3>3. InHandler(j, a)'
        BY <1>1, <3>2, HandlerKept
      <3> QED
        BY <3>1, <3>3 DEF InHandler
    <2> QED
      BY <2>1, <2>2
  <1>5. PutShadowed'
    BY <1>1, <1>2 DEF UpdateInv, PutShadowed, Putting
  <1>6. CommitStored'
    BY <1>1, <1>2 DEF UpdateInv, CommitStored
  <1> QED
    BY <1>3, <1>4, <1>5, <1>6 DEF UpdateInv

LEMMA SetPushUpdate ==
  ASSUME TypeOK, ArcsDistinct, UpdateInv, NEW c \in Conns, SetPush(c)
  PROVE  UpdateInv'
  <1> DEFINE i == conn[c].id
             a == conn[c].arc
  <1>1. i \in Ids /\ a \in Arcs /\ a # NoArc /\ Unpushed(c)
    BY HandlerFact, ArcFact DEF SetPush, TypeOK, Unpushed
  <1>2. /\ \A d \in Conns : d # c => conn'[d] = conn[d]
        /\ UNCHANGED <<worker, objects, pending, raced>>
        /\ Acknowledge(i, a)
    BY DEF SetPush, Reply, TypeOK, store
  <1>3. CASE pending[i] # a
    <2>1. ASSUME NEW j \in Ids, NEW b \in Arcs, pending'[j] = b, InHandler(j, b) PROVE InHandler(j, b)'
      BY <1>2, <1>3, <2>1, HandlerKept
    <2>2. \A j \in Ids : Untouched(j)
      BY <1>2, <1>3 DEF Acknowledge, Untouched
    <2> QED
      BY <1>2, <2>1, <2>2, HandlerUpdate
  <1>4. CASE pending[i] = a
    <2>1. /\ acked'[i] = a /\ \A j \in Ids : j # i => acked'[j] = acked[j]
          /\ \A j \in Ids : j # i => (j \in lost <=> j \in lost')
      BY <1>1, <1>2, <1>4 DEF Acknowledge, TypeOK
    <2>2. \A w \in Workers : worker[w].pc \in {"put", "upsert", "cleanup"} =>
            worker[w].id \in Ids /\ worker[w].arc # a
      BY <1>1, RunningFact DEF ArcsDistinct, Busy
    <2>3. NewestStored'
      BY <1>1, <1>2, <1>4, <2>1 DEF UpdateInv, NewestStored, Held
    <2>4. AckedCurrent'
      <3> SUFFICES ASSUME NEW j \in Ids, pending'[j] # NoArc, acked'[j] # NoArc, acked'[j] # pending'[j]
                   PROVE  InHandler(j, pending[j])'
        BY DEF AckedCurrent
      <3>1. j # i
        BY <1>2, <1>4, <2>1
      <3>2. PICK b : b = pending[j] /\ b = pending'[j]
        BY <1>2
      <3>3. InHandler(j, b)
        BY <2>1, <3>1, <3>2 DEF UpdateInv, AckedCurrent
      <3>4. InHandler(j, b)'
        BY <1>2, <3>1, <3>3, HandlerKept
      <3> QED
        BY <3>2, <3>4 DEF InHandler
    <2>5. PutShadowed'
      BY <1>1, <1>2, <1>4, <2>1, <2>2 DEF UpdateInv, PutShadowed
    <2>6. CommitStored'
      BY <1>2, <1>4, <2>1, <2>2 DEF UpdateInv, CommitStored
    <2> QED
      BY <2>3, <2>4, <2>5, <2>6 DEF UpdateInv
  <1> QED
    BY <1>3, <1>4

\* The other handler steps.
LEMMA OtherUpdate ==
  ASSUME TypeOK, ArcsDistinct, UpdateInv, NEW c \in Conns,
         \/ \E i \in Ids : GetShadow(c, i) \/ DelShadow(c, i)
         \/ HandlerStep(c) /\ ~SetPush(c)
  PROVE  UpdateInv'
  <1>1. ASSUME NEW i \in Ids, GetShadow(c, i) \/ DelShadow(c, i) PROVE UpdateInv'
    <2>1. /\ ~Unpushed(c) /\ \A d \in Conns : d # c => conn'[d] = conn[d]
          /\ UNCHANGED <<worker, objects>>
      BY <1>1 DEF GetShadow, DelShadow, Unpushed, TypeOK, store
    <2>2. \A j \in Ids : Untouched(j) \/ Deleted(j)
      BY <1>1, <2>1 DEF GetShadow, DelShadow, TypeOK, Untouched, Deleted
    <2>3. ASSUME NEW j \in Ids, NEW b \in Arcs, InHandler(j, b) PROVE InHandler(j, b)'
      BY <2>1, <2>3, HandlerKept
    <2> QED
      BY <2>1, <2>2, <2>3, HandlerUpdate
  <1>2. ASSUME SetReject(c) PROVE UpdateInv'
    <2>1. /\ Unpushed(c)' /\ conn'[c].id = conn[c].id /\ conn'[c].arc = conn[c].arc
          /\ \A d \in Conns : d # c => conn'[d] = conn[d]
          /\ UNCHANGED <<pending, worker, objects, acked, lost, raced>>
      BY <1>2 DEF SetReject, TypeOK, Unpushed, Handlers, store, ghosts
    <2>2. ASSUME NEW j \in Ids, NEW b \in Arcs, InHandler(j, b) PROVE InHandler(j, b)'
      BY <2>1, <2>2 DEF InHandler, Unpushed
    <2>3. \A j \in Ids : Untouched(j)
      BY <2>1 DEF Untouched
    <2> QED
      BY <2>1, <2>2, <2>3, HandlerUpdate
  <1>3. ASSUME SetUndo(c) PROVE UpdateInv'
    <2> DEFINE i == conn[c].id
               a == conn[c].arc
    <2>1. i \in Ids /\ a \in Arcs /\ a # NoArc /\ Unpushed(c)
      BY <1>3, HandlerFact, ArcFact DEF SetUndo, TypeOK, Unpushed
    <2>2. /\ \A d \in Conns : d # c => conn'[d] = conn[d]
          /\ UNCHANGED <<worker, objects, acked, raced>>
          /\ RemoveIf(i, a) /\ Lose(i, a)
      BY <1>3 DEF SetUndo, Reply, TypeOK, store
    <2>3. pending'[i] # a
      BY <2>1, <2>2 DEF RemoveIf, TypeOK
    <2>4. \A w \in Workers : worker[w].pc = "put" => worker[w].arc # a
      BY <2>1 DEF ArcsDistinct, Busy
    <2>5. \A j \in Ids : j # i \/ pending[i] # a => Untouched(j)
      BY <2>1, <2>2 DEF RemoveIf, Lose, Untouched, TypeOK
    <2>6. pending[i] = a => Undone(i)
      BY <2>1, <2>2, <2>4 DEF RemoveIf, Lose, Undone, UpdateInv, PutShadowed, TypeOK
    <2>7. ASSUME NEW j \in Ids, NEW b \in Arcs, pending'[j] = b, InHandler(j, b)
          PROVE  InHandler(j, b)'
      BY <2>2, <2>3, <2>7, HandlerKept
    <2> QED
      BY <2>2, <2>5, <2>6, <2>7, HandlerUpdate
  <1>4. ASSUME GetFind(c) \/ GetFetch(c) \/ LookupFail(c) \/ DelFind(c) \/ DelVector(c) \/ DelObject(c)
        PROVE  UpdateInv'
    <2>1. ~Unpushed(c) /\ UNCHANGED <<pending, lost, raced>>
      BY <1>4 DEF GetFind, GetFetch, LookupFail, DelFind, DelVector, DelObject, Unpushed
    <2>2. /\ \A d \in Conns : d # c => conn'[d] = conn[d]
          /\ worker' = worker
      BY <1>4, HandlerStepFact DEF HandlerStep
    <2>3. \A j \in Ids : /\ acked'[j] \in {acked[j], NoArc}
                         /\ acked'[j] # NoArc => objects'[j] = objects[j]
                         /\ objects'[j] = objects[j] \/ acked'[j] = NoArc
      BY <1>4 DEF GetFind, GetFetch, LookupFail, DelFind, DelVector, DelObject, TypeOK, store
    <2>4. \A j \in Ids : Untouched(j) \/ Deleted(j)
      BY <2>1, <2>3 DEF Untouched, Deleted
    <2>5. ASSUME NEW j \in Ids, NEW b \in Arcs, InHandler(j, b) PROVE InHandler(j, b)'
      BY <2>1, <2>2, <2>5, HandlerKept
    <2> QED
      BY <2>2, <2>4, <2>5, HandlerUpdate
  <1> QED
    BY <1>1, <1>2, <1>3, <1>4 DEF HandlerStep, SetStep

\* A worker's step, the others being wherever they are.
LEMMA WorkerUpdate ==
  ASSUME TypeOK, ArcsDistinct, UpdateInv, NEW w \in Workers, WorkerStep(w)
  PROVE  UpdateInv'
  <1> DEFINE i == worker[w].id
             a == worker[w].arc
  <1>0. /\ worker[w] \in Threads /\ worker \in [Workers -> Threads]
        /\ UNCHANGED <<conn, acked, raced>>
        /\ \A v \in Workers : v # w => worker'[v] = worker[v]
        /\ \A v \in Workers : worker[v].pc \notin {"recv", "dead"} =>
             worker[v].id \in Ids /\ worker[v].arc \in Arcs /\ worker[v].arc # NoArc
    BY WorkerStepFact, RunningFact, ArcFact DEF TypeOK
  <1>1. \A j, b : InHandler(j, b) => InHandler(j, b)'
    BY <1>0 DEF InHandler, Unpushed
  <1>2. ASSUME UNCHANGED pending PROVE AckedCurrent'
    BY <1>0, <1>1, <1>2 DEF UpdateInv, AckedCurrent, InHandler, Unpushed
  <1>3. ASSUME UNCHANGED <<pending, objects, lost>>, worker'[w].pc \notin {"put", "upsert", "cleanup"}
        PROVE  UpdateInv'
    <2>1. NewestStored'
      BY <1>0, <1>3 DEF UpdateInv, NewestStored, Held
    <2>2. PutShadowed' /\ CommitStored'
      BY <1>0, <1>3 DEF UpdateInv, PutShadowed, CommitStored
    <2> QED
      BY <1>2, <1>3, <2>1, <2>2 DEF UpdateInv
  <1>4. CASE WorkerRecv(w) \/ WorkerLeave(w) \/ WorkerPanic(w)
    <2>1. worker'[w].pc \notin {"put", "upsert", "cleanup"}
      BY <1>0, <1>4, FreeFact DEF WorkerRecv, WorkerLeave, WorkerPanic, Thread
    <2>2. UNCHANGED <<pending, objects, lost>>
      BY <1>4 DEF WorkerRecv, WorkerLeave, WorkerPanic, store, ghosts
    <2> QED
      BY <1>3, <2>1, <2>2
  <1>5. CASE WorkerEnter(w) \/ WorkerPrepare(w)
    <2>1. worker'[w].pc \notin {"put", "upsert", "cleanup"}
      BY <1>0, <1>5 DEF WorkerEnter, WorkerPrepare, Goto, Threads
    <2>2. UNCHANGED <<pending, objects, lost>>
      BY <1>5 DEF WorkerEnter, WorkerPrepare, store, ghosts
    <2> QED
      BY <1>3, <2>1, <2>2
  <1>6. CASE WorkerHolds(w)
    <2>1. /\ worker'[w].pc = IF pending[i] = a THEN "put" ELSE "leave"
          /\ worker'[w].id = i /\ worker'[w].arc = a
          /\ UNCHANGED <<pending, objects, lost>>
      BY <1>0, <1>6 DEF WorkerHolds, Goto, Threads, store, ghosts
    <2>2. NewestStored'
      BY <1>0, <2>1 DEF UpdateInv, NewestStored, Held
    <2>3. PutShadowed' /\ CommitStored'
      BY <1>0, <2>1 DEF UpdateInv, PutShadowed, CommitStored
    <2> QED
      BY <1>2, <2>1, <2>2, <2>3 DEF UpdateInv
  <1>7. CASE WorkerPut(w)
    <2>1. PICK outcome \in Outcomes("commit") :
            /\ objects' = IF outcome = "refused" THEN objects
                          ELSE [objects EXCEPT ![worker[w].id] = worker[w].arc]
            /\ worker' = [worker EXCEPT ![w].pc = IF outcome = "ok" THEN "upsert" ELSE "cleanup",
                                        ![w].ok = outcome = "ok"]
      BY <1>7 DEF WorkerPut
    <2>2. /\ worker[w].pc = "put" /\ i \in Ids /\ a \in Arcs /\ a # NoArc
          /\ UNCHANGED <<pending, lost>>
      BY <1>0, <1>7 DEF WorkerPut, ghosts
    <2>3. /\ worker'[w].id = i /\ worker'[w].arc = a
          /\ worker'[w].pc \in {"upsert", "cleanup"}
          /\ worker'[w].pc = "upsert" => outcome = "ok"
          /\ worker'[w].ok => outcome = "ok"
      BY <1>0, <2>1 DEF Threads
    <2>4. /\ \A j \in Ids : j # i => objects'[j] = objects[j]
          /\ outcome = "ok" => objects'[i] = a
      BY <2>1, <2>2 DEF TypeOK
    <2>5. i \notin raced => pending[i] = a \/ (pending[i] = NoArc /\ acked[i] = NoArc)
      BY <2>2 DEF UpdateInv, PutShadowed
    <2>6. NewestStored'
      BY <1>0, <2>2, <2>4, <2>5 DEF UpdateInv, NewestStored, Held
    <2>7. PutShadowed'
      BY <1>0, <2>2, <2>3 DEF UpdateInv, PutShadowed
    <2>8. \A v \in Workers : v # w /\ worker[v].pc \in {"upsert", "cleanup"} => worker[v].arc # a
      BY <2>2 DEF ArcsDistinct, Busy
    <2>9. CommitStored'
      BY <1>0, <2>2, <2>3, <2>4, <2>5, <2>8 DEF UpdateInv, CommitStored
    <2> QED
      BY <1>2, <2>2, <2>6, <2>7, <2>9 DEF UpdateInv
  <1>8. CASE WorkerUpsert(w)
    <2>1. /\ worker[w].pc = "upsert" /\ UNCHANGED <<pending, objects, lost>>
          /\ worker'[w].pc = "cleanup" /\ worker'[w].id = i /\ worker'[w].arc = a
      BY <1>0, <1>8 DEF WorkerUpsert, Threads, ghosts
    <2>2. NewestStored'
      BY <1>0, <2>1 DEF UpdateInv, NewestStored, Held
    <2>3. PutShadowed'
      BY <1>0, <2>1 DEF UpdateInv, PutShadowed
    <2>4. CommitStored'
      BY <1>0, <2>1 DEF UpdateInv, CommitStored
    <2> QED
      BY <1>2, <2>1, <2>2, <2>3, <2>4 DEF UpdateInv
  <1>9. CASE WorkerCleanup(w)
    <2>1. /\ worker[w].pc = "cleanup" /\ worker'[w].pc = "leave" /\ objects' = objects
          /\ i \in Ids /\ a \in Arcs /\ a # NoArc
      BY <1>0, <1>9 DEF WorkerCleanup, Goto, Threads, store
    <2>2. CASE pending[i] # a
      <3>1. UNCHANGED <<pending, lost>>
        BY <1>9, <2>2 DEF WorkerCleanup, RemoveIf, Lose
      <3> QED
        BY <1>3, <2>1, <3>1
    <2>3. CASE pending[i] = a
      <3>1. /\ pending'[i] = NoArc /\ \A j \in Ids : j # i => pending'[j] = pending[j]
            /\ \A j \in Ids : j # i => (j \in lost <=> j \in lost')
            /\ i \in lost' \/ worker[w].ok \/ objects[i] = acked[i]
        BY <1>9, <2>1, <2>3 DEF WorkerCleanup, RemoveIf, Lose, TypeOK
      <3>2. ~InHandler(i, a)
        BY <2>1 DEF InHandler, ArcsDistinct, Busy
      <3>3. acked[i] # NoArc => acked[i] = a
        BY <2>1, <2>3, <3>2 DEF UpdateInv, AckedCurrent
      <3>4. worker[w].ok /\ i \notin raced /\ acked[i] # NoArc => objects[i] = a
        BY <2>1, <2>3 DEF UpdateInv, CommitStored
      <3>5. NewestStored'
        BY <1>0, <2>1, <3>1, <3>3, <3>4 DEF UpdateInv, NewestStored, Held
      <3>6. AckedCurrent'
        <4> SUFFICES ASSUME NEW j \in Ids, pending'[j] # NoArc, acked'[j] # NoArc, acked'[j] # pending'[j]
                     PROVE  InHandler(j, pending[j])'
          BY DEF AckedCurrent
        <4>1. PICK b : b = pending[j] /\ b = pending'[j] /\ acked'[j] = acked[j]
          BY <1>0, <3>1
        <4>2. InHandler(j, b)'
          BY <1>1, <4>1 DEF UpdateInv, AckedCurrent
        <4> QED
          BY <4>1, <4>2 DEF InHandler
      <3>7. \A v \in Workers : v # w /\ worker[v].pc = "put" => worker[v].arc # a
        BY <2>1 DEF ArcsDistinct, Busy
      <3>8. PutShadowed'
        BY <1>0, <2>1, <2>3, <3>1, <3>7 DEF UpdateInv, PutShadowed
      <3>9. CommitStored'
        BY <1>0, <2>1, <3>1 DEF UpdateInv, CommitStored
      <3> QED
        BY <3>5, <3>6, <3>8, <3>9 DEF UpdateInv
    <2> QED
      BY <2>2, <2>3
  <1> QED
    BY <1>4, <1>5, <1>6, <1>7, <1>8, <1>9 DEF WorkerStep

\* What remains of "with no lost update" (WriteJob::run), for any number of
\* workers, whichever calls fail or panic and whatever Dels run beside it: an
\* acknowledged Set whose shadow went in while no worker stood between its
\* `holds` check and its put of the same entry is what the object store has
\* once the shadow is gone.
THEOREM NewestStoredCorrect == Spec => []NewestStored
  <1>1. Init => ArcsDistinct /\ UpdateInv
    BY InitArcs, FreeFact DEF Init, UpdateInv, NewestStored, Held, AckedCurrent, PutShadowed, CommitStored
  <1>2. TypeOK /\ ArcsDistinct /\ UpdateInv /\ [Next]_vars => UpdateInv'
    <2>1. ASSUME TypeOK, UpdateInv, UNCHANGED vars PROVE UpdateInv'
      BY <2>1 DEF vars, UpdateInv, NewestStored, Held, AckedCurrent, PutShadowed, CommitStored, InHandler,
         Unpushed
    <2> QED
      BY <2>1, SetInsertUpdate, SetPushUpdate, OtherUpdate, WorkerUpdate DEF Next
  <1>3. TypeOK /\ ArcsDistinct /\ [Next]_vars => ArcsDistinct'
    BY NextArcs
  <1>4. UpdateInv => NewestStored
    BY DEF UpdateInv
  <1> QED
    BY <1>1, <1>2, <1>3, <1>4, TypeCorrect, PTL DEF Spec
=============================================================================
