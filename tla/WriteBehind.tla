---------------------------- MODULE WriteBehind ----------------------------
(***************************************************************************)
(* The write-behind path of the daemon: connection tasks serving Set, Get  *)
(* and Del (src/src/daemon/conn.rs), the pending shadow                    *)
(* (src/src/daemon/state.rs), the bounded queue and its worker threads     *)
(* (src/src/daemon/writer.rs), and the two backend calls each half of a    *)
(* cache operation makes (src/src/cache.rs).                               *)
(*                                                                         *)
(* One step is one atomic access to shared state: a call that takes the    *)
(* pending mutex, a channel operation, the atomic counter, or one backend  *)
(* call.  The tokio runtime is multi-threaded and the workers and the      *)
(* inference pool are threads, so any two of those interleave.             *)
(*                                                                         *)
(* Abstractions.  An element of Ids is a (namespace, entry id) pair, and a *)
(* request for it is the (query, keys, context) it is derived from.  A     *)
(* value is the allocation that carries it, numbered in the order          *)
(* `Arc::from` makes them, so `Arc::ptr_eq` is equality of numbers.  What  *)
(* entity extraction, embedding, vector search and scoring make of a       *)
(* request is the constant Score.                                          *)
(***************************************************************************)
EXTENDS Naturals, Sequences, FiniteSets

CONSTANTS
  Ids,        \* the entries requests are about
  NoId,       \* no entry
  Score,      \* Score[i][j]: rank of stored entry j for a query of i, 0 if rejected
  Conns,      \* connection tasks
  Workers,    \* write-behind worker threads
  Capacity,   \* bound of the channel
  Faults,     \* which calls may fail: "prepare", "commit", "lookup", "delete", "panic"
  Requests,   \* which requests clients send: "set", "get", "del"
  MaxSets     \* bound on the number of Sets handled

ASSUME WriteBehindAssumption ==
  /\ NoId \notin Ids
  /\ Score \in [Ids -> [Ids -> Nat]]
  /\ Capacity \in Nat \ {0}
  /\ MaxSets \in Nat
  /\ IsFiniteSet(Workers)

VARIABLES
  pending,    \* PendingWrites.entries: the shadow of each entry, NoArc if none
  queue,      \* the channel: jobs, oldest first
  worker,     \* each worker thread: where it is in its loop, and its job
  inFlight,   \* the in-flight counter
  objects,    \* the object store: the bytes under each entry, NoArc if none
  index,      \* the vector store: the entries it holds
  conn,       \* each connection task: where it is in its handler
  issued,     \* allocations made so far
  response,   \* the response the last step sent, if it sent one
  \* What the clients may rely on; read by the properties only.
  acked,      \* last acknowledged Set of each entry that no Del has undone
  lost,       \* entries whose acknowledged Set a failed commit, or the undo of
              \* a refused later Set, has dropped from the shadow unstored
  raced,      \* entries whose latest Set came while a worker was past its
              \* `holds` check of an older one and had yet to put it
  leaked,     \* allocations whose job ended before its `remove_if`
  known,      \* Gets and Dels of an entry that was held when they began and
              \* that no other request has deleted since
  quiet,      \* Dels that no write of their entry has raced
  erased      \* entries a quiet Del has removed, and no Set has named since

store  == <<objects, index>>
ghosts == <<acked, lost, raced, leaked, known, quiet, erased>>
vars   == <<pending, queue, worker, inFlight, objects, index, conn, issued,
            response, acked, lost, raced, leaked, known, quiet, erased>>

NoArc == 0
Arcs  == 1..MaxSets

Jobs == [id : Ids, arc : Arcs]

ConnStates ==
  {"idle", "push", "undo", "find", "fetch", "delFind", "delVector", "delObject"}

WorkerStates ==
  {"recv", "enter", "prepare", "holds", "put", "upsert", "cleanup", "leave", "dead"}

\* A handler: its entry, the allocation of a Set, the match of a Get or Del,
\* and a Del's `removed_pending`.
Handlers ==
  {h \in [pc : ConnStates, id : Ids \cup {NoId}, arc : Arcs \cup {NoArc},
          hit : Ids \cup {NoId}, removed : BOOLEAN] :
     /\ h.pc # "idle" => h.id \in Ids
     /\ h.pc \in {"push", "undo"} => h.arc \in Arcs
     /\ h.pc \in {"fetch", "delVector", "delObject"} => h.hit \in Ids}

\* A worker: its job, and whether the job's commit has succeeded so far.
Threads ==
  {t \in [pc : WorkerStates, id : Ids \cup {NoId}, arc : Arcs \cup {NoArc},
          ok : BOOLEAN] :
     t.pc \notin {"recv", "dead"} => t.id \in Ids /\ t.arc \in Arcs}

Responses == [kind : {"none", "accepted", "rejected", "value", "deleted",
                      "absent", "error"},
              id : Ids \cup {NoId}, hit : Ids \cup {NoId},
              val : Arcs \cup {NoArc}, known : BOOLEAN]

Handler(pc, i, a, removed) ==
  [pc |-> pc, id |-> i, arc |-> a, hit |-> NoId, removed |-> removed]

Thread(pc, i, a) == [pc |-> pc, id |-> i, arc |-> a, ok |-> TRUE]

Idle == Handler("idle", NoId, NoArc, FALSE)
Free == Thread("recv", NoId, NoArc)

Durable(i) == i \in index /\ objects[i] # NoArc

\* A client holds an acknowledgement of i that the daemon has not gone back on.
Held(i) == acked[i] # NoArc /\ i \notin lost

\* A query for i accepts i and ranks nothing above it.
SelfBest(i) == Score[i][i] > 0 /\ \A j \in Ids : Score[i][j] <= Score[i][i]

\* What `find_match` may answer for a query of i: an accepted entry of the
\* highest score (ties go to the store's iteration order), NoId if none.
Best(i) ==
  LET Accepted == {j \in index : Score[i][j] > 0}
  IN  IF Accepted = {} THEN {NoId}
      ELSE {j \in Accepted : \A k \in Accepted : Score[i][k] <= Score[i][j]}

\* How a backend call that may fail ends: it takes effect, it fails without
\* effect, or it takes effect and the caller still gets an error.
Outcomes(call) ==
  {"ok"} \cup (IF call \in Faults THEN {"refused", "garbled"} ELSE {})

NoResponse == [kind |-> "none", id |-> NoId, hit |-> NoId, val |-> NoArc,
               known |-> FALSE]

Silent == response' = NoResponse

Answer(c, kind, val) ==
  [kind |-> kind, id |-> conn[c].id, hit |-> conn[c].hit, val |-> val,
   known |-> c \in known]

Reply(c, kind, val) ==
  /\ response' = Answer(c, kind, val)
  /\ conn' = [conn EXCEPT ![c] = Idle]
  /\ known' = known \ {c}
  /\ quiet' = quiet \ {c}

Init ==
  /\ pending = [i \in Ids |-> NoArc]
  /\ queue = <<>>
  /\ worker = [w \in Workers |-> Free]
  /\ inFlight = 0
  /\ objects = [i \in Ids |-> NoArc]
  /\ index = {}
  /\ conn = [c \in Conns |-> Idle]
  /\ issued = 0
  /\ response = NoResponse
  /\ acked = [i \in Ids |-> NoArc]
  /\ lost = {}
  /\ raced = {}
  /\ leaked = {}
  /\ known = {}
  /\ quiet = {}
  /\ erased = {}

-----------------------------------------------------------------------------
(* PendingWrites *)

\* Mutant: `remove`, whichever allocation the shadow is.
RemoveAny(i, arc) == pending' = [pending EXCEPT ![i] = NoArc]

\* `remove_if`: drop the shadow of i if it is still this allocation.
RemoveIf(i, arc) ==
  pending' = IF pending[i] = arc THEN [pending EXCEPT ![i] = NoArc] ELSE pending

\* Dropping this allocation's shadow loses the acknowledged Set of i unless
\* the stores have it.
Lose(i, arc) ==
  lost' = IF pending[i] = arc /\ ~(Durable(i) /\ objects[i] = acked[i])
          THEN lost \cup {i} ELSE lost

-----------------------------------------------------------------------------
(* handle_set *)

\* A worker that is about to put bytes of i.
Putting(i) == \E w \in Workers : worker[w].pc = "put" /\ worker[w].id = i

\* `pending.insert`: the shadow precedes the job.
SetInsert(c, i) ==
  /\ "set" \in Requests
  /\ conn[c].pc = "idle"
  /\ issued < MaxSets
  /\ issued' = issued + 1
  /\ pending' = [pending EXCEPT ![i] = issued + 1]
  /\ conn' = [conn EXCEPT ![c] = Handler("push", i, issued + 1, FALSE)]
  /\ quiet' = quiet \ {d \in Conns : conn[d].id = i}
  /\ erased' = erased \ {i}
  /\ raced' = IF Putting(i) THEN raced \cup {i} ELSE raced \ {i}
  /\ Silent
  /\ UNCHANGED <<queue, worker, inFlight, store, acked, lost, leaked, known>>

\* The Set is the entry's current one unless another request has replaced or
\* dropped its shadow already; a Set overtaken so is never `acked`.
Acknowledge(i, a) ==
  IF pending[i] = a
  THEN acked' = [acked EXCEPT ![i] = a] /\ lost' = lost \ {i}
  ELSE UNCHANGED <<acked, lost>>

\* Mutant: an unbounded channel.
SetPushUnbounded(c) ==
  LET i == conn[c].id  a == conn[c].arc IN
  /\ conn[c].pc = "push"
  /\ queue' = Append(queue, [id |-> i, arc |-> a])
  /\ Acknowledge(i, a)
  /\ Reply(c, "accepted", NoArc)
  /\ UNCHANGED <<pending, worker, inFlight, store, issued, raced, leaked, erased>>

\* `try_push` with room: Accepted(true).
SetPush(c) ==
  LET i == conn[c].id  a == conn[c].arc IN
  /\ conn[c].pc = "push"
  /\ Len(queue) < Capacity
  /\ queue' = Append(queue, [id |-> i, arc |-> a])
  /\ Acknowledge(i, a)
  /\ Reply(c, "accepted", NoArc)
  /\ UNCHANGED <<pending, worker, inFlight, store, issued, raced, leaked, erased>>

\* `try_push` on a full channel.
SetReject(c) ==
  /\ conn[c].pc = "push"
  /\ Len(queue) >= Capacity
  /\ conn' = [conn EXCEPT ![c].pc = "undo"]
  /\ Silent
  /\ UNCHANGED <<pending, queue, worker, inFlight, store, issued, ghosts>>

\* Mutant: a refused push leaves its shadow.
SetUndoNothing(c) ==
  /\ conn[c].pc = "undo"
  /\ Reply(c, "rejected", NoArc)
  /\ UNCHANGED <<pending, queue, worker, inFlight, store, issued, acked, lost,
                 raced, leaked, erased>>

\* `remove_if` after a refused push: Accepted(false).
SetUndo(c) ==
  LET i == conn[c].id  a == conn[c].arc IN
  /\ conn[c].pc = "undo"
  /\ RemoveIf(i, a)
  /\ Lose(i, a)
  /\ Reply(c, "rejected", NoArc)
  /\ UNCHANGED <<queue, worker, inFlight, store, issued, acked, raced, leaked, erased>>

-----------------------------------------------------------------------------
(* handle_get *)

\* Mutant: Get asks the cache without looking at the shadow.
GetSkipShadow(c, i) ==
  /\ "get" \in Requests
  /\ conn[c].pc = "idle"
  /\ conn' = [conn EXCEPT ![c] = Handler("find", i, NoArc, FALSE)]
  /\ known' = IF Held(i) THEN known \cup {c} ELSE known
  /\ Silent
  /\ UNCHANGED <<pending, queue, worker, inFlight, store, issued, acked, lost,
                 raced, leaked, quiet, erased>>

\* `pending.get`: a shadow answers at once, otherwise the cache is asked.
GetShadow(c, i) ==
  /\ "get" \in Requests
  /\ conn[c].pc = "idle"
  /\ IF pending[i] # NoArc
     THEN /\ response' = [kind |-> "value", id |-> i, hit |-> i,
                          val |-> pending[i], known |-> Held(i)]
          /\ UNCHANGED <<conn, known>>
     ELSE /\ conn' = [conn EXCEPT ![c] = Handler("find", i, NoArc, FALSE)]
          /\ known' = IF Held(i) THEN known \cup {c} ELSE known
          /\ Silent
  /\ UNCHANGED <<pending, queue, worker, inFlight, store, issued, acked, lost,
                 raced, leaked, quiet, erased>>

\* `find_match` of `Cache::get`.
GetFind(c) ==
  /\ conn[c].pc = "find"
  /\ \E j \in Best(conn[c].id) :
       IF j = NoId
       THEN Reply(c, "value", NoArc)
       ELSE /\ conn' = [conn EXCEPT ![c].pc = "fetch", ![c].hit = j]
            /\ Silent
            /\ UNCHANGED <<known, quiet>>
  /\ UNCHANGED <<pending, queue, worker, inFlight, store, issued, acked, lost,
                 raced, leaked, erased>>

\* `object.get` of the hit.
GetFetch(c) ==
  /\ conn[c].pc = "fetch"
  /\ Reply(c, "value", objects[conn[c].hit])
  /\ UNCHANGED <<pending, queue, worker, inFlight, store, issued, acked, lost,
                 raced, leaked, erased>>

\* An extraction, an embedding or a store read of a Get or a Del fails or
\* panics in the pool: the client gets an error.
LookupFail(c) ==
  /\ "lookup" \in Faults
  /\ conn[c].pc \in {"find", "fetch", "delFind"}
  /\ Reply(c, "error", NoArc)
  /\ UNCHANGED <<pending, queue, worker, inFlight, store, issued, acked, lost,
                 raced, leaked, erased>>

-----------------------------------------------------------------------------
(* handle_del *)

\* A worker that has passed its `holds` check and has yet to write i.
Committing(i) == \E w \in Workers : worker[w].pc \in {"put", "upsert"} /\ worker[w].id = i

\* `pending.remove`.
DelShadow(c, i) ==
  /\ "del" \in Requests
  /\ conn[c].pc = "idle"
  /\ pending' = [pending EXCEPT ![i] = NoArc]
  /\ conn' = [conn EXCEPT ![c] = Handler("delFind", i, NoArc, pending[i] # NoArc)]
  /\ known' = IF Held(i) THEN known \cup {c} ELSE known
  /\ quiet' = IF Committing(i) THEN quiet ELSE quiet \cup {c}
  /\ acked' = [acked EXCEPT ![i] = NoArc]
  /\ lost' = lost \ {i}
  /\ raced' = raced \ {i}
  /\ Silent
  /\ UNCHANGED <<queue, worker, inFlight, store, issued, leaked, erased>>

\* Mutant: Del reports what the stores held and not what the shadow did.
DelFindStoresOnly(c) ==
  /\ conn[c].pc = "delFind"
  /\ \E j \in Best(conn[c].id) :
       IF j = NoId
       THEN Reply(c, "absent", NoArc)
       ELSE /\ conn' = [conn EXCEPT ![c].pc = "delVector", ![c].hit = j]
            /\ Silent
            /\ UNCHANGED <<known, quiet>>
  /\ UNCHANGED <<pending, queue, worker, inFlight, store, issued, acked, lost,
                 raced, leaked, erased>>

\* `find_match` of `Cache::delete`.
DelFind(c) ==
  /\ conn[c].pc = "delFind"
  /\ \E j \in Best(conn[c].id) :
       IF j = NoId
       THEN /\ Reply(c, IF conn[c].removed THEN "deleted" ELSE "absent", NoArc)
            /\ erased' = IF c \in quiet /\ SelfBest(conn[c].id)
                         THEN erased \cup {conn[c].id} ELSE erased
       ELSE /\ conn' = [conn EXCEPT ![c].pc = "delVector", ![c].hit = j]
            /\ Silent
            /\ UNCHANGED <<known, quiet, erased>>
  /\ UNCHANGED <<pending, queue, worker, inFlight, store, issued, acked, lost,
                 raced, leaked>>

\* The other requests about an entry c deletes can no longer count on it.
Unaware(c, j) == known \ {d \in Conns : d # c /\ conn[d].id = j}

\* `vector.delete` of the hit.
DelVector(c) ==
  LET j == conn[c].hit IN
  /\ conn[c].pc = "delVector"
  /\ \E outcome \in Outcomes("delete") :
       /\ index' = IF outcome = "refused" THEN index ELSE index \ {j}
       /\ IF outcome = "ok"
          THEN /\ conn' = [conn EXCEPT ![c].pc = "delObject"]
               /\ known' = Unaware(c, j)
               /\ Silent
               /\ UNCHANGED quiet
          ELSE /\ conn' = [conn EXCEPT ![c] = Idle]
               /\ response' = Answer(c, "error", NoArc)
               /\ known' = Unaware(c, j) \ {c}
               /\ quiet' = quiet \ {c}
  /\ acked' = [acked EXCEPT ![j] = NoArc]
  /\ UNCHANGED <<pending, queue, worker, inFlight, objects, issued, lost, raced,
                 leaked, erased>>

\* `object.delete` of the hit: Deleted(true).
DelObject(c) ==
  LET i == conn[c].id  j == conn[c].hit IN
  /\ conn[c].pc = "delObject"
  /\ \E outcome \in Outcomes("delete") :
       /\ objects' = IF outcome = "refused" THEN objects
                     ELSE [objects EXCEPT ![j] = NoArc]
       /\ response' = Answer(c, IF outcome = "ok" THEN "deleted" ELSE "error", NoArc)
       /\ erased' = IF outcome = "ok" /\ c \in quiet /\ i = j
                    THEN erased \cup {i} ELSE erased
  /\ conn' = [conn EXCEPT ![c] = Idle]
  /\ known' = Unaware(c, j) \ {c}
  /\ quiet' = quiet \ {c}
  /\ acked' = [acked EXCEPT ![j] = NoArc]
  /\ UNCHANGED <<pending, queue, worker, inFlight, index, issued, lost, raced,
                 leaked>>

-----------------------------------------------------------------------------
(* The worker thread's loop, and WriteJob::run *)

Goto(w, pc) == worker' = [worker EXCEPT ![w].pc = pc]

\* `receiver.recv` returns a job.
WorkerRecv(w) ==
  /\ worker[w].pc = "recv"
  /\ queue # <<>>
  /\ worker' = [worker EXCEPT ![w] = Thread("enter", Head(queue).id, Head(queue).arc)]
  /\ queue' = Tail(queue)
  /\ Silent
  /\ UNCHANGED <<pending, inFlight, store, conn, issued, ghosts>>

\* `InFlightGuard::enter`.
WorkerEnter(w) ==
  /\ worker[w].pc = "enter"
  /\ inFlight' = inFlight + 1
  /\ Goto(w, "prepare")
  /\ Silent
  /\ UNCHANGED <<pending, queue, store, conn, issued, ghosts>>

\* `cache.prepare`; when it fails the job returns there and then.
WorkerPrepare(w) ==
  /\ worker[w].pc = "prepare"
  /\ \/ Goto(w, "holds") /\ UNCHANGED leaked
     \/ /\ "prepare" \in Faults
        /\ Goto(w, "leave")
        /\ leaked' = leaked \cup {worker[w].arc}
  /\ Silent
  /\ UNCHANGED <<pending, queue, inFlight, store, conn, issued, acked, lost,
                 raced, known, quiet, erased>>

\* Mutant: the job commits without checking its shadow.
WorkerHoldsUnchecked(w) ==
  /\ worker[w].pc = "holds"
  /\ Goto(w, "put")
  /\ Silent
  /\ UNCHANGED <<pending, queue, inFlight, store, conn, issued, ghosts>>

\* `pending.holds`: a job whose shadow is no longer its own returns.
WorkerHolds(w) ==
  /\ worker[w].pc = "holds"
  /\ Goto(w, IF pending[worker[w].id] = worker[w].arc THEN "put" ELSE "leave")
  /\ Silent
  /\ UNCHANGED <<pending, queue, inFlight, store, conn, issued, ghosts>>

\* `object.put`, the first half of `cache.commit`.
WorkerPut(w) ==
  /\ worker[w].pc = "put"
  /\ \E outcome \in Outcomes("commit") :
       /\ objects' = IF outcome = "refused" THEN objects
                     ELSE [objects EXCEPT ![worker[w].id] = worker[w].arc]
       /\ worker' = [worker EXCEPT ![w].pc = IF outcome = "ok" THEN "upsert" ELSE "cleanup",
                                   ![w].ok = outcome = "ok"]
  /\ Silent
  /\ UNCHANGED <<pending, queue, inFlight, index, conn, issued, ghosts>>

\* `vector.upsert`, the second half.
WorkerUpsert(w) ==
  /\ worker[w].pc = "upsert"
  /\ \E outcome \in Outcomes("commit") :
       /\ index' = IF outcome = "refused" THEN index ELSE index \cup {worker[w].id}
       /\ worker' = [worker EXCEPT ![w].pc = "cleanup", ![w].ok = outcome = "ok"]
  /\ Silent
  /\ UNCHANGED <<pending, queue, inFlight, objects, conn, issued, ghosts>>

\* Mutant: only a successful commit drops the shadow.
WorkerCleanupIfOk(w) ==
  /\ worker[w].pc = "cleanup"
  /\ IF worker[w].ok THEN RemoveIf(worker[w].id, worker[w].arc) ELSE UNCHANGED pending
  /\ Goto(w, "leave")
  /\ Silent
  /\ UNCHANGED <<queue, inFlight, store, conn, issued, ghosts>>

\* `pending.remove_if`, whether or not the commit succeeded.
WorkerCleanup(w) ==
  LET i == worker[w].id  a == worker[w].arc IN
  /\ worker[w].pc = "cleanup"
  /\ RemoveIf(i, a)
  /\ IF worker[w].ok THEN UNCHANGED lost ELSE Lose(i, a)
  /\ Goto(w, "leave")
  /\ Silent
  /\ UNCHANGED <<queue, inFlight, store, conn, issued, acked, raced, leaked,
                 known, quiet, erased>>

\* The job returned: the guard is dropped and the loop comes round.
WorkerLeave(w) ==
  /\ worker[w].pc = "leave"
  /\ inFlight' = inFlight - 1
  /\ worker' = [worker EXCEPT ![w] = Free]
  /\ Silent
  /\ UNCHANGED <<pending, queue, store, conn, issued, ghosts>>

\* Mutant: the slot is released at the end of the loop body, not by a guard.
WorkerPanicUnguarded(w) ==
  /\ "panic" \in Faults
  /\ worker[w].pc \in {"prepare", "put", "upsert"}
  /\ worker' = [worker EXCEPT ![w] = Thread("dead", NoId, NoArc)]
  /\ Silent
  /\ UNCHANGED <<pending, queue, inFlight, store, conn, issued, ghosts>>

\* A panic in the model or a backend: unwinding drops the guard and, the
\* loop having no `catch_unwind`, ends the thread.
WorkerPanic(w) ==
  /\ "panic" \in Faults
  /\ worker[w].pc \in {"prepare", "put", "upsert"}
  /\ inFlight' = inFlight - 1
  /\ leaked' = leaked \cup {worker[w].arc}
  /\ worker' = [worker EXCEPT ![w] = Thread("dead", NoId, NoArc)]
  /\ Silent
  /\ UNCHANGED <<pending, queue, store, conn, issued, acked, lost, raced, known,
                 quiet, erased>>

-----------------------------------------------------------------------------
SetStep(c) == SetPush(c) \/ SetReject(c) \/ SetUndo(c)

HandlerStep(c) ==
  \/ SetStep(c)
  \/ GetFind(c) \/ GetFetch(c) \/ LookupFail(c)
  \/ DelFind(c) \/ DelVector(c) \/ DelObject(c)

WorkerStep(w) ==
  \/ WorkerRecv(w) \/ WorkerEnter(w) \/ WorkerPrepare(w) \/ WorkerHolds(w)
  \/ WorkerPut(w) \/ WorkerUpsert(w) \/ WorkerCleanup(w) \/ WorkerLeave(w)
  \/ WorkerPanic(w)

Next ==
  \/ \E c \in Conns, i \in Ids : SetInsert(c, i) \/ GetShadow(c, i) \/ DelShadow(c, i)
  \/ \E c \in Conns : HandlerStep(c)
  \/ \E w \in Workers : WorkerStep(w)

Spec == Init /\ [][Next]_vars

\* A Set handler that has begun and a worker thread that has a job are run
\* by the runtime and the operating system.  No client is obliged to send,
\* and no write waits for the handlers of Get and Del.
FairSpec ==
  /\ Spec
  /\ \A c \in Conns : WF_vars(SetStep(c))
  /\ \A w \in Workers : WF_vars(WorkerStep(w))

-----------------------------------------------------------------------------
(* Properties *)

\* Every variable has the type its code gives it: shadows and objects are
\* allocations made so far, the channel is within its bound, a handler or a
\* job past its first step has an entry and an allocation.
TypeOK ==
  /\ pending \in [Ids -> Arcs \cup {NoArc}]
  /\ queue \in Seq(Jobs)
  /\ Len(queue) <= Capacity
  /\ worker \in [Workers -> Threads]
  /\ inFlight \in Nat
  /\ objects \in [Ids -> Arcs \cup {NoArc}]
  /\ index \subseteq Ids
  /\ conn \in [Conns -> Handlers]
  /\ issued \in 0..MaxSets
  /\ response \in Responses
  /\ acked \in [Ids -> Arcs \cup {NoArc}]
  /\ lost \subseteq Ids
  /\ raced \subseteq Ids
  /\ leaked \subseteq Arcs
  /\ known \subseteq Conns
  /\ quiet \subseteq Conns
  /\ erased \subseteq Ids

\* "Done after `commit` so a concurrent `get` never sees a gap where the
\* entry is in neither the buffer nor the stores" (WriteJob::run): an
\* acknowledged Set is in the shadow or in both stores, whatever the other
\* workers and connections are in the middle of.  Three things end that: a
\* Del, a failed commit, and a later Set of the entry that overwrote the
\* shadow and was then refused (see AcceptedKept).
NoGap == \A i \in Ids : Held(i) => pending[i] # NoArc \/ Durable(i)

\* "a `get` for the same query is served immediately from an in-memory shadow"
\* (README.md), and handle_set undoes a refused push with "`remove_if` so a
\* concurrent accepted same-id write's (different-Arc) shadow is never
\* dropped" (conn.rs): while no backend call fails, an accepted Set that no
\* Del has undone is in the shadow or in the stores.  The code breaks it: the
\* refused Set's insert has already replaced the accepted one's shadow, so its
\* undo leaves none, and the accepted job finds `holds` false and drops the
\* write.
AcceptedKept ==
  \A i \in Ids : acked[i] # NoArc => pending[i] # NoArc \/ Durable(i)

\* handle_get reads the shadow, then the vector store, then the object
\* store, in three steps.  A Get of an entry held when the Get began and not
\* deleted since still never answers a miss, although the worker may move
\* the entry from the shadow to the stores between any two of them.  Held:
\* acknowledged, and not deleted, lost to a failed commit or lost to a
\* refused later Set that overwrote its shadow; after any of the three the
\* code does answer a miss.  (Given that the entry is its own best match; a
\* tied entry whose object is missing may be picked instead.)
ReadAfterWrite ==
  (/\ response.kind = "value"
   /\ response.known
   /\ response.val = NoArc) =>
      ~SelfBest(response.id) \/ response.hit \notin {response.id, NoId}

\* handle_del "counts as a real deletion even before the write-behind has
\* made the entry durable": a Del of an entry held when it began, and that no
\* other Del removes first, never answers Deleted(false).  An acknowledgement
\* lost to a failed commit or to a refused later Set is set aside here too.
DeleteIsReported ==
  response.kind = "absent" /\ response.known => ~SelfBest(response.id)

\* "no resurrected delete" (WriteJob::run): once a Del that no write raced
\* has been answered, the entry stays out of the shadow and out of the index
\* until a new Set names it, although jobs for it may still be queued,
\* embedding, or about to check their shadow.
NoResurrection ==
  \A i \in erased : pending[i] = NoArc /\ i \notin index

Carried(i, a) ==
  \/ \E c \in Conns : conn[c].pc \in {"push", "undo"} /\ conn[c].id = i /\ conn[c].arc = a
  \/ \E n \in DOMAIN queue : queue[n] = [id |-> i, arc |-> a]
  \/ \E w \in Workers : /\ worker[w].pc \in {"enter", "prepare", "holds", "put", "upsert", "cleanup"}
                        /\ worker[w].id = i
                        /\ worker[w].arc = a

\* "the buffer only ever holds in-flight writes" (PendingWrites) is not what
\* the code does: a job whose prepare fails, or that panics, never reaches its
\* `remove_if`.  Those are the only leaks: any other shadow belongs to a
\* handler that has not replied, a queued job or a running one, through full
\* channels, failed commits, overwritten shadows and Dels.
ShadowInFlight ==
  \A i \in Ids : pending[i] # NoArc => Carried(i, pending[i]) \/ pending[i] \in leaked

\* "with no lost update" (WriteJob::run): when the shadow of an acknowledged
\* Set is gone, the object store has that Set's bytes, not an older Set's.
\* Two workers break it: one passes `holds` and is still to put when a newer
\* Set arrives, is committed by the other and is overwritten.
NoLostUpdate ==
  \A i \in Ids : Held(i) /\ pending[i] = NoArc => objects[i] = acked[i]

\* That window, between `holds` and the end of `put`, is the only one: a Set
\* whose shadow went in while no worker was about to put the same entry is
\* what the object store has once its shadow is gone, with any number of
\* workers, whatever older jobs are queued, embedding, upserting or cleaning
\* up, and whichever calls fail.
NewestStored ==
  \A i \in Ids :
    Held(i) /\ i \notin raced /\ pending[i] = NoArc => objects[i] = acked[i]

\* A value does not stay in memory, or answer Gets, for the daemon's whole
\* life: the shadow of every write is dropped or replaced in the end, unless
\* its job leaked it (a failed prepare, a panic) or panics have ended every
\* worker thread.
ShadowDrains ==
  \A i \in Ids : \A a \in Arcs :
    pending[i] = a ~> \/ pending[i] # a
                      \/ a \in leaked
                      \/ \A w \in Workers : worker[w].pc = "dead"

\* The count-level contract of the queue that the supervisor relies on.
Queue == INSTANCE WriteQueue WITH
  waiting <- Len(queue),
  inHand <- Cardinality({w \in Workers : worker[w].pc = "enter"}),
  dead <- Cardinality({w \in Workers : worker[w].pc = "dead"}),
  WorkerCount <- Cardinality(Workers)

\* The detailed path takes only steps the contract allows: try_push never
\* exceeds the bound and the in-flight counter counts the jobs mid-run.
ImplementsQueue == Queue!QSpec

=============================================================================
