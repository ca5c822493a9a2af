---------------------------- MODULE StoresProofs ----------------------------
(***************************************************************************)
(* Theorems about Stores, for any threads, entries, values, dimensions and *)
(* process ids, and any number of operations and kills.                    *)
(***************************************************************************)
EXTENDS Stores, TLAPS

-----------------------------------------------------------------------------
(* The inductive invariants *)

Frames    == {Compress(v) : v \in Values}
TempNames == Ids \X Pids \X Nat

CommitPcs == {"create", "write", "rename", "s3put", "upsert", "request", "cache"}
DeletePcs == {"unindex", "unput"}

CommitThread == [op : {"commit"}, id : Ids, value : Values, dim : Dims, cached : Dims \cup {None},
                 temp : TempNames \cup {None}, pc : CommitPcs, alone : BOOLEAN]
DeleteThread == [op : {"delete"}, id : Ids, pc : DeletePcs, alone : BOOLEAN]

Types ==
  /\ kind \in Backends
  /\ thread \in [Threads -> CommitThread \cup DeleteThread \cup {Rest}]
  /\ objects \in [Ids -> Frames \cup {None}]
  /\ pid \in Pids
  /\ counter \in Nat
  /\ rows \subseteq Ids
  /\ indexDim \in Dims \cup {None} /\ dimCache \in Dims \cup {None}
  /\ got \in Values \cup {None, Error}
  /\ settled \in [Ids -> Values \cup {None, Unknown}]
  /\ crashes \in Nat /\ faults \in Nat

\* A running put owns its temporary file: no other thread has the name, and
\* what is renamed is the whole frame.
Owning == {t \in Threads : thread[t].pc \in {"write", "rename"}}

TempInv ==
  /\ \A t \in Owning : /\ thread[t].temp \in TempNames \cap DOMAIN temps
                       /\ thread[t].temp[3] < counter
  /\ \A t, u \in Owning : thread[t].temp = thread[u].temp => t = u
  /\ \A t \in Threads : thread[t].pc = "rename" => temps[thread[t].temp] = Compress(thread[t].value)

\* What the dimension check, the request and the cache fill know of the index.
DimInv ==
  /\ dimCache \in {None, indexDim}
  /\ mismatch # None => /\ mismatch.want = indexDim /\ indexDim # None
                        /\ kind.vector = "memory" => mismatch.got # mismatch.want
  /\ \A t \in Threads : /\ thread[t].pc = "request" => kind.vector = "turbopuffer"
                        /\ thread[t].pc = "request" => thread[t].cached \in {None, indexDim}
                        /\ thread[t].pc = "cache" => thread[t].dim = indexDim

\* A commit and a delete of one entry that are both under way have raced.
OverlapInv ==
  \A t, u \in Threads :
    /\ thread[t].pc \in CommitPcs /\ thread[u].pc \in DeletePcs /\ thread[t].id = thread[u].id
    => thread[t].id \in raced

\* Off the raced entries, a commit past its put has its object and a delete
\* past its vector delete has no row.
OrderInv ==
  \A t \in Threads :
    /\ thread[t].pc \in {"upsert", "request"} /\ thread[t].id \notin raced
         => objects[thread[t].id] # None
    /\ thread[t].pc = "unput" /\ thread[t].id \notin raced => thread[t].id \notin rows

RaceInv == OverlapInv /\ OrderInv /\ RowHasObject

\* An operation that met no other has the entry to itself, and a client knows an
\* entry only while nobody works on it.
SoleInv ==
  /\ \A t, u \in Threads :
       thread[t].pc # "rest" /\ thread[t].alone /\ thread[u].pc # "rest" /\ thread[t].id = thread[u].id
       => t = u
  /\ \A t \in Threads : thread[t].pc # "rest" => settled[thread[t].id] = Unknown

\* What an operation that met no other has done so far is what is stored.
ProgressInv ==
  \A t \in Threads : thread[t].pc # "rest" /\ thread[t].alone =>
    /\ thread[t].pc \in {"upsert", "request", "cache"}
         => objects[thread[t].id] = Compress(thread[t].value)
    /\ thread[t].pc = "cache" => thread[t].id \in rows
    /\ thread[t].pc = "unput" => thread[t].id \notin rows

AloneInv == SoleInv /\ ProgressInv /\ ReportedIsStored

-----------------------------------------------------------------------------
(* What the pieces of an action do to a thread *)

\* A thread that stands at a step of commit holds a commit, one at a step of
\* delete a delete.
LEMMA PcKind ==
  ASSUME Types, NEW t \in Threads
  PROVE  /\ thread[t].pc \in CommitPcs => thread[t] \in CommitThread
         /\ thread[t].pc \in DeletePcs => thread[t] \in DeleteThread
         /\ thread[t].pc = "rest" => thread[t] = Rest
         /\ thread[t].pc \in CommitPcs \cup DeletePcs \cup {"rest"}
<1>1. thread[t] \in CommitThread \cup DeleteThread \cup {Rest}
  BY DEF Types
<1>2. CASE thread[t] \in CommitThread
  BY <1>2 DEF CommitThread, CommitPcs, DeletePcs
<1>3. CASE thread[t] \in DeleteThread
  BY <1>3 DEF DeleteThread, CommitPcs, DeletePcs
<1>4. CASE thread[t] = Rest
  BY <1>4 DEF Rest, CommitPcs, DeletePcs
<1>5. QED
  BY <1>1, <1>2, <1>3, <1>4

\* Done and Fail end the operation.
LEMMA EndEffect ==
  ASSUME Types, NEW t \in Threads, thread' = [thread EXCEPT ![t] = Rest]
  PROVE  /\ thread' \in [Threads -> CommitThread \cup DeleteThread \cup {Rest}]
         /\ thread'[t].pc = "rest"
         /\ \A u \in Threads \ {t} : thread'[u] = thread[u]
BY DEF Types, Rest

\* Goto moves a commit on and leaves everything else it holds.
LEMMA CommitGoto ==
  ASSUME Types, NEW t \in Threads, thread[t].pc \in CommitPcs, NEW pc \in CommitPcs, Goto(t, pc)
  PROVE  /\ thread' \in [Threads -> CommitThread \cup DeleteThread \cup {Rest}]
         /\ thread'[t].pc = pc
         /\ thread'[t].id = thread[t].id /\ thread'[t].value = thread[t].value
         /\ thread'[t].dim = thread[t].dim /\ thread'[t].temp = thread[t].temp
         /\ thread'[t].cached = thread[t].cached /\ thread'[t].alone = thread[t].alone
         /\ \A u \in Threads \ {t} : thread'[u] = thread[u]
<1>1. thread[t] \in CommitThread
  BY PcKind
<1>2. [thread[t] EXCEPT !.pc = pc] \in CommitThread
  BY <1>1 DEF CommitThread
<1>3. thread' = [thread EXCEPT ![t] = [thread[t] EXCEPT !.pc = pc]]
  BY DEF Goto
<1>4. thread'[t] = [thread[t] EXCEPT !.pc = pc] /\ \A u \in Threads \ {t} : thread'[u] = thread[u]
  BY <1>3 DEF Types
<1>5. thread' \in [Threads -> CommitThread \cup DeleteThread \cup {Rest}]
  BY <1>2, <1>3 DEF Types
<1>6. QED
  BY <1>1, <1>4, <1>5 DEF CommitThread

\* Goto moves a delete on.
LEMMA DeleteGoto ==
  ASSUME Types, NEW t \in Threads, thread[t].pc \in DeletePcs, NEW pc \in DeletePcs, Goto(t, pc)
  PROVE  /\ thread' \in [Threads -> CommitThread \cup DeleteThread \cup {Rest}]
         /\ thread'[t].pc = pc
         /\ thread'[t].id = thread[t].id /\ thread'[t].alone = thread[t].alone
         /\ \A u \in Threads \ {t} : thread'[u] = thread[u]
<1>1. thread[t] \in DeleteThread
  BY PcKind
<1>2. [thread[t] EXCEPT !.pc = pc] \in DeleteThread
  BY <1>1 DEF DeleteThread
<1>3. thread' = [thread EXCEPT ![t] = [thread[t] EXCEPT !.pc = pc]]
  BY DEF Goto
<1>4. thread'[t] = [thread[t] EXCEPT !.pc = pc] /\ \A u \in Threads \ {t} : thread'[u] = thread[u]
  BY <1>3 DEF Types
<1>5. thread' \in [Threads -> CommitThread \cup DeleteThread \cup {Rest}]
  BY <1>2, <1>3 DEF Types
<1>6. QED
  BY <1>1, <1>4, <1>5 DEF DeleteThread

\* DiskCreate gives the put its temporary name.
LEMMA CreateEffect ==
  ASSUME Types, NEW t \in Threads, DiskCreate(t)
  PROVE  /\ thread' \in [Threads -> CommitThread \cup DeleteThread \cup {Rest}]
         /\ thread'[t].pc = "write"
         /\ thread'[t].temp = TempName(thread[t].id, counter)
         /\ TempName(thread[t].id, counter) \in TempNames
         /\ TempName(thread[t].id, counter)[3] = counter
         /\ thread'[t].id = thread[t].id /\ thread'[t].value = thread[t].value
         /\ thread'[t].alone = thread[t].alone
         /\ \A u \in Threads \ {t} : thread'[u] = thread[u]
<1> DEFINE name == TempName(thread[t].id, counter)
           th   == [thread[t] EXCEPT !.temp = name, !.pc = "write"]
<1>1. thread[t] \in CommitThread
  BY PcKind DEF DiskCreate, CommitPcs
<1>2. name \in TempNames /\ name[3] = counter
  BY <1>1 DEF TempName, TempNames, CommitThread, Types
<1> HIDE DEF name
<1>3. th \in CommitThread
  BY <1>1, <1>2 DEF CommitThread, CommitPcs
<1>4. thread' = [thread EXCEPT ![t] = th]
  BY DEF DiskCreate, name
<1>5. thread'[t] = th /\ \A u \in Threads \ {t} : thread'[u] = thread[u]
  BY <1>4 DEF Types
<1>6. thread' \in [Threads -> CommitThread \cup DeleteThread \cup {Rest}]
  BY <1>3, <1>4 DEF Types
<1>7. /\ th.pc = "write" /\ th.temp = name /\ th.id = thread[t].id
      /\ th.value = thread[t].value /\ th.alone = thread[t].alone
  BY <1>1 DEF CommitThread
<1>8. QED
  BY <1>2, <1>5, <1>6, <1>7 DEF name

\* TurbopufferVectorStore::upsert keeps the dimension it has read.
LEMMA CheckEffect ==
  ASSUME Types, NEW t \in Threads, thread[t].pc = "upsert",
         thread' = [thread EXCEPT ![t].cached = dimCache, ![t].pc = "request"]
  PROVE  /\ thread' \in [Threads -> CommitThread \cup DeleteThread \cup {Rest}]
         /\ thread'[t].pc = "request" /\ thread'[t].cached = dimCache
         /\ thread'[t].id = thread[t].id /\ thread'[t].value = thread[t].value
         /\ thread'[t].alone = thread[t].alone
         /\ \A u \in Threads \ {t} : thread'[u] = thread[u]
<1> DEFINE th == [thread[t] EXCEPT !.cached = dimCache, !.pc = "request"]
<1>1. thread[t] \in CommitThread
  BY PcKind DEF CommitPcs
<1>2. th \in CommitThread
  BY <1>1 DEF CommitThread, CommitPcs, Types
<1>3. thread' = [thread EXCEPT ![t] = th]
  OBVIOUS
<1>4. thread'[t] = th /\ \A u \in Threads \ {t} : thread'[u] = thread[u]
  BY <1>3 DEF Types
<1>5. thread' \in [Threads -> CommitThread \cup DeleteThread \cup {Rest}]
  BY <1>2, <1>3 DEF Types
<1>6. /\ th.pc = "request" /\ th.cached = dimCache /\ th.id = thread[t].id
      /\ th.value = thread[t].value /\ th.alone = thread[t].alone
  BY <1>1 DEF CommitThread
<1>7. QED
  BY <1>4, <1>5, <1>6

\* An operation that starts finds its thread at rest, and takes "alone" from
\* whoever works on the entry.
LEMMA StartEffect ==
  ASSUME Types, NEW t \in Threads, NEW op \in CommitThread \cup DeleteThread, Start(t, op)
  PROVE  /\ thread' \in [Threads -> CommitThread \cup DeleteThread \cup {Rest}]
         /\ thread[t].pc = "rest" /\ thread'[t] = op
         /\ \A u \in Threads \ {t} :
              /\ thread'[u].pc = thread[u].pc
              /\ thread[u].pc # "rest" =>
                   /\ thread'[u].id = thread[u].id
                   /\ thread'[u].alone = (thread[u].alone /\ thread[u].id # op.id)
              /\ thread[u].pc \in CommitPcs =>
                   /\ thread'[u].value = thread[u].value /\ thread'[u].dim = thread[u].dim
                   /\ thread'[u].cached = thread[u].cached /\ thread'[u].temp = thread[u].temp
<1>1. thread[t].pc = "rest" /\ thread'[t] = op
  BY DEF Start, Rest
<1>2. ASSUME NEW u \in Threads \ {t}
      PROVE  /\ thread'[u] \in CommitThread \cup DeleteThread \cup {Rest}
             /\ thread'[u].pc = thread[u].pc
             /\ thread[u].pc # "rest" =>
                  /\ thread'[u].id = thread[u].id
                  /\ thread'[u].alone = (thread[u].alone /\ thread[u].id # op.id)
             /\ thread[u].pc \in CommitPcs =>
                  /\ thread'[u].value = thread[u].value /\ thread'[u].dim = thread[u].dim
                  /\ thread'[u].cached = thread[u].cached /\ thread'[u].temp = thread[u].temp
  <2> DEFINE th == [thread[u] EXCEPT !.alone = FALSE]
  <2>1. CASE u \in OnId(op.id)
    <3>1. thread'[u] = th /\ thread[u].id = op.id /\ thread[u].pc # "rest"
      BY <2>1 DEF Start, OnId
    <3>2. CASE thread[u] \in CommitThread
      <4>1. /\ th \in CommitThread /\ th.pc = thread[u].pc /\ th.id = thread[u].id
            /\ th.alone = FALSE /\ th.value = thread[u].value /\ th.dim = thread[u].dim
            /\ th.cached = thread[u].cached /\ th.temp = thread[u].temp
        BY <3>2 DEF CommitThread
      <4>2. QED
        BY <3>1, <4>1
    <3>3. CASE thread[u] \in DeleteThread
      <4>1. /\ th \in DeleteThread /\ th.pc = thread[u].pc /\ th.id = thread[u].id
            /\ th.alone = FALSE /\ thread[u].pc \notin CommitPcs
        BY <3>3 DEF DeleteThread, DeletePcs, CommitPcs
      <4>2. QED
        BY <3>1, <4>1
    <3>4. thread[u] \in CommitThread \cup DeleteThread
      BY <3>1, PcKind
    <3>5. QED
      BY <3>2, <3>3, <3>4
  <2>2. CASE u \notin OnId(op.id)
    <3>1. thread'[u] = thread[u] /\ (thread[u].pc # "rest" => thread[u].id # op.id)
      BY <2>2 DEF Start, OnId
    <3>2. thread[u].pc # "rest" => thread[u].alone \in BOOLEAN
      BY DEF Types, Rest, CommitThread, DeleteThread
    <3>3. QED
      BY <3>1, <3>2 DEF Types
  <2>3. QED
    BY <2>1, <2>2
<1>3. thread' \in [Threads -> CommitThread \cup DeleteThread \cup {Rest}]
  <2>1. \A u \in Threads : thread'[u] \in CommitThread \cup DeleteThread \cup {Rest}
    BY <1>1, <1>2
  <2>2. QED
    BY <2>1 DEF Start
<1>4. QED
  BY <1>1, <1>2, <1>3

\* A commit and a delete start well-formed, at their first step.
LEMMA CommitOp ==
  ASSUME Types, NEW t \in Threads, NEW id \in Ids, NEW v \in Values, NEW d \in Dims,
         CommitStart(t, id, v, d)
  PROVE  \E op \in CommitThread : /\ Start(t, op)
                                  /\ op.pc \in {"create", "s3put"}
                                  /\ op.alone = (OnId(op.id) = {})
<1> DEFINE op == [op |-> "commit", id |-> id, value |-> v, dim |-> d, cached |-> None, temp |-> None,
                  pc |-> IF kind.object = "disk" THEN "create" ELSE "s3put", alone |-> OnId(id) = {}]
<1>1. op \in CommitThread /\ op.pc \in {"create", "s3put"} /\ op.alone = (OnId(op.id) = {})
  BY DEF CommitThread, CommitPcs
<1>2. Start(t, op)
  BY DEF CommitStart
<1>3. QED
  BY <1>1, <1>2

LEMMA DeleteOp ==
  ASSUME Types, NEW t \in Threads, NEW id \in Ids, DeleteStart(t, id)
  PROVE  \E op \in DeleteThread : /\ Start(t, op)
                                  /\ op.pc = "unindex"
                                  /\ op.alone = (OnId(op.id) = {})
<1> DEFINE op == [op |-> "delete", id |-> id, pc |-> DeleteOrder[1], alone |-> OnId(id) = {}]
<1>1. op \in DeleteThread /\ op.pc = "unindex" /\ op.alone = (OnId(op.id) = {})
  BY DEF DeleteThread, DeletePcs, DeleteOrder
<1>2. Start(t, op)
  BY DEF DeleteStart
<1>3. QED
  BY <1>1, <1>2

-----------------------------------------------------------------------------
(* The temporary files *)

\* Threads that hold on to their step, value and file, and files that stay,
\* keep the temporary-file invariant.
LEMMA TempFrame ==
  ASSUME Types, TempInv,
         temps' = temps, counter' = counter,
         \A u \in Threads :
           thread'[u].pc \in {"write", "rename"} =>
             /\ thread'[u].pc = thread[u].pc /\ thread'[u].temp = thread[u].temp
             /\ thread'[u].value = thread[u].value
  PROVE  TempInv'
BY DEF TempInv, Owning

\* A step preserves the temporary-file invariant: TEMP_COUNTER tells the names
\* of running puts apart, even from the litter of a dead daemon with the same
\* process id, which is truncated.
LEMMA TempStep ==
  ASSUME Types, TempInv, [Next]_vars
  PROVE  TempInv'
<1>1. ASSUME NEW t \in Threads, NEW op \in CommitThread \cup DeleteThread, Start(t, op),
             op.pc \notin {"write", "rename"}
      PROVE  TempInv'
  BY <1>1, StartEffect, TempFrame DEF Start, store, CommitPcs
<1>2. ASSUME NEW t \in Threads, DiskCreate(t) PROVE TempInv'
  <2> DEFINE name == TempName(thread[t].id, counter)
  <2>1. /\ thread'[t].pc = "write" /\ thread'[t].temp = name
        /\ name \in TempNames /\ name[3] = counter
        /\ \A u \in Threads \ {t} : thread'[u] = thread[u]
    BY <1>2, CreateEffect
  <2>2. /\ counter' = counter + 1
        /\ temps' = Written(name, CutShort(Compress(thread[t].value)))
    BY <1>2 DEF DiskCreate
  <2> HIDE DEF name
  <2>3. /\ DOMAIN temps' = DOMAIN temps \cup {name}
        /\ \A n \in DOMAIN temps \ {name} : temps'[n] = temps[n]
    BY <2>2 DEF Written
  <2>4. \A u \in Owning : /\ u # t /\ thread[u].temp # name
                          /\ thread[u].temp \in DOMAIN temps \ {name}
    BY <1>2, <2>1 DEF DiskCreate, TempInv, Owning, Types
  <2>5. Owning' = Owning \cup {t}
    BY <1>2, <2>1 DEF Owning, DiskCreate
  <2>6. \A u \in Owning' : /\ thread'[u].temp \in TempNames \cap DOMAIN temps'
                           /\ thread'[u].temp[3] < counter'
    <3>1. ASSUME NEW u \in Owning
          PROVE  thread[u].temp \in TempNames /\ thread[u].temp[3] \in Nat /\ thread[u].temp[3] < counter
      BY DEF TempInv, TempNames
    <3>2. QED
      BY <2>1, <2>2, <2>3, <2>4, <2>5, <3>1 DEF Owning, Types
  <2>7. \A u, w \in Owning' : thread'[u].temp = thread'[w].temp => u = w
    BY <2>1, <2>4, <2>5 DEF TempInv, Owning
  <2>8. \A u \in Threads : thread'[u].pc = "rename" => temps'[thread'[u].temp] = Compress(thread'[u].value)
    BY <2>1, <2>3, <2>4 DEF TempInv, Owning
  <2>9. QED
    BY <2>6, <2>7, <2>8 DEF TempInv
<1>3. ASSUME NEW t \in Threads, DiskWrite(t) PROVE TempInv'
  <2>1. /\ thread'[t].pc = "rename" /\ thread'[t].temp = thread[t].temp
        /\ thread'[t].value = thread[t].value
        /\ \A u \in Threads \ {t} : thread'[u] = thread[u]
    BY <1>3, CommitGoto DEF DiskWrite, CommitPcs
  <2>2. t \in Owning /\ thread[t].temp \in DOMAIN temps
    BY <1>3 DEF DiskWrite, TempInv, Owning
  <2>3. /\ DOMAIN temps' = DOMAIN temps
        /\ temps'[thread[t].temp] = Compress(thread[t].value)
        /\ \A n \in DOMAIN temps \ {thread[t].temp} : temps'[n] = temps[n]
    BY <1>3, <2>2 DEF DiskWrite, Written
  <2>4. Owning' = Owning /\ counter' = counter
    BY <1>3, <2>1 DEF Owning, DiskWrite
  <2>5. QED
    BY <2>1, <2>2, <2>3, <2>4 DEF TempInv, Owning
<1>4. ASSUME NEW t \in Threads, DiskRename(t) PROVE TempInv'
  <2>1. /\ thread'[t].pc = "upsert"
        /\ \A u \in Threads \ {t} : thread'[u] = thread[u]
    BY <1>4, CommitGoto DEF DiskRename, CommitPcs
  <2>2. /\ DOMAIN temps' = DOMAIN temps \ {thread[t].temp}
        /\ \A n \in DOMAIN temps \ {thread[t].temp} : temps'[n] = temps[n]
    BY <1>4 DEF DiskRename, Restrict
  <2>3. Owning' = Owning \ {t} /\ counter' = counter /\ t \in Owning
    BY <1>4, <2>1 DEF Owning, DiskRename
  <2>4. QED
    BY <2>1, <2>2, <2>3 DEF TempInv, Owning
<1>5. ASSUME NEW t \in Threads, DiskFail(t) \/ S3Put(t) \/ MemoryUpsert(t) \/ TpCache(t)
      PROVE  TempInv'
  <2>1. thread'[t].pc \in {"rest", "upsert"} /\ \A u \in Threads \ {t} : thread'[u] = thread[u]
    BY <1>5, CommitGoto, EndEffect
       DEF DiskFail, S3Put, MemoryUpsert, TpCache, Fail, Done, CommitPcs
  <2>2. temps' = temps /\ counter' = counter
    BY <1>5 DEF DiskFail, S3Put, MemoryUpsert, TpCache, store
  <2>3. QED
    BY <2>1, <2>2, TempFrame
<1>6. ASSUME NEW t \in Threads, TpCheck(t) PROVE TempInv'
  <2>1. thread'[t].pc \in {"rest", "request"} /\ \A u \in Threads \ {t} : thread'[u] = thread[u]
    BY <1>6, CheckEffect, EndEffect DEF TpCheck, Fail
  <2>2. QED
    BY <1>6, <2>1, TempFrame DEF TpCheck, store
<1>7. ASSUME NEW t \in Threads, TpRequest(t) PROVE TempInv'
  <2>1. thread'[t].pc \in {"rest", "cache"} /\ \A u \in Threads \ {t} : thread'[u] = thread[u]
    BY <1>7, CommitGoto, EndEffect DEF TpRequest, ExecuteFails, Fail, CommitPcs
  <2>2. QED
    BY <1>7, <2>1, TempFrame DEF TpRequest
<1>8. ASSUME NEW t \in Threads, MemoryDelete(t) \/ TpDelete(t) \/ DiskDelete(t) \/ S3Delete(t)
      PROVE  TempInv'
  <2>1. thread'[t].pc \in {"rest", "unput"} /\ \A u \in Threads \ {t} : thread'[u] = thread[u]
    BY <1>8, DeleteGoto, EndEffect
       DEF MemoryDelete, TpDelete, DiskDelete, S3Delete, Deleted, DeleteOrder, Fail, Done, DeletePcs
  <2>2. temps' = temps /\ counter' = counter
    BY <1>8 DEF MemoryDelete, TpDelete, DiskDelete, S3Delete
  <2>3. QED
    BY <2>1, <2>2, TempFrame
<1>9. CASE Crash
  BY <1>9 DEF Crash, TempInv, Owning, Rest
<1>10. ASSUME UNCHANGED <<thread, temps, counter>> PROVE TempInv'
  BY <1>10, TempFrame
<1>11. ASSUME NEW t \in Threads, NEW id \in Ids, NEW v \in Values, NEW d \in Dims,
              CommitStart(t, id, v, d)
       PROVE  TempInv'
  BY <1>1, <1>11, CommitOp
<1>12. ASSUME NEW t \in Threads, NEW id \in Ids, DeleteStart(t, id) PROVE TempInv'
  BY <1>1, <1>12, DeleteOp
<1>13. QED
  BY <1>2, <1>3, <1>4, <1>5, <1>6, <1>7, <1>8, <1>9, <1>10, <1>11, <1>12
     DEF Next, CommitStep, Get, Query, vars, store

-----------------------------------------------------------------------------
(* Types, and what a reader gets *)

LEMMA FrameOf == \A v \in Values : Compress(v) \in Frames /\ Compress(v) # None
BY StoresAssumption DEF Frames

\* What every step of an operation leaves well-typed, given its effect on the
\* thread.
LEMMA TypesStep ==
  ASSUME Types, TempInv, [Next]_vars
  PROVE  Types'
<1> DEFINE Threaded == [Threads -> CommitThread \cup DeleteThread \cup {Rest}]
<1>0. USE StoresAssumption, FrameOf
<1>1. ASSUME NEW t \in Threads, NEW op \in CommitThread \cup DeleteThread, Start(t, op)
      PROVE  Types'
  <2>1. thread' \in Threaded
    BY <1>1, StartEffect
  <2>2. settled' \in [Ids -> Values \cup {None, Unknown}]
    BY <1>1 DEF Start, Types
  <2>3. QED
    BY <1>1, <2>1, <2>2 DEF Start, Types, store
<1>2. ASSUME NEW t \in Threads, DiskCreate(t) PROVE Types'
  <2>1. thread' \in Threaded
    BY <1>2, CreateEffect
  <2>2. QED
    BY <1>2, <2>1 DEF DiskCreate, Types, ghost
<1>3. ASSUME NEW t \in Threads, DiskWrite(t) PROVE Types'
  <2>1. thread' \in Threaded
    BY <1>3, CommitGoto DEF DiskWrite, CommitPcs
  <2>2. QED
    BY <1>3, <2>1 DEF DiskWrite, Types, ghost
<1>4. ASSUME NEW t \in Threads, DiskRename(t) PROVE Types'
  <2>1. thread' \in Threaded
    BY <1>4, CommitGoto DEF DiskRename, CommitPcs
  <2>2. thread[t].value \in Values /\ temps[thread[t].temp] = Compress(thread[t].value)
    BY <1>4, PcKind DEF DiskRename, TempInv, CommitThread, CommitPcs
  <2>3. objects' \in [Ids -> Frames \cup {None}]
    BY <1>4, <2>2 DEF DiskRename, Types
  <2>4. QED
    BY <1>4, <2>1, <2>3 DEF DiskRename, Types, ghost
<1>5. ASSUME NEW t \in Threads, DiskFail(t) PROVE Types'
  <2>1. thread' \in Threaded
    BY <1>5, EndEffect DEF DiskFail, Fail
  <2>2. QED
    BY <1>5, <2>1 DEF DiskFail, Fail, Types, ghost, store
<1>6. ASSUME NEW t \in Threads, S3Put(t) PROVE Types'
  <2>1. thread' \in Threaded /\ thread[t] \in CommitThread
    BY <1>6, EndEffect, CommitGoto, PcKind DEF S3Put, Fail, CommitPcs
  <2>2. objects' \in [Ids -> Frames \cup {None}]
    BY <1>6, <2>1 DEF S3Put, Types, CommitThread
  <2>3. faults' \in Nat /\ settled' = settled
    BY <1>6 DEF S3Put, Fail, ghost, Types
  <2>4. QED
    BY <1>6, <2>1, <2>2, <2>3 DEF S3Put, Types
<1>7. ASSUME NEW t \in Threads, MemoryUpsert(t) PROVE Types'
  <2>1. thread' \in Threaded /\ thread[t] \in CommitThread
    BY <1>7, EndEffect, PcKind DEF MemoryUpsert, Fail, Done, CommitPcs
  <2>2. thread[t].id \in Ids /\ thread[t].dim \in Dims /\ thread[t].value \in Values
    BY <2>1 DEF CommitThread
  <2>3. settled' \in [Ids -> Values \cup {None, Unknown}]
    BY <1>7, <2>2 DEF MemoryUpsert, Done, Fail, ghost, Types
  <2>4. QED
    BY <1>7, <2>1, <2>2, <2>3 DEF MemoryUpsert, Types, Fail
<1>8. ASSUME NEW t \in Threads, TpCheck(t) PROVE Types'
  <2>1. thread' \in Threaded
    BY <1>8, CheckEffect, EndEffect DEF TpCheck, Fail
  <2>2. QED
    BY <1>8, <2>1 DEF TpCheck, Types, Fail, ghost, store
<1>9. ASSUME NEW t \in Threads, TpRequest(t) PROVE Types'
  <2>1. thread' \in Threaded /\ thread[t] \in CommitThread
    BY <1>9, EndEffect, CommitGoto, PcKind DEF TpRequest, ExecuteFails, Fail, CommitPcs
  <2>2. thread[t].id \in Ids /\ thread[t].dim \in Dims
    BY <2>1 DEF CommitThread
  <2>3. rows' \subseteq Ids /\ indexDim' \in Dims \cup {None}
    BY <1>9, <2>2 DEF TpRequest, ExecuteFails, TpStores, Types
  <2>4. faults' \in Nat /\ settled' = settled
    BY <1>9 DEF TpRequest, ExecuteFails, Fail, ghost, Types
  <2>5. QED
    BY <1>9, <2>1, <2>3, <2>4 DEF TpRequest, Types
<1>10. ASSUME NEW t \in Threads, TpCache(t) PROVE Types'
  <2>1. thread' \in Threaded /\ thread[t] \in CommitThread
    BY <1>10, EndEffect, PcKind DEF TpCache, Done, CommitPcs
  <2>2. thread[t].dim \in Dims /\ thread[t].value \in Values
    BY <2>1 DEF CommitThread
  <2>3. settled' \in [Ids -> Values \cup {None, Unknown}]
    BY <1>10, <2>2 DEF TpCache, Done, Types
  <2>4. QED
    BY <1>10, <2>1, <2>2, <2>3 DEF TpCache, Types, store
<1>11. ASSUME NEW t \in Threads, MemoryDelete(t) \/ TpDelete(t) \/ DiskDelete(t) \/ S3Delete(t)
       PROVE  Types'
  <2>1. thread' \in Threaded
    BY <1>11, DeleteGoto, EndEffect
       DEF MemoryDelete, TpDelete, DiskDelete, S3Delete, Deleted, DeleteOrder, Fail, Done, DeletePcs
  <2>2. settled' \in [Ids -> Values \cup {None, Unknown}] /\ faults' \in Nat
    BY <1>11 DEF MemoryDelete, TpDelete, DiskDelete, S3Delete, Deleted, Fail, Done, ghost, Types
  <2>3. objects' \in [Ids -> Frames \cup {None}] /\ rows' \subseteq Ids
    BY <1>11 DEF MemoryDelete, TpDelete, DiskDelete, S3Delete, Types
  <2>4. QED
    BY <1>11, <2>1, <2>2, <2>3 DEF MemoryDelete, TpDelete, DiskDelete, S3Delete, Types
<1>12. ASSUME NEW id \in Ids, Get(id) PROVE Types'
  <2>1. PICK read \in {objects[id], Error} :
          got' = IF read \in {None, Error} THEN read ELSE Decompress(read)
    BY <1>12 DEF Get, DiskGet, S3Get
  <2>2. \A v \in Values : Decompress(Compress(v)) = v
    BY DEF Decompress, Compress
  <2>3. got' \in Values \cup {None, Error}
    BY <2>1, <2>2 DEF Types, Frames
  <2>4. QED
    BY <1>12, <2>3 DEF Get, Types, store, ghost
<1>13. CASE Crash
  BY <1>13 DEF Crash, Types, ghost
<1>14. ASSUME NEW d \in Dims, Query(d) PROVE Types'
  BY <1>14 DEF Query, Types, store, ghost
<1>15. CASE UNCHANGED vars
  BY <1>15 DEF vars, Types, store, ghost
<1>16. ASSUME NEW t \in Threads, NEW id \in Ids, NEW v \in Values, NEW d \in Dims,
              CommitStart(t, id, v, d)
       PROVE  Types'
  BY <1>1, <1>16, CommitOp
<1>17. ASSUME NEW t \in Threads, NEW id \in Ids, DeleteStart(t, id) PROVE Types'
  BY <1>1, <1>17, DeleteOp
<1>18. QED
  BY <1>2, <1>3, <1>4, <1>5, <1>6, <1>7, <1>8, <1>9, <1>10, <1>11, <1>12, <1>13, <1>14, <1>15,
     <1>16, <1>17 DEF Next, CommitStep

LEMMA InitTypes == Init => Types /\ TempInv
<1> SUFFICES ASSUME Init PROVE Types /\ TempInv
  OBVIOUS
<1>1. Types
  BY DEF Init, Types
<1>2. TempInv
  BY DEF Init, TempInv, Owning, Rest
<1>3. QED
  BY <1>1, <1>2

LEMMA TypesCorrect == Spec => [](Types /\ TempInv)
<1>1. Types /\ TempInv /\ [Next]_vars => (Types /\ TempInv)'
  BY TypesStep, TempStep
<1>2. QED
  BY <1>1, InitTypes, PTL DEF Spec

\* For every number of threads, entries, operations and kills, a Get returns a
\* whole committed value, nothing, or the store's own error: a put becomes
\* visible by a rename of a finished frame under a name no other running put
\* has (object_disk.rs put).
THEOREM WholeValueCorrect == Spec => []WholeValue
<1>1. Types => WholeValue
  BY DEF Types, WholeValue
<1>2. QED
  BY <1>1, TypesCorrect, PTL

-----------------------------------------------------------------------------
(* The dimension *)

\* The index keeps its dimension once it has one; a thread that still stands at
\* its request or its cache fill keeps what it knows of it.
LEMMA DimFrame ==
  ASSUME Types, DimInv, kind' = kind,
         indexDim' = indexDim, dimCache' \in {dimCache, indexDim}, mismatch' = mismatch,
         \A u \in Threads :
           thread'[u].pc \in {"request", "cache"} =>
             /\ thread'[u].pc = thread[u].pc /\ thread'[u].cached = thread[u].cached
             /\ thread'[u].dim = thread[u].dim
  PROVE  DimInv'
BY DEF DimInv

LEMMA KindFixed == [Next]_vars => kind' = kind
<1> SUFFICES ASSUME [Next]_vars PROVE kind' = kind
  OBVIOUS
<1>1. ASSUME NEW t \in Threads, CommitStep(t) PROVE kind' = kind
  BY <1>1 DEF CommitStep, DiskCreate, DiskWrite, DiskRename, DiskFail, S3Put, MemoryUpsert, TpCheck,
     TpRequest, TpCache
<1>2. ASSUME NEW t \in Threads, MemoryDelete(t) \/ TpDelete(t) \/ DiskDelete(t) \/ S3Delete(t)
      PROVE  kind' = kind
  BY <1>2 DEF MemoryDelete, TpDelete, DiskDelete, S3Delete
<1>3. ASSUME NEW t \in Threads, \/ \E id \in Ids, v \in Values, d \in Dims : CommitStart(t, id, v, d)
                                \/ \E id \in Ids : DeleteStart(t, id)
      PROVE  kind' = kind
  BY <1>3 DEF CommitStart, DeleteStart, Start
<1>4. ASSUME (\E id \in Ids : Get(id)) \/ (\E d \in Dims : Query(d)) \/ Crash PROVE kind' = kind
  BY <1>4 DEF Get, Query, Crash
<1> QED
  BY <1>1, <1>2, <1>3, <1>4 DEF Next, vars

\* A step preserves what is known of the dimension: the cache is filled after a
\* request that was accepted, and the index never changes its dimension under
\* a daemon that has seen it.
LEMMA DimStep ==
  ASSUME Types, DimInv, [Next]_vars
  PROVE  DimInv'
<1>0. None \notin Dims
  BY StoresAssumption
<1>k. kind' = kind
  BY KindFixed
<1> USE <1>k
<1>1. ASSUME NEW t \in Threads, NEW op \in CommitThread \cup DeleteThread, Start(t, op),
             op.pc \notin {"request", "cache"}
      PROVE  DimInv'
  BY <1>1, StartEffect, DimFrame DEF Start, store, CommitPcs
<1>2. ASSUME NEW t \in Threads,
             DiskCreate(t) \/ DiskWrite(t) \/ DiskRename(t) \/ DiskFail(t) \/ S3Put(t)
      PROVE  DimInv'
  <2>1. /\ thread'[t].pc \notin {"request", "cache"}
        /\ \A u \in Threads \ {t} : thread'[u] = thread[u]
    BY <1>2, CreateEffect, CommitGoto, EndEffect
       DEF DiskWrite, DiskRename, DiskFail, S3Put, Fail, CommitPcs
  <2>2. UNCHANGED <<indexDim, dimCache, mismatch>>
    BY <1>2 DEF DiskCreate, DiskWrite, DiskRename, DiskFail, S3Put, store
  <2>3. QED
    BY <2>1, <2>2, DimFrame
<1>3. ASSUME NEW t \in Threads, MemoryUpsert(t) PROVE DimInv'
  <2>1. thread'[t].pc = "rest" /\ \A u \in Threads \ {t} : thread'[u] = thread[u]
    BY <1>3, EndEffect DEF MemoryUpsert, Fail, Done
  <2>2. /\ thread[t].dim # None /\ indexDim \in {None, indexDim'} /\ indexDim' # None
        /\ dimCache' = dimCache
        /\ \/ mismatch' = mismatch
           \/ mismatch'.got # mismatch'.want /\ mismatch'.want = indexDim'
    BY <1>0, <1>3, PcKind DEF MemoryUpsert, CommitThread, CommitPcs, Types
  <2>3. \A u \in Threads : thread[u].pc \in {"request", "cache"} =>
          thread[u].cached \in Dims \cup {None} /\ thread[u].dim \in Dims
    BY PcKind DEF CommitPcs, CommitThread
  <2>4. QED
    BY <1>0, <2>1, <2>2, <2>3 DEF DimInv
<1>4. ASSUME NEW t \in Threads, TpCheck(t) PROVE DimInv'
  <2>1. CASE dimCache \in {None, thread[t].dim}
    <3>1. /\ thread'[t].pc = "request" /\ thread'[t].cached = dimCache
          /\ \A u \in Threads \ {t} : thread'[u] = thread[u]
      BY <1>4, <2>1, CheckEffect DEF TpCheck
    <3>2. UNCHANGED <<indexDim, dimCache, mismatch>>
      BY <1>4, <2>1 DEF TpCheck, store
    <3>3. QED
      BY <1>4, <3>1, <3>2 DEF DimInv, TpCheck
  <2>2. CASE dimCache \notin {None, thread[t].dim}
    <3>1. thread'[t].pc = "rest" /\ \A u \in Threads \ {t} : thread'[u] = thread[u]
      BY <1>4, <2>2, EndEffect DEF TpCheck, Fail
    <3>2. /\ UNCHANGED <<indexDim, dimCache>>
          /\ mismatch'.got # mismatch'.want /\ mismatch'.want = dimCache
      BY <1>4, <2>2 DEF TpCheck, store
    <3>3. QED
      BY <2>2, <3>1, <3>2 DEF DimInv
  <2>3. QED
    BY <2>1, <2>2
<1>5. ASSUME NEW t \in Threads, TpRequest(t) PROVE DimInv'
  <2>1. thread[t] \in CommitThread /\ thread[t].pc = "request" /\ thread[t].dim # None
    BY <1>0, <1>5, PcKind DEF TpRequest, CommitPcs, CommitThread
  <2>2. \A u \in Threads : thread[u].pc \in {"request", "cache"} =>
          thread[u].cached \in Dims \cup {None} /\ thread[u].dim \in Dims
    BY PcKind DEF CommitPcs, CommitThread
  <2>3. CASE TpStores(t) /\ Goto(t, "cache") /\ UNCHANGED mismatch
    <3>1. /\ thread'[t].pc = "cache" /\ thread'[t].dim = thread[t].dim
          /\ \A u \in Threads \ {t} : thread'[u] = thread[u]
      BY <2>1, <2>3, CommitGoto DEF CommitPcs
    <3>2. /\ indexDim \in {None, indexDim'} /\ indexDim' = thread[t].dim
          /\ UNCHANGED <<dimCache, mismatch>>
      BY <1>5, <2>3 DEF TpRequest, TpStores
    <3>3. QED
      BY <1>0, <2>1, <2>2, <3>1, <3>2 DEF DimInv
  <2>4. CASE /\ DimensionError(thread[t].dim, thread[t].cached)
             /\ Fail(t) /\ UNCHANGED <<rows, indexDim>>
    <3>1. thread'[t].pc = "rest" /\ \A u \in Threads \ {t} : thread'[u] = thread[u]
      BY <2>4, EndEffect DEF Fail
    <3>2. UNCHANGED <<indexDim, dimCache>>
      BY <1>5, <2>4 DEF TpRequest
    <3>3. \/ mismatch' = mismatch
          \/ /\ mismatch'.want = indexDim /\ indexDim # None
             /\ kind.vector = "turbopuffer"
      BY <2>1, <2>4 DEF DimInv, DimensionError
    <3>4. QED
      BY <3>1, <3>2, <3>3 DEF DimInv
  <2>5. CASE ExecuteFails(t)
    <3>1. thread'[t].pc = "rest" /\ \A u \in Threads \ {t} : thread'[u] = thread[u]
      BY <2>5, EndEffect DEF ExecuteFails, Fail
    <3>2. /\ indexDim \in {None, indexDim'}
          /\ UNCHANGED <<dimCache, mismatch>>
      BY <1>5, <2>5 DEF TpRequest, ExecuteFails, TpStores
    <3>3. QED
      BY <1>0, <2>2, <3>1, <3>2 DEF DimInv
  <2>6. QED
    BY <1>5, <2>3, <2>4, <2>5 DEF TpRequest
<1>6. ASSUME NEW t \in Threads, TpCache(t) PROVE DimInv'
  <2>1. thread'[t].pc = "rest" /\ \A u \in Threads \ {t} : thread'[u] = thread[u]
    BY <1>6, EndEffect DEF TpCache, Done
  <2>2. indexDim' = indexDim /\ dimCache' = indexDim /\ mismatch' = mismatch
    BY <1>6 DEF TpCache, store, DimInv
  <2>3. QED
    BY <2>1, <2>2, DimFrame
<1>7. ASSUME NEW t \in Threads, MemoryDelete(t) \/ TpDelete(t) \/ DiskDelete(t) \/ S3Delete(t)
      PROVE  DimInv'
  <2>1. thread'[t].pc \in {"rest", "unput"} /\ \A u \in Threads \ {t} : thread'[u] = thread[u]
    BY <1>7, DeleteGoto, EndEffect
       DEF MemoryDelete, TpDelete, DiskDelete, S3Delete, Deleted, DeleteOrder, Fail, Done, DeletePcs
  <2>2. UNCHANGED <<indexDim, dimCache, mismatch>>
    BY <1>7 DEF MemoryDelete, TpDelete, DiskDelete, S3Delete
  <2>3. QED
    BY <2>1, <2>2, DimFrame
<1>8. ASSUME NEW d \in Dims, Query(d) PROVE DimInv'
  <2>1. /\ UNCHANGED <<thread, indexDim, dimCache>>
        /\ \/ mismatch' = mismatch
           \/ /\ mismatch'.want = indexDim /\ indexDim # None
              /\ kind.vector = "memory" => mismatch'.got # mismatch'.want
    BY <1>8 DEF Query, DimensionError, DimInv, store
  <2>2. QED
    BY <2>1 DEF DimInv
<1>9. CASE Crash
  BY <1>9 DEF Crash, DimInv, Rest
<1>10. ASSUME UNCHANGED <<thread, indexDim, dimCache, mismatch>> PROVE DimInv'
  BY <1>10, DimFrame
<1>11. ASSUME NEW t \in Threads, NEW id \in Ids, NEW v \in Values, NEW d \in Dims,
              CommitStart(t, id, v, d)
       PROVE  DimInv'
  BY <1>1, <1>11, CommitOp
<1>12. ASSUME NEW t \in Threads, NEW id \in Ids, DeleteStart(t, id) PROVE DimInv'
  BY <1>1, <1>12, DeleteOp
<1>13. QED
  BY <1>2, <1>3, <1>4, <1>5, <1>6, <1>7, <1>8, <1>9, <1>10, <1>11, <1>12
     DEF Next, CommitStep, Get, vars, store

\* For every number of threads, dimensions and kills, a DimMismatch names the
\* dimension the index really has, the cached dimension is never another one,
\* and the memory index raises none for an embedding that fits, whatever the
\* best-effort reading of turbopuffer's answers makes of them
\* (vector_turbopuffer.rs upsert, query; vector_memory.rs upsert).
THEOREM DimMismatchTrueCorrect == Spec => []DimMismatchTrue
<1>1. Init => DimInv
  BY DEF Init, DimInv, Rest
<1>2. Types /\ DimInv /\ [Next]_vars => DimInv'
  BY DimStep
<1>3. DimInv => DimMismatchTrue
  BY DEF DimInv, DimMismatchTrue
<1>4. QED
  BY <1>1, <1>2, <1>3, TypesCorrect, PTL DEF Spec

-----------------------------------------------------------------------------
(* Commits and deletes of one entry *)

\* A step of an operation ends it or leaves it the same operation, and leaves
\* the other threads alone.
LEMMA StepKept ==
  ASSUME Types, NEW t \in Threads,
         CommitStep(t) \/ MemoryDelete(t) \/ TpDelete(t) \/ DiskDelete(t) \/ S3Delete(t)
  PROVE  /\ thread[t].pc # "rest"
         /\ thread'[t].pc # "rest" =>
              /\ thread'[t].id = thread[t].id /\ thread'[t].alone = thread[t].alone
              /\ thread'[t].pc \in CommitPcs =>
                   thread[t].pc \in CommitPcs /\ thread'[t].value = thread[t].value
              /\ thread'[t].pc \in DeletePcs => thread[t].pc \in DeletePcs
         /\ \A u \in Threads \ {t} : thread'[u] = thread[u]
<1>1. ASSUME DiskCreate(t) PROVE thread[t].pc \in CommitPcs /\ thread'[t].pc \in CommitPcs
  BY <1>1, CreateEffect DEF DiskCreate, CommitPcs
<1>2. CommitPcs \cap DeletePcs = {} /\ "rest" \notin CommitPcs /\ "rest" \notin DeletePcs
  BY DEF CommitPcs, DeletePcs
<1>3. CASE DiskCreate(t)
  BY <1>1, <1>2, <1>3, CreateEffect
<1>4. CASE DiskWrite(t) \/ DiskRename(t) \/ DiskFail(t) \/ S3Put(t) \/ MemoryUpsert(t) \/ TpCache(t)
  <2>1. thread[t].pc \in CommitPcs
    BY <1>4 DEF DiskWrite, DiskRename, DiskFail, S3Put, MemoryUpsert, TpCache, CommitPcs
  <2>2. \/ thread' = [thread EXCEPT ![t] = Rest]
        \/ \E pc \in CommitPcs : Goto(t, pc)
    BY <1>4 DEF DiskWrite, DiskRename, DiskFail, S3Put, MemoryUpsert, TpCache, Fail, Done, CommitPcs
  <2>3. QED
    BY <1>2, <2>1, <2>2, CommitGoto, EndEffect
<1>5. CASE TpCheck(t)
  BY <1>5, CheckEffect, EndEffect DEF TpCheck, Fail, CommitPcs, DeletePcs
<1>6. CASE TpRequest(t)
  BY <1>6, CommitGoto, EndEffect DEF TpRequest, ExecuteFails, Fail, CommitPcs, DeletePcs
<1>7. CASE MemoryDelete(t) \/ TpDelete(t) \/ DiskDelete(t) \/ S3Delete(t)
  <2>1. thread[t].pc \in DeletePcs
    BY <1>7 DEF MemoryDelete, TpDelete, DiskDelete, S3Delete, DeletePcs
  <2>2. \/ thread' = [thread EXCEPT ![t] = Rest]
        \/ \E pc \in DeletePcs : Goto(t, pc)
    BY <1>7 DEF MemoryDelete, TpDelete, DiskDelete, S3Delete, Deleted, DeleteOrder, Fail, Done, DeletePcs
  <2>3. QED
    BY <1>2, <2>1, <2>2, DeleteGoto, EndEffect
<1>8. QED
  BY <1>3, <1>4, <1>5, <1>6, <1>7 DEF CommitStep

\* What a step of an operation does to the stores.
LEMMA StoreEffect ==
  ASSUME Types, TempInv, NEW t \in Threads,
         CommitStep(t) \/ MemoryDelete(t) \/ TpDelete(t) \/ DiskDelete(t) \/ S3Delete(t)
  PROVE  /\ raced' = raced /\ kind' = kind
         /\ thread[t].id \in Ids
         /\ \A id \in Ids \ {thread[t].id} : objects'[id] = objects[id] /\ (id \in rows' <=> id \in rows)
         /\ thread[t].pc \in {"create", "write", "rename", "s3put"} =>
              /\ rows' = rows
              /\ objects' \in {objects, [objects EXCEPT ![thread[t].id] = Compress(thread[t].value)]}
              /\ thread'[t].pc = "upsert" => objects'[thread[t].id] = Compress(thread[t].value)
              /\ thread'[t].pc \in {"rest", "write", "rename", "upsert"}
         /\ thread[t].pc \in {"upsert", "request", "cache"} =>
              /\ objects' = objects /\ rows' \in {rows, rows \cup {thread[t].id}}
              /\ thread'[t].pc \in {"rest", "request", "cache"}
              /\ thread[t].pc = "cache" => rows' = rows
              /\ thread'[t].pc = "request" => thread[t].pc = "upsert"
              /\ thread'[t].pc = "cache" => thread[t].id \in rows'
         /\ thread[t].pc = "unindex" =>
              /\ objects' = objects /\ rows' \in {rows, rows \ {thread[t].id}}
              /\ thread'[t].pc \in {"rest", "unput"}
              /\ thread'[t].pc = "unput" => thread[t].id \notin rows'
         /\ thread[t].pc = "unput" =>
              /\ rows' = rows /\ objects' \in {objects, [objects EXCEPT ![thread[t].id] = None]}
              /\ thread'[t].pc = "rest"
<1>0. thread[t].pc # "rest" => thread[t].id \in Ids
  BY PcKind DEF CommitThread, DeleteThread
<1> USE DEF Types
<1>1. CASE DiskCreate(t)
  <2>1. thread'[t].pc = "write" /\ thread[t].pc = "create"
    BY <1>1, CreateEffect DEF DiskCreate
  <2>2. UNCHANGED <<raced, kind, objects, rows>>
    BY <1>1 DEF DiskCreate, ghost
  <2>3. QED
    BY <1>0, <2>1, <2>2
<1>2. CASE DiskWrite(t)
  <2>1. thread'[t].pc = "rename" /\ thread[t].pc = "write"
    BY <1>2, CommitGoto DEF DiskWrite, CommitPcs
  <2>2. UNCHANGED <<raced, kind, objects, rows>>
    BY <1>2 DEF DiskWrite, ghost
  <2>3. QED
    BY <1>0, <2>1, <2>2
<1>3. CASE DiskRename(t)
  <2>1. thread'[t].pc = "upsert" /\ thread[t].pc = "rename"
    BY <1>3, CommitGoto DEF DiskRename, CommitPcs
  <2>2. UNCHANGED <<raced, kind, rows>> /\ temps[thread[t].temp] = Compress(thread[t].value)
    BY <1>3 DEF DiskRename, ghost, TempInv
  <2>3. objects' = [objects EXCEPT ![thread[t].id] = Compress(thread[t].value)]
    BY <1>3, <2>2 DEF DiskRename
  <2>4. QED
    BY <1>0, <2>1, <2>2, <2>3
<1>4. CASE DiskFail(t)
  <2>1. thread'[t].pc = "rest" /\ thread[t].pc \in {"create", "write", "rename"}
    BY <1>4, EndEffect DEF DiskFail, Fail
  <2>2. UNCHANGED <<raced, kind, objects, rows>>
    BY <1>4 DEF DiskFail, Fail, ghost, store
  <2>3. QED
    BY <1>0, <2>1, <2>2
<1>5. CASE S3Put(t)
  <2>1. thread[t].pc = "s3put" /\ UNCHANGED <<raced, kind, rows>>
    BY <1>5 DEF S3Put, Fail, ghost
  <2>2. \/ /\ thread'[t].pc = "upsert"
           /\ objects' = [objects EXCEPT ![thread[t].id] = Compress(thread[t].value)]
        \/ /\ thread'[t].pc = "rest"
           /\ objects' \in {objects, [objects EXCEPT ![thread[t].id] = Compress(thread[t].value)]}
    BY <1>5, CommitGoto, EndEffect DEF S3Put, Fail, CommitPcs
  <2>3. QED
    BY <1>0, <2>1, <2>2
<1>6. CASE MemoryUpsert(t)
  <2>1. thread'[t].pc = "rest" /\ thread[t].pc = "upsert"
    BY <1>6, EndEffect DEF MemoryUpsert, Fail, Done
  <2>2. UNCHANGED <<raced, kind, objects>> /\ rows' \in {rows, rows \cup {thread[t].id}}
    BY <1>6 DEF MemoryUpsert, Fail, Done, ghost
  <2>3. QED
    BY <1>0, <2>1, <2>2
<1>7. CASE TpCheck(t)
  <2>1. thread'[t].pc \in {"rest", "request"} /\ thread[t].pc = "upsert"
    BY <1>7, EndEffect, CheckEffect DEF TpCheck, Fail
  <2>2. UNCHANGED <<raced, kind, objects, rows>>
    BY <1>7 DEF TpCheck, Fail, ghost, store
  <2>3. QED
    BY <1>0, <2>1, <2>2
<1>8. CASE TpRequest(t)
  <2>1. thread[t].pc = "request" /\ UNCHANGED <<raced, kind, objects>>
    BY <1>8 DEF TpRequest, ExecuteFails, Fail, ghost
  <2>2. \/ thread'[t].pc = "cache" /\ rows' = rows \cup {thread[t].id}
        \/ thread'[t].pc = "rest" /\ rows' \in {rows, rows \cup {thread[t].id}}
    BY <1>8, CommitGoto, EndEffect DEF TpRequest, ExecuteFails, TpStores, Fail, CommitPcs
  <2>3. QED
    BY <1>0, <2>1, <2>2
<1>9. CASE TpCache(t)
  <2>1. thread'[t].pc = "rest" /\ thread[t].pc = "cache"
    BY <1>9, EndEffect DEF TpCache, Done
  <2>2. UNCHANGED <<raced, kind, objects, rows>>
    BY <1>9 DEF TpCache, Done, store
  <2>3. QED
    BY <1>0, <2>1, <2>2
<1>10. CASE MemoryDelete(t) \/ TpDelete(t)
  <2>1. thread[t].pc = "unindex" /\ UNCHANGED <<raced, kind, objects>>
    BY <1>10 DEF MemoryDelete, TpDelete, Deleted, Done, Fail, ghost
  <2>2. \/ thread'[t].pc = "unput" /\ rows' = rows \ {thread[t].id}
        \/ thread'[t].pc = "rest" /\ rows' \in {rows, rows \ {thread[t].id}}
    BY <1>10, DeleteGoto, EndEffect
       DEF MemoryDelete, TpDelete, Deleted, DeleteOrder, Fail, Done, DeletePcs
  <2>3. QED
    BY <1>0, <2>1, <2>2
<1>11. CASE DiskDelete(t) \/ S3Delete(t)
  <2>1. thread[t].pc = "unput" /\ UNCHANGED <<raced, kind, rows>>
    BY <1>11 DEF DiskDelete, S3Delete, Deleted, Done, Fail, ghost
  <2>2. /\ thread'[t].pc = "rest"
        /\ objects' \in {objects, [objects EXCEPT ![thread[t].id] = None]}
    BY <1>11, EndEffect DEF DiskDelete, S3Delete, Deleted, DeleteOrder, Fail, Done
  <2>3. QED
    BY <1>0, <2>1, <2>2
<1>12. QED
  BY <1>1, <1>2, <1>3, <1>4, <1>5, <1>6, <1>7, <1>8, <1>9, <1>10, <1>11 DEF CommitStep

\* A step preserves the order of the two writes: commit puts before it indexes,
\* delete unindexes before it removes, and an entry on which they overlap is
\* counted as raced from the start of the later one.
LEMMA RaceStep ==
  ASSUME Types, TempInv, RaceInv, [Next]_vars
  PROVE  RaceInv'
<1> USE DEF RaceInv
<1>0. CommitPcs \cap DeletePcs = {} /\ "rest" \notin CommitPcs \cup DeletePcs
  BY DEF CommitPcs, DeletePcs
<1>1. ASSUME NEW t \in Threads, NEW op \in CommitThread \cup DeleteThread, Start(t, op),
             op.pc \in {"create", "s3put", "unindex"}
      PROVE  RaceInv'
  <2>1. /\ thread[t].pc = "rest" /\ thread'[t] = op
        /\ \A u \in Threads \ {t} :
             /\ thread'[u].pc = thread[u].pc
             /\ thread[u].pc # "rest" => thread'[u].id = thread[u].id
    BY <1>1, StartEffect
  <2>2. /\ raced' = raced \cup {id \in {op.id} : \E u \in OnId(id) : thread[u].op # op.op}
        /\ UNCHANGED <<objects, rows>>
    BY <1>1 DEF Start, store
  <2>3. OverlapInv'
    <3>1. ASSUME NEW u \in Threads \ {t}, thread[u].pc # "rest", thread[u].id = op.id,
                 \/ op.pc \in CommitPcs /\ thread[u].pc \in DeletePcs
                 \/ op.pc \in DeletePcs /\ thread[u].pc \in CommitPcs
          PROVE  op.id \in raced'
      <4>1. u \in OnId(op.id)
        BY <3>1 DEF OnId
      <4>2. thread[u].op # op.op
        BY <1>0, <1>1, <3>1, PcKind DEF CommitThread, DeleteThread
      <4>3. QED
        BY <2>2, <4>1, <4>2
    <3>2. QED
      BY <1>0, <2>1, <2>2, <3>1 DEF OverlapInv
  <2>4. OrderInv'
    BY <1>1, <2>1, <2>2 DEF OrderInv
  <2>5. RowHasObject'
    BY <2>2 DEF RowHasObject
  <2>6. QED
    BY <2>3, <2>4, <2>5
<1>2. ASSUME NEW t \in Threads,
             CommitStep(t) \/ MemoryDelete(t) \/ TpDelete(t) \/ DiskDelete(t) \/ S3Delete(t)
      PROVE  RaceInv'
  <2> DEFINE id == thread[t].id
  <2>1. /\ thread[t].pc # "rest"
        /\ thread'[t].pc # "rest" =>
             /\ thread'[t].id = id
             /\ thread'[t].pc \in CommitPcs => thread[t].pc \in CommitPcs
             /\ thread'[t].pc \in DeletePcs => thread[t].pc \in DeletePcs
        /\ \A u \in Threads \ {t} : thread'[u] = thread[u]
    BY <1>2, StepKept
  <2>2. raced' = raced /\ id \in Ids
    BY <1>2, StoreEffect
  <2>3. OverlapInv'
    BY <1>0, <2>1, <2>2 DEF OverlapInv
  <2>4. thread[t].pc \in CommitPcs \cup DeletePcs
    BY <2>1, PcKind
  <2>5. CASE thread[t].pc \in {"create", "write", "rename", "s3put"}
    <3>1. /\ rows' = rows
          /\ objects' \in {objects, [objects EXCEPT ![id] = Compress(thread[t].value)]}
          /\ thread'[t].pc = "upsert" => objects'[id] = Compress(thread[t].value)
          /\ thread'[t].pc \in {"rest", "write", "rename", "upsert"}
      BY <1>2, <2>5, StoreEffect
    <3>2. Compress(thread[t].value) # None
      BY <2>5, PcKind, FrameOf DEF CommitPcs, CommitThread
    <3>3. \A i \in Ids : objects[i] # None => objects'[i] # None
      BY <3>1, <3>2 DEF Types
    <3>4. \A u \in Threads : thread[u].pc # "rest" => thread[u].id \in Ids
      BY PcKind DEF CommitThread, DeleteThread
    <3>5. OrderInv'
      BY <2>1, <2>2, <3>1, <3>2, <3>3, <3>4 DEF OrderInv
    <3>6. RowHasObject'
      BY <2>2, <3>1, <3>3 DEF RowHasObject, Types
    <3>7. QED
      BY <2>3, <3>5, <3>6
  <2>6. CASE thread[t].pc \in {"upsert", "request", "cache"}
    <3>1. /\ objects' = objects /\ rows' \in {rows, rows \cup {id}}
          /\ thread'[t].pc \in {"rest", "request", "cache"}
          /\ thread[t].pc = "cache" => rows' = rows
          /\ thread'[t].pc = "request" => thread[t].pc = "upsert"
      BY <1>2, <2>6, StoreEffect
    <3>2. \A u \in Threads : thread[u].pc = "unput" /\ thread[u].id = id => id \in raced
      BY <2>6 DEF OverlapInv, CommitPcs, DeletePcs
    <3>3. OrderInv'
      BY <2>1, <2>2, <3>1, <3>2 DEF OrderInv
    <3>4. RowHasObject'
      BY <2>2, <2>6, <3>1 DEF RowHasObject, OrderInv
    <3>5. QED
      BY <2>3, <3>3, <3>4
  <2>7. CASE thread[t].pc = "unindex"
    <3>1. /\ objects' = objects /\ rows' \in {rows, rows \ {id}}
          /\ thread'[t].pc \in {"rest", "unput"}
          /\ thread'[t].pc = "unput" => id \notin rows'
      BY <1>2, <2>7, StoreEffect
    <3>2. OrderInv'
      BY <2>1, <2>2, <3>1 DEF OrderInv
    <3>3. RowHasObject'
      BY <2>2, <3>1 DEF RowHasObject
    <3>4. QED
      BY <2>3, <3>2, <3>3
  <2>8. CASE thread[t].pc = "unput"
    <3>1. /\ rows' = rows /\ objects' \in {objects, [objects EXCEPT ![id] = None]}
          /\ thread'[t].pc = "rest"
      BY <1>2, <2>8, StoreEffect
    <3>2. \A u \in Threads : thread[u].pc \in {"upsert", "request"} /\ thread[u].id = id => id \in raced
      BY <2>8 DEF OverlapInv, CommitPcs, DeletePcs
    <3>3. \A i \in Ids \ {id} : objects'[i] = objects[i]
      BY <3>1 DEF Types
    <3>4. \A u \in Threads : thread[u].pc # "rest" => thread[u].id \in Ids
      BY PcKind DEF CommitThread, DeleteThread
    <3>5. OrderInv'
      BY <2>1, <2>2, <3>1, <3>2, <3>3, <3>4 DEF OrderInv
    <3>6. id \notin rows \ raced
      BY <2>8 DEF OrderInv
    <3>7. RowHasObject'
      BY <2>2, <3>1, <3>3, <3>6 DEF RowHasObject, Types
    <3>8. QED
      BY <2>3, <3>5, <3>7
  <2>9. QED
    BY <2>4, <2>5, <2>6, <2>7, <2>8 DEF CommitPcs, DeletePcs
<1>3. CASE Crash
  <2>1. /\ \A u \in Threads : thread'[u].pc = "rest"
        /\ rows' \subseteq rows /\ UNCHANGED <<objects, raced>>
    BY <1>3 DEF Crash, Rest, ghost
  <2>2. QED
    BY <1>0, <2>1 DEF OverlapInv, OrderInv, RowHasObject
<1>4. ASSUME UNCHANGED <<thread, objects, rows, raced>> PROVE RaceInv'
  BY <1>4 DEF OverlapInv, OrderInv, RowHasObject
<1>5. ASSUME NEW t \in Threads, NEW id \in Ids, NEW v \in Values, NEW d \in Dims,
             CommitStart(t, id, v, d)
      PROVE  RaceInv'
  BY <1>1, <1>5, CommitOp
<1>6. ASSUME NEW t \in Threads, NEW id \in Ids, DeleteStart(t, id) PROVE RaceInv'
  BY <1>1, <1>6, DeleteOp
<1>7. QED
  BY <1>2, <1>3, <1>4, <1>5, <1>6 DEF Next, Get, Query, vars, store, ghost

\* For every number of threads, entries, failures and kills, an indexed entry
\* has its object unless a commit and a delete of it overlapped (cache.rs:130,
\* cache.rs:143).
THEOREM RowHasObjectCorrect == Spec => []RowHasObject
<1>1. Init => RaceInv
  BY DEF Init, RaceInv, OverlapInv, OrderInv, RowHasObject, Rest, CommitPcs, DeletePcs
<1>2. Types /\ TempInv /\ RaceInv /\ [Next]_vars => RaceInv'
  BY RaceStep
<1>3. RaceInv => RowHasObject
  BY DEF RaceInv
<1>4. QED
  BY <1>1, <1>2, <1>3, TypesCorrect, PTL DEF Spec

-----------------------------------------------------------------------------
(* What a client knows *)

\* A client learns what is stored only from an operation that ends well and has
\* met no other.
LEMMA SettleEffect ==
  ASSUME Types, NEW t \in Threads,
         CommitStep(t) \/ MemoryDelete(t) \/ TpDelete(t) \/ DiskDelete(t) \/ S3Delete(t)
  PROVE  \/ settled' = settled
         \/ /\ thread[t].alone /\ thread'[t].pc = "rest"
            /\ settled' = [settled EXCEPT ![thread[t].id] = thread[t].value]
            /\ (thread[t].pc = "upsert" /\ kind.vector = "memory") \/ thread[t].pc = "cache"
         \/ /\ thread[t].alone /\ thread'[t].pc = "rest"
            /\ settled' = [settled EXCEPT ![thread[t].id] = None]
            /\ thread[t].pc = "unput" /\ objects' = [objects EXCEPT ![thread[t].id] = None]
<1>1. CASE \/ DiskCreate(t) \/ DiskWrite(t) \/ DiskRename(t) \/ DiskFail(t) \/ S3Put(t)
           \/ TpCheck(t) \/ TpRequest(t)
  BY <1>1 DEF DiskCreate, DiskWrite, DiskRename, DiskFail, S3Put, TpCheck, TpRequest, ExecuteFails,
     Fail, ghost
<1>2. CASE MemoryUpsert(t) \/ TpCache(t)
  <2>1. thread'[t].pc = "rest"
    BY <1>2, EndEffect DEF MemoryUpsert, TpCache, Done, Fail
  <2>2. QED
    BY <1>2, <2>1 DEF MemoryUpsert, TpCache, Done, Fail, ghost
<1>3. CASE MemoryDelete(t) \/ TpDelete(t)
  BY <1>3 DEF MemoryDelete, TpDelete, Deleted, DeleteOrder, Fail, ghost
<1>4. CASE DiskDelete(t) \/ S3Delete(t)
  <2>1. thread'[t].pc = "rest"
    BY <1>4, EndEffect DEF DiskDelete, S3Delete, Deleted, DeleteOrder, Done, Fail
  <2>2. \/ Fail(t)
        \/ Done(t, None) /\ objects' = [objects EXCEPT ![thread[t].id] = None]
    BY <1>4 DEF DiskDelete, S3Delete, Deleted, DeleteOrder
  <2>3. QED
    BY <1>4, <2>1, <2>2 DEF DiskDelete, S3Delete, Done, Fail, ghost
<1>5. QED
  BY <1>1, <1>2, <1>3, <1>4 DEF CommitStep

\* A step preserves what an operation that has the entry to itself relies on,
\* and so what a client is told.
LEMMA AloneStep ==
  ASSUME Types, TempInv, AloneInv, [Next]_vars
  PROVE  AloneInv'
<1> USE DEF AloneInv
<1>0. /\ Unknown \notin Values /\ Unknown # None /\ None \notin Values
      /\ \A u \in Threads : thread[u].pc # "rest" => thread[u].id \in Ids
  BY StoresAssumption, PcKind DEF CommitThread, DeleteThread
<1>1. ASSUME NEW t \in Threads, NEW op \in CommitThread \cup DeleteThread, Start(t, op),
             op.pc \in {"create", "s3put", "unindex"}, op.alone = (OnId(op.id) = {})
      PROVE  AloneInv'
  <2>1. /\ thread[t].pc = "rest" /\ thread'[t] = op
        /\ \A u \in Threads \ {t} :
             /\ thread'[u].pc = thread[u].pc
             /\ thread[u].pc # "rest" =>
                  /\ thread'[u].id = thread[u].id
                  /\ thread'[u].alone = (thread[u].alone /\ thread[u].id # op.id)
             /\ thread[u].pc \in CommitPcs => thread'[u].value = thread[u].value
    BY <1>1, StartEffect
  <2>2. op.id \in Ids /\ op.pc # "rest"
    BY <1>1 DEF CommitThread, DeleteThread
  <2>3. /\ settled' = [settled EXCEPT ![op.id] = Unknown]
        /\ UNCHANGED <<objects, rows, kind>>
    BY <1>1 DEF Start, store
  <2>4. op.alone => \A u \in Threads : thread[u].pc # "rest" => thread[u].id # op.id
    BY <1>1 DEF OnId
  <2>5. SoleInv'
    <3>1. \A u \in Threads : thread'[u].pc # "rest" => settled'[thread'[u].id] = Unknown
      BY <1>0, <2>1, <2>2, <2>3 DEF SoleInv, Types
    <3>2. \A u, w \in Threads :
            /\ thread'[u].pc # "rest" /\ thread'[u].alone /\ thread'[w].pc # "rest"
            /\ thread'[u].id = thread'[w].id
            => u = w
      <4> SUFFICES ASSUME NEW u \in Threads, NEW w \in Threads,
                          thread'[u].pc # "rest", thread'[u].alone, thread'[w].pc # "rest",
                          thread'[u].id = thread'[w].id
                   PROVE  u = w
        OBVIOUS
      <4>1. CASE u = t
        BY <2>1, <2>4, <4>1
      <4>2. CASE u # t
        <5>1. thread[u].pc # "rest" /\ thread[u].alone /\ thread[u].id # op.id /\ thread[u].id = thread'[u].id
          BY <2>1, <4>2
        <5>2. w # t /\ thread[w].pc # "rest" /\ thread[w].id = thread'[w].id
          BY <2>1, <5>1
        <5>3. QED
          BY <5>1, <5>2 DEF SoleInv
      <4>3. QED
        BY <4>1, <4>2
    <3>3. QED
      BY <3>1, <3>2 DEF SoleInv
  <2>6. ProgressInv'
    BY <1>1, <2>1, <2>3 DEF ProgressInv, CommitPcs
  <2>7. ReportedIsStored'
    <3>1. settled'[op.id] = Unknown /\ \A id \in Ids \ {op.id} : settled'[id] = settled[id]
      BY <2>2, <2>3 DEF Types
    <3>2. QED
      BY <1>0, <2>3, <3>1 DEF ReportedIsStored
  <2>8. QED
    BY <2>5, <2>6, <2>7
<1>2. ASSUME NEW t \in Threads,
             CommitStep(t) \/ MemoryDelete(t) \/ TpDelete(t) \/ DiskDelete(t) \/ S3Delete(t)
      PROVE  AloneInv'
  <2> DEFINE id == thread[t].id
  <2>1. /\ thread[t].pc # "rest"
        /\ thread'[t].pc # "rest" =>
             /\ thread'[t].id = id /\ thread'[t].alone = thread[t].alone
             /\ thread'[t].pc \in CommitPcs => thread'[t].value = thread[t].value
        /\ \A u \in Threads \ {t} : thread'[u] = thread[u]
    BY <1>2, StepKept
  <2>2. /\ kind' = kind /\ id \in Ids /\ settled[id] = Unknown
        /\ \A i \in Ids \ {id} : objects'[i] = objects[i] /\ (i \in rows' <=> i \in rows)
    BY <1>2, <2>1, StoreEffect DEF SoleInv
  <2>3. \/ settled' = settled
        \/ thread[t].alone /\ thread'[t].pc = "rest" /\ \E v : settled' = [settled EXCEPT ![id] = v]
    BY <1>2, SettleEffect
  <2>4. /\ \A i \in Ids \ {id} : settled'[i] = settled[i]
        /\ thread[t].alone => \A u \in Threads \ {t} : thread[u].pc # "rest" => thread[u].id # id
    BY <2>1, <2>3 DEF SoleInv, Types
  <2>5. SoleInv'
    <3>1. \A u \in Threads : thread'[u].pc # "rest" => settled'[thread'[u].id] = Unknown
      BY <1>0, <2>1, <2>2, <2>3, <2>4 DEF SoleInv
    <3>2. QED
      BY <2>1, <3>1 DEF SoleInv
  <2>6. thread[t].pc \in CommitPcs \cup DeletePcs
    BY <2>1, PcKind
  <2>7. ProgressInv'
    <3>1. ASSUME NEW u \in Threads \ {t}, thread'[u].pc # "rest", thread'[u].alone
          PROVE  /\ thread'[u].pc \in {"upsert", "request", "cache"}
                      => objects'[thread'[u].id] = Compress(thread'[u].value)
                 /\ thread'[u].pc = "cache" => thread'[u].id \in rows'
                 /\ thread'[u].pc = "unput" => thread'[u].id \notin rows'
      <4>1. thread'[u] = thread[u] /\ thread[u].id # id /\ thread[u].id \in Ids
        BY <1>0, <2>1, <3>1 DEF SoleInv
      <4>2. QED
        BY <2>2, <3>1, <4>1 DEF ProgressInv
    <3>2. ASSUME thread'[t].pc # "rest", thread'[t].alone
          PROVE  /\ thread'[t].pc \in {"upsert", "request", "cache"}
                      => objects'[thread'[t].id] = Compress(thread'[t].value)
                 /\ thread'[t].pc = "cache" => thread'[t].id \in rows'
                 /\ thread'[t].pc = "unput" => thread'[t].id \notin rows'
      <4>1. CASE thread[t].pc \in {"create", "write", "rename", "s3put"}
        <5>1. /\ thread'[t].pc = "upsert" => objects'[id] = Compress(thread[t].value)
              /\ thread'[t].pc \in {"rest", "write", "rename", "upsert"}
          BY <1>2, <4>1, StoreEffect
        <5>2. QED
          BY <2>1, <3>2, <5>1 DEF CommitPcs
      <4>2. CASE thread[t].pc \in {"upsert", "request", "cache"}
        <5>1. /\ objects' = objects
              /\ thread'[t].pc \in {"rest", "request", "cache"}
              /\ thread'[t].pc = "cache" => id \in rows'
          BY <1>2, <4>2, StoreEffect
        <5>2. QED
          BY <2>1, <3>2, <4>2, <5>1 DEF CommitPcs, ProgressInv
      <4>3. CASE thread[t].pc \in {"unindex", "unput"}
        <5>1. /\ thread'[t].pc \in {"rest", "unput"}
              /\ thread'[t].pc = "unput" => id \notin rows'
          BY <1>2, <4>3, StoreEffect
        <5>2. QED
          BY <2>1, <3>2, <5>1
      <4>4. QED
        BY <2>6, <4>1, <4>2, <4>3 DEF CommitPcs, DeletePcs
    <3>3. QED
      BY <3>1, <3>2 DEF ProgressInv
  <2>8. ReportedIsStored'
    <3>1. /\ settled'[id] \in Values =>
               objects'[id] = Compress(settled'[id]) /\ (kind'.vector = "turbopuffer" => id \in rows')
          /\ settled'[id] = None => objects'[id] = None /\ id \notin rows'
      <4>1. CASE settled' = settled
        BY <1>0, <2>2, <4>1
      <4>2. CASE /\ thread[t].alone
                 /\ settled' = [settled EXCEPT ![id] = thread[t].value]
                 /\ (thread[t].pc = "upsert" /\ kind.vector = "memory") \/ thread[t].pc = "cache"
        <5>1. settled'[id] = thread[t].value /\ thread[t].value \in Values
          BY <2>2, <4>2, PcKind DEF Types, CommitPcs, CommitThread
        <5>2. objects' = objects /\ objects[id] = Compress(thread[t].value)
          BY <1>2, <4>2, StoreEffect DEF ProgressInv
        <5>3. kind'.vector = "turbopuffer" => rows' = rows /\ id \in rows
          BY <1>2, <2>2, <4>2, StoreEffect DEF ProgressInv
        <5>4. QED
          BY <1>0, <5>1, <5>2, <5>3
      <4>3. CASE /\ thread[t].alone /\ settled' = [settled EXCEPT ![id] = None]
                 /\ thread[t].pc = "unput" /\ objects' = [objects EXCEPT ![id] = None]
        <5>1. rows' = rows /\ id \notin rows
          BY <1>2, <4>3, StoreEffect DEF ProgressInv
        <5>2. settled'[id] = None /\ objects'[id] = None
          BY <2>2, <4>3 DEF Types
        <5>3. QED
          BY <1>0, <5>1, <5>2
      <4>4. QED
        BY <1>2, <4>1, <4>2, <4>3, SettleEffect
    <3>2. QED
      BY <2>2, <2>4, <3>1 DEF ReportedIsStored
  <2>9. QED
    BY <2>5, <2>7, <2>8
<1>3. CASE Crash
  <2>1. /\ \A u \in Threads : thread'[u].pc = "rest"
        /\ rows' \subseteq rows /\ (kind.vector = "turbopuffer" => rows' = rows)
        /\ UNCHANGED <<kind, objects, settled>>
    BY <1>3 DEF Crash, Rest, ghost
  <2>2. QED
    BY <2>1 DEF SoleInv, ProgressInv, ReportedIsStored
<1>4. ASSUME UNCHANGED <<kind, thread, objects, rows, settled>> PROVE AloneInv'
  BY <1>4 DEF SoleInv, ProgressInv, ReportedIsStored
<1>5. ASSUME NEW t \in Threads, NEW id \in Ids, NEW v \in Values, NEW d \in Dims,
             CommitStart(t, id, v, d)
      PROVE  AloneInv'
  BY <1>1, <1>5, CommitOp
<1>6. ASSUME NEW t \in Threads, NEW id \in Ids, DeleteStart(t, id) PROVE AloneInv'
  BY <1>1, <1>6, DeleteOp
<1>7. QED
  BY <1>2, <1>3, <1>4, <1>5, <1>6 DEF Next, Get, Query, vars, store, ghost

\* For every number of threads, entries, failures and kills, what a commit or a
\* delete that met no other reported as done is what is stored (cache.rs commit,
\* delete).
THEOREM ReportedIsStoredCorrect == Spec => []ReportedIsStored
<1>1. Init => AloneInv
  <2> SUFFICES ASSUME Init PROVE AloneInv
    OBVIOUS
  <2>1. SoleInv /\ ProgressInv
    BY DEF Init, SoleInv, ProgressInv, Rest
  <2>2. ReportedIsStored
    BY StoresAssumption DEF Init, ReportedIsStored
  <2>3. QED
    BY <2>1, <2>2 DEF AloneInv
<1>2. Types /\ TempInv /\ AloneInv /\ [Next]_vars => AloneInv'
  BY AloneStep
<1>3. AloneInv => ReportedIsStored
  BY DEF AloneInv
<1>4. QED
  BY <1>1, <1>2, <1>3, TypesCorrect, PTL DEF Spec

-----------------------------------------------------------------------------
(* The temporary files nobody owns *)

\* A step leaves a temporary file behind only when it fails or the daemon dies.
LEMMA LitterStep ==
  ASSUME Types, TempInv, LitterIsWreckage, [Next]_vars
  PROVE  LitterIsWreckage'
<1> DEFINE Owned == \A name \in DOMAIN temps : \E t \in Owning : thread[t].temp = name
<1>0. /\ LitterIsWreckage <=> (faults = 0 /\ crashes = 0 => Owned)
      /\ LitterIsWreckage' <=> (faults' = 0 /\ crashes' = 0 => Owned')
  BY DEF LitterIsWreckage, Owning
<1>1. ASSUME NEW t \in Threads, NEW op \in CommitThread \cup DeleteThread, Start(t, op)
      PROVE  LitterIsWreckage'
  <2>1. \A u \in Owning : u \in Owning' /\ thread'[u].temp = thread[u].temp
    BY <1>1, StartEffect DEF Owning, CommitPcs
  <2>2. UNCHANGED <<temps, faults, crashes>>
    BY <1>1 DEF Start, store
  <2>3. QED
    BY <1>0, <2>1, <2>2
<1>2. ASSUME NEW t \in Threads, DiskCreate(t) PROVE LitterIsWreckage'
  <2> DEFINE name == TempName(thread[t].id, counter)
  <2>1. /\ thread'[t].pc = "write" /\ thread'[t].temp = name
        /\ \A u \in Threads \ {t} : thread'[u] = thread[u]
    BY <1>2, CreateEffect
  <2>2. /\ UNCHANGED <<faults, crashes>> /\ DOMAIN temps' = DOMAIN temps \cup {name}
        /\ thread[t].pc = "create"
    BY <1>2 DEF DiskCreate, Written
  <2>3. t \in Owning' /\ \A u \in Owning : u \in Owning' /\ thread'[u].temp = thread[u].temp
    BY <2>1, <2>2 DEF Owning
  <2>4. QED
    BY <1>0, <2>1, <2>2, <2>3
<1>3. ASSUME NEW t \in Threads, DiskWrite(t) PROVE LitterIsWreckage'
  <2>1. /\ thread'[t].pc = "rename" /\ thread'[t].temp = thread[t].temp
        /\ \A u \in Threads \ {t} : thread'[u] = thread[u]
    BY <1>3, CommitGoto DEF DiskWrite, CommitPcs
  <2>2. /\ UNCHANGED <<faults, crashes>> /\ DOMAIN temps' = DOMAIN temps \cup {thread[t].temp}
    BY <1>3 DEF DiskWrite, Written
  <2>3. t \in Owning' /\ \A u \in Owning : u \in Owning' /\ thread'[u].temp = thread[u].temp
    BY <2>1 DEF Owning
  <2>4. QED
    BY <1>0, <2>1, <2>2, <2>3
<1>4. ASSUME NEW t \in Threads, DiskRename(t) PROVE LitterIsWreckage'
  <2>1. \A u \in Threads \ {t} : thread'[u] = thread[u]
    BY <1>4, CommitGoto DEF DiskRename, CommitPcs
  <2>2. /\ UNCHANGED <<faults, crashes>> /\ DOMAIN temps' = DOMAIN temps \ {thread[t].temp}
    BY <1>4 DEF DiskRename, Restrict
  <2>3. \A u \in Owning \ {t} : u \in Owning' /\ thread'[u].temp = thread[u].temp
    BY <2>1 DEF Owning
  <2>4. QED
    BY <1>0, <2>2, <2>3
<1>5. ASSUME faults' = faults + 1 \/ crashes' = crashes + 1,
             faults' \in {faults, faults + 1}, crashes' \in {crashes, crashes + 1}
      PROVE  LitterIsWreckage'
  <2>1. ~(faults' = 0 /\ crashes' = 0)
    BY <1>5 DEF Types
  <2>2. QED
    BY <1>0, <2>1
<1>6. ASSUME UNCHANGED <<temps, faults, crashes>>,
             \A u \in Owning : thread'[u] = thread[u]
      PROVE  LitterIsWreckage'
  <2>1. \A u \in Owning : u \in Owning' /\ thread'[u].temp = thread[u].temp
    BY <1>6 DEF Owning
  <2>2. QED
    BY <1>0, <1>6, <2>1
<1>7. ASSUME NEW t \in Threads,
             \/ DiskFail(t) \/ S3Put(t) \/ MemoryUpsert(t) \/ TpCheck(t) \/ TpRequest(t) \/ TpCache(t)
             \/ MemoryDelete(t) \/ TpDelete(t) \/ DiskDelete(t) \/ S3Delete(t)
      PROVE  LitterIsWreckage'
  <2>1. \A u \in Threads \ {t} : thread'[u] = thread[u]
    BY <1>7, StepKept DEF CommitStep
  <2>2. crashes' = crashes /\ temps' = temps
    BY <1>7 DEF DiskFail, S3Put, MemoryUpsert, TpCheck, TpRequest, TpCache, MemoryDelete, TpDelete,
       DiskDelete, S3Delete, store
  <2>3. faults' = faults \/ faults' = faults + 1
    BY <1>7 DEF DiskFail, S3Put, MemoryUpsert, TpCheck, TpRequest, ExecuteFails, TpCache,
       MemoryDelete, TpDelete, DiskDelete, S3Delete, Fail
  <2>4. CASE faults' = faults + 1
    BY <1>5, <2>2, <2>4
  <2>5. CASE faults' = faults
    <3>1. ~DiskFail(t)
      BY <2>5 DEF DiskFail, Fail, Types
    <3>2. t \notin Owning
      BY <1>7, <3>1 DEF S3Put, MemoryUpsert, TpCheck, TpRequest, TpCache, MemoryDelete, TpDelete,
         DiskDelete, S3Delete, Owning
    <3>3. QED
      BY <1>6, <2>1, <2>2, <2>5, <3>2 DEF Owning
  <2>6. QED
    BY <2>3, <2>4, <2>5
<1>8. CASE Crash
  BY <1>5, <1>8 DEF Crash
<1>9. ASSUME UNCHANGED <<thread, temps, faults, crashes>> PROVE LitterIsWreckage'
  BY <1>6, <1>9
<1>10. ASSUME NEW t \in Threads, NEW id \in Ids, NEW v \in Values, NEW d \in Dims,
              CommitStart(t, id, v, d)
       PROVE  LitterIsWreckage'
  BY <1>1, <1>10, CommitOp
<1>11. ASSUME NEW t \in Threads, NEW id \in Ids, DeleteStart(t, id) PROVE LitterIsWreckage'
  BY <1>1, <1>11, DeleteOp
<1>12. QED
  BY <1>2, <1>3, <1>4, <1>7, <1>8, <1>9, <1>10, <1>11
     DEF Next, CommitStep, Get, Query, vars, store

\* For every number of threads and entries, a temporary file that no running put
\* owns is the remains of a put that failed or was killed (object_disk.rs put).
THEOREM LitterIsWreckageCorrect == Spec => []LitterIsWreckage
<1>1. Init => LitterIsWreckage
  BY DEF Init, LitterIsWreckage
<1>2. Types /\ TempInv /\ LitterIsWreckage /\ [Next]_vars => LitterIsWreckage'
  BY LitterStep
<1>3. QED
  BY <1>1, <1>2, TypesCorrect, PTL DEF Spec
=============================================================================
