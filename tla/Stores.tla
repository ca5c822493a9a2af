------------------------------- MODULE Stores -------------------------------
(***************************************************************************)
(* The stores under one namespace, call by call: the compressed object     *)
(* store over disk files or S3 (src/src/compression.rs,                    *)
(* backends/object_disk.rs, backends/object_s3.rs), the memory and the     *)
(* turbopuffer vector store with the dimension each of them fixes          *)
(* (backends/vector_memory.rs, backends/vector_turbopuffer.rs), and        *)
(* Cache::commit and Cache::delete, which write to both.                   *)
(*                                                                         *)
(* Threads run concurrently; the daemon may be killed between any two      *)
(* steps and started again, perhaps under the same process id.  A remote   *)
(* call may fail with or without having had its effect.  A killed process  *)
(* loses no bytes it has written: the code makes no fsync, and power       *)
(* failure is not modelled.                                                *)
(***************************************************************************)
EXTENDS Integers, Functions

CONSTANTS
  Threads, Ids, Values,
  Dims,       \* dimensions an embedding may come back with
  Pids,       \* process ids the system hands out
  Backends,   \* [object, vector]: the combinations to consider
  None,       \* an absent object, dimension or operation
  Error,      \* an error of the object store
  Unknown,    \* a client cannot tell what is stored
  MaxOps,     \* bound on the commits and deletes started
  MaxCrashes  \* bound on the kills

VARIABLES
  kind,      \* which backends the namespace has
  thread,    \* what each thread is doing
  objects,   \* id -> the bytes stored under its final name
  temps,     \* temporary file -> its bytes
  pid,       \* the daemon's process id
  counter,   \* TEMP_COUNTER
  rows,      \* ids in the vector index
  indexDim,  \* the dimension the index was created with
  dimCache,  \* TurbopufferVectorStore.dims
  mismatch,  \* the last DimMismatch of this daemon: [got, want]
  got,       \* what the last Get returned
  settled,   \* what a client knows of an id: a value, None or Unknown
  raced,     \* ids on which a commit and a delete have overlapped
  ops, crashes, faults  \* operations started, kills, errors returned

store == <<objects, temps, rows, indexDim>>
ghost == <<settled, raced>>
vars  == <<kind, thread, store, pid, counter, dimCache, mismatch, got, ghost, ops, crashes, faults>>

Rest == [pc |-> "rest"]

\* compress: a zstd frame of the value.  decompress: the value, or an error on
\* a frame that is cut off.
Compress(v)   == [of |-> v, whole |-> TRUE]
CutShort(f)   == [f EXCEPT !.whole = FALSE]
Decompress(f) == IF f.whole THEN f.of ELSE "Compression"

\* Mutant: the temporary name does not tell two puts of one id apart.
TempNameShared(id, n) == <<id, pid, 0>>

\* `{id}.tmp.{pid}.{counter}`
TempName(id, n) == <<id, pid, n>>

ASSUME StoresAssumption ==
  /\ Backends \subseteq [object : {"disk", "s3"}, vector : {"memory", "turbopuffer"}]
  /\ None \notin Values /\ None \notin Dims /\ \A v \in Values : None # Compress(v)
  /\ Unknown \notin Values /\ Unknown # None
  /\ MaxOps \in Nat /\ MaxCrashes \in Nat

\* The files once a frame has been written under a temporary name.
Written(name, frame) ==
  [n \in DOMAIN temps \cup {name} |-> IF n = name THEN frame ELSE temps[n]]

OnId(id) == {t \in Threads : thread[t].pc # "rest" /\ thread[t].id = id}

Init ==
  /\ kind \in Backends
  /\ thread = [t \in Threads |-> Rest]
  /\ objects = [id \in Ids |-> None]
  /\ temps = <<>>
  /\ pid \in Pids
  /\ counter = 0
  /\ rows = {}
  /\ indexDim = None
  /\ dimCache = None
  /\ mismatch = None
  /\ got = None
  /\ settled = [id \in Ids |-> None]
  /\ raced = {}
  /\ ops = 0 /\ crashes = 0 /\ faults = 0

\* A thread takes up a commit or a delete.  What is stored under the id is
\* unknown until an operation that met no other has succeeded.
Start(t, op) ==
  /\ thread[t] = Rest
  /\ ops < MaxOps
  /\ ops' = ops + 1
  /\ thread' = [u \in Threads |->
                  IF u = t THEN op
                  ELSE IF u \in OnId(op.id) THEN [thread[u] EXCEPT !.alone = FALSE]
                  ELSE thread[u]]
  /\ settled' = [settled EXCEPT ![op.id] = Unknown]
  /\ raced' = raced \cup {id \in {op.id} : \E u \in OnId(id) : thread[u].op # op.op}
  /\ UNCHANGED <<kind, store, pid, counter, dimCache, mismatch, got, crashes, faults>>

Goto(t, pc) == thread' = [thread EXCEPT ![t].pc = pc]

\* An operation returns Ok: its caller knows what is stored.
Done(t, v) ==
  /\ thread' = [thread EXCEPT ![t] = Rest]
  /\ settled' = IF thread[t].alone THEN [settled EXCEPT ![thread[t].id] = v] ELSE settled
  /\ UNCHANGED raced

\* A step of an operation returns an error, and so does the operation.
Fail(t) ==
  /\ thread' = [thread EXCEPT ![t] = Rest]
  /\ faults' = faults + 1
  /\ UNCHANGED ghost

-----------------------------------------------------------------------------
(* Cache::commit: object put, then vector upsert *)

CommitStart(t, id, v, d) ==
  Start(t, [op |-> "commit", id |-> id, value |-> v, dim |-> d, cached |-> None, temp |-> None,
            pc |-> IF kind.object = "disk" THEN "create" ELSE "s3put", alone |-> OnId(id) = {}])

\* create_dir_all, the counter, and fs::write's open, which truncates.
DiskCreate(t) ==
  /\ thread[t].pc = "create"
  /\ counter' = counter + 1
  /\ LET name == TempName(thread[t].id, counter) IN
       /\ temps' = Written(name, CutShort(Compress(thread[t].value)))
       /\ thread' = [thread EXCEPT ![t].temp = name, ![t].pc = "write"]
  /\ UNCHANGED <<kind, objects, rows, indexDim, pid, dimCache, mismatch, got, ghost,
                 ops, crashes, faults>>

DiskWrite(t) ==
  /\ thread[t].pc = "write"
  /\ temps' = Written(thread[t].temp, Compress(thread[t].value))
  /\ Goto(t, "rename")
  /\ UNCHANGED <<kind, objects, rows, indexDim, pid, counter, dimCache, mismatch, got, ghost,
                 ops, crashes, faults>>

\* Mutant: the temporary file is linked, not moved.
DiskRenameLink(t) ==
  /\ thread[t].pc = "rename"
  /\ thread[t].temp \in DOMAIN temps
  /\ objects' = [objects EXCEPT ![thread[t].id] = temps[thread[t].temp]]
  /\ Goto(t, "upsert")
  /\ UNCHANGED <<kind, temps, rows, indexDim, pid, counter, dimCache, mismatch, got, ghost,
                 ops, crashes, faults>>

DiskRename(t) ==
  /\ thread[t].pc = "rename"
  /\ thread[t].temp \in DOMAIN temps
  /\ objects' = [objects EXCEPT ![thread[t].id] = temps[thread[t].temp]]
  /\ temps' = Restrict(temps, DOMAIN temps \ {thread[t].temp})
  /\ Goto(t, "upsert")
  /\ UNCHANGED <<kind, rows, indexDim, pid, counter, dimCache, mismatch, got, ghost,
                 ops, crashes, faults>>

\* One of the file operations fails; nobody removes the temporary file.
DiskFail(t) ==
  /\ thread[t].pc \in {"create", "write", "rename"}
  /\ Fail(t)
  /\ UNCHANGED <<kind, store, pid, counter, dimCache, mismatch, got, ops, crashes>>

\* put_object: a status outside 2xx, or no response, is an error, and the
\* object may have been stored all the same.
S3Put(t) ==
  /\ thread[t].pc = "s3put"
  /\ \/ /\ objects' = [objects EXCEPT ![thread[t].id] = Compress(thread[t].value)]
        /\ Goto(t, "upsert") /\ UNCHANGED <<ghost, faults>>
     \/ /\ objects' \in {objects, [objects EXCEPT ![thread[t].id] = Compress(thread[t].value)]}
        /\ Fail(t)
  /\ UNCHANGED <<kind, temps, rows, indexDim, pid, counter, dimCache, mismatch, got, ops, crashes>>

\* MemoryVectorStore::upsert: the first upsert fixes the dimension for good.
MemoryUpsert(t) ==
  /\ thread[t].pc = "upsert" /\ kind.vector = "memory"
  /\ \/ /\ indexDim \in {None, thread[t].dim}
        /\ indexDim' = thread[t].dim
        /\ rows' = rows \cup {thread[t].id}
        /\ Done(t, thread[t].value)
        /\ UNCHANGED <<mismatch, faults>>
     \/ /\ indexDim \notin {None, thread[t].dim}
        /\ mismatch' = [got |-> thread[t].dim, want |-> indexDim]
        /\ Fail(t)
        /\ UNCHANGED <<rows, indexDim>>
  /\ UNCHANGED <<kind, objects, temps, pid, counter, dimCache, got, ops, crashes>>

\* Mutant: the dimension is cached before the row is sent.
TpCheckCaches(t) ==
  /\ thread[t].pc = "upsert" /\ kind.vector = "turbopuffer"
  /\ \/ /\ dimCache \in {None, thread[t].dim}
        /\ dimCache' = thread[t].dim
        /\ thread' = [thread EXCEPT ![t].cached = dimCache, ![t].pc = "request"]
        /\ UNCHANGED <<mismatch, ghost, faults>>
     \/ /\ dimCache \notin {None, thread[t].dim}
        /\ mismatch' = [got |-> thread[t].dim, want |-> dimCache]
        /\ Fail(t) /\ UNCHANGED dimCache
  /\ UNCHANGED <<kind, store, pid, counter, got, ops, crashes>>

\* TurbopufferVectorStore::upsert reads the cached dimension...
TpCheck(t) ==
  /\ thread[t].pc = "upsert" /\ kind.vector = "turbopuffer"
  /\ \/ /\ dimCache \in {None, thread[t].dim}
        /\ thread' = [thread EXCEPT ![t].cached = dimCache, ![t].pc = "request"]
        /\ UNCHANGED <<mismatch, ghost, faults>>
     \/ /\ dimCache \notin {None, thread[t].dim}
        /\ mismatch' = [got |-> thread[t].dim, want |-> dimCache]
        /\ Fail(t)
  /\ UNCHANGED <<kind, store, pid, counter, dimCache, got, ops, crashes>>

\* External: the namespace takes the dimension of its first row.
TpStores(t) ==
  /\ indexDim \in {None, thread[t].dim}
  /\ indexDim' = thread[t].dim
  /\ rows' = rows \cup {thread[t].id}

\* A 4xx whose text is_dimension_error takes for a dimension conflict.  The
\* match is best effort: the embedding may be of another dimension than the
\* index, or of the same and refused for something the server words so.
DimensionError(d, cached) ==
  mismatch' = IF cached = None THEN mismatch ELSE [got |-> d, want |-> cached]

\* No response, or a status whose text says nothing of the dimension: the row
\* may have been stored all the same.
ExecuteFails(t) ==
  /\ TpStores(t) \/ UNCHANGED <<rows, indexDim>>
  /\ Fail(t) /\ UNCHANGED mismatch

\* ...sends the row, and classifies the answer.
TpRequest(t) ==
  /\ thread[t].pc = "request"
  /\ \/ TpStores(t) /\ Goto(t, "cache") /\ UNCHANGED <<mismatch, ghost, faults>>
     \/ /\ DimensionError(thread[t].dim, thread[t].cached)
        /\ Fail(t) /\ UNCHANGED <<rows, indexDim>>
     \/ ExecuteFails(t)
  /\ UNCHANGED <<kind, objects, temps, pid, counter, dimCache, got, ops, crashes>>

\* cache_dim.
TpCache(t) ==
  /\ thread[t].pc = "cache"
  /\ dimCache' = thread[t].dim
  /\ Done(t, thread[t].value)
  /\ UNCHANGED <<kind, store, pid, counter, mismatch, got, ops, crashes, faults>>

-----------------------------------------------------------------------------
(* Cache::delete: vector delete, then object delete *)

\* Mutant: the object goes first.
DeleteOrderObject == <<"unput", "unindex">>

\* The index row goes before the object it points to.
DeleteOrder == <<"unindex", "unput">>

DeleteStart(t, id) ==
  Start(t, [op |-> "delete", id |-> id, pc |-> DeleteOrder[1], alone |-> OnId(id) = {}])

Deleted(t) ==
  \/ thread[t].pc = DeleteOrder[1] /\ Goto(t, DeleteOrder[2]) /\ UNCHANGED ghost
  \/ thread[t].pc = DeleteOrder[2] /\ Done(t, None)

MemoryDelete(t) ==
  /\ thread[t].pc = "unindex" /\ kind.vector = "memory"
  /\ rows' = rows \ {thread[t].id}
  /\ Deleted(t)
  /\ UNCHANGED <<kind, objects, temps, indexDim, pid, counter, dimCache, mismatch, got,
                 ops, crashes, faults>>

TpDelete(t) ==
  /\ thread[t].pc = "unindex" /\ kind.vector = "turbopuffer"
  /\ \/ rows' = rows \ {thread[t].id} /\ Deleted(t) /\ UNCHANGED faults
     \/ rows' \in {rows, rows \ {thread[t].id}} /\ Fail(t)
  /\ UNCHANGED <<kind, objects, temps, indexDim, pid, counter, dimCache, mismatch, got,
                 ops, crashes>>

\* A file that is not there counts as deleted.
DiskDelete(t) ==
  /\ thread[t].pc = "unput" /\ kind.object = "disk"
  /\ \/ objects' = [objects EXCEPT ![thread[t].id] = None] /\ Deleted(t) /\ UNCHANGED faults
     \/ objects' = objects /\ Fail(t)
  /\ UNCHANGED <<kind, temps, rows, indexDim, pid, counter, dimCache, mismatch, got, ops, crashes>>

\* Mutant: a status outside 2xx counts as deleted too.
S3DeleteSwallows(t) ==
  /\ thread[t].pc = "unput" /\ kind.object = "s3"
  /\ objects' \in {objects, [objects EXCEPT ![thread[t].id] = None]}
  /\ Deleted(t)
  /\ UNCHANGED <<kind, temps, rows, indexDim, pid, counter, dimCache, mismatch, got,
                 ops, crashes, faults>>

\* 2xx or 404 is success.
S3Delete(t) ==
  /\ thread[t].pc = "unput" /\ kind.object = "s3"
  /\ \/ objects' = [objects EXCEPT ![thread[t].id] = None] /\ Deleted(t) /\ UNCHANGED faults
     \/ objects' \in {objects, [objects EXCEPT ![thread[t].id] = None]} /\ Fail(t)
  /\ UNCHANGED <<kind, temps, rows, indexDim, pid, counter, dimCache, mismatch, got, ops, crashes>>

-----------------------------------------------------------------------------
(* Reads, and the end of a daemon *)

\* What a read of an object may come to.  A rename replaces the name and not the
\* bytes, so a reader that has opened a file reads it as it was.
DiskGet(id) == {objects[id], Error}
S3Get(id)   == {objects[id], Error}

\* CompressedStore::get.
Get(id) ==
  /\ \E read \in IF kind.object = "disk" THEN DiskGet(id) ELSE S3Get(id) :
       got' = IF read \in {None, Error} THEN read ELSE Decompress(read)
  /\ UNCHANGED <<kind, thread, store, pid, counter, dimCache, mismatch, ghost, ops, crashes, faults>>

\* VectorStorageBackend::query, refused for its embedding's dimension: by the
\* memory index, which compares, or by turbopuffer's answer, which is put down
\* to the dimension cached by then.
Query(d) ==
  /\ \/ /\ kind.vector = "memory" /\ indexDim \notin {None, d}
        /\ mismatch' = [got |-> d, want |-> indexDim]
     \/ kind.vector = "turbopuffer" /\ DimensionError(d, dimCache)
  /\ UNCHANGED <<kind, thread, store, pid, counter, dimCache, got, ghost, ops, crashes, faults>>

\* The daemon is killed and another one starts: the files and the remote index
\* stay, what was in memory is gone.
Crash ==
  /\ crashes < MaxCrashes
  /\ crashes' = crashes + 1
  /\ thread' = [t \in Threads |-> Rest]
  /\ pid' \in Pids
  /\ counter' = 0
  /\ dimCache' = None
  /\ rows' = IF kind.vector = "memory" THEN {} ELSE rows
  /\ indexDim' = IF kind.vector = "memory" THEN None ELSE indexDim
  /\ mismatch' = None
  /\ UNCHANGED <<kind, objects, temps, got, ghost, ops, faults>>

CommitStep(t) == \/ DiskCreate(t) \/ DiskWrite(t) \/ DiskRename(t) \/ DiskFail(t) \/ S3Put(t)
                 \/ MemoryUpsert(t) \/ TpCheck(t) \/ TpRequest(t) \/ TpCache(t)

Next ==
  \/ \E t \in Threads :
       \/ \E id \in Ids, v \in Values, d \in Dims : CommitStart(t, id, v, d)
       \/ \E id \in Ids : DeleteStart(t, id)
       \/ CommitStep(t) \/ MemoryDelete(t) \/ TpDelete(t) \/ DiskDelete(t) \/ S3Delete(t)
  \/ \E id \in Ids : Get(id)
  \/ \E d \in Dims : Query(d)
  \/ Crash

Spec == Init /\ [][Next]_vars

-----------------------------------------------------------------------------
(* Properties *)

\* A Get returns a value that was committed, entire, or nothing, or the store's
\* own error: no reader sees a put half way, neither one still running nor one
\* cut off by a crash, and nothing stored ever fails to decompress
\* (object_disk.rs put).
WholeValue == got \in Values \cup {None, Error}

\* What an operation that met no other reported as done is what is stored, and
\* stays stored across a crash, a reused process id and the temporary files of
\* dead puts; only the memory index forgets (cache.rs commit, delete).
ReportedIsStored ==
  \A id \in Ids :
    /\ settled[id] \in Values =>
         objects[id] = Compress(settled[id]) /\ (kind.vector = "turbopuffer" => id \in rows)
    /\ settled[id] = None => objects[id] = None /\ id \notin rows

\* An indexed entry has its object, whatever fails and wherever the daemon
\* dies, unless a commit and a delete of the entry overlapped: commit writes
\* the object first and delete removes it last (cache.rs:130, cache.rs:143).
RowHasObject == \A id \in rows \ raced : objects[id] # None

\* A DimMismatch names the dimension the index really has, though turbopuffer's
\* is cached after the fact, read before the request, and gone after a restart
\* (vector_turbopuffer.rs upsert, query).  The memory index never raises one for
\* an embedding of that very dimension; with turbopuffer the text of a 4xx may
\* (is_dimension_error is best effort), and the error then has got = want.
DimMismatchTrue ==
  /\ dimCache \in {None, indexDim}
  /\ mismatch # None =>
       mismatch.want = indexDim /\ (kind.vector = "memory" => mismatch.got # mismatch.want)

\* A temporary file that no running put owns is the remains of a put that
\* failed or was killed: puts that succeed leave none, not even when they write
\* the same entry at the same time (object_disk.rs put).
LitterIsWreckage ==
  faults = 0 /\ crashes = 0 =>
    \A name \in DOMAIN temps :
      \E t \in Threads : thread[t].pc \in {"write", "rename"} /\ thread[t].temp = name

=============================================================================
