---------------------------- MODULE Registration ----------------------------
(***************************************************************************)
(* What a client configures and what it gets: the Python constructors      *)
(* (src/src/python.rs), the configuration they hand to the daemon, the     *)
(* backends the daemon builds from it (src/src/registry.rs, the `new`      *)
(* functions of src/src/backends), the identifiers both sides check        *)
(* (src/src/newtype.rs) and the errors on their way back to Python         *)
(* (src/src/daemon/conn.rs, src/src/error.rs).                             *)
(*                                                                         *)
(* A call is one step here; module Session has the steps in between.  Text *)
(* is a member of a small set with its trimmed form; `Ok` stands for the   *)
(* absence of an error.                                                    *)
(***************************************************************************)
EXTENDS Integers, Sequences, FiniteSets, SequencesExt, FiniteSetsExt, Functions

CONSTANTS
  Handles,      \* SemanticCache objects
  RawNames,     \* namespace arguments
  Backends,     \* backend arguments: [embedding, entity, vector, object], None
                \*   where one is left out
  Scorings,     \* arguments of Scoring, None where one is left out
  RawQueries,   \* arguments of CacheQuery: [query, keys, context]
  Hosts,        \* what a daemon finds: [features, env, hub]
  Trim,         \* Trim[s]: a string without surrounding whitespace
  Blank,        \* the empty string
  UnsafeNames,  \* names that are no single safe path segment
  None,
  MaxSent       \* bound on the requests sent

VARIABLES
  host,      \* the running daemon's build features and environment
  handles,   \* SemanticCache objects, None before construction
  registry,  \* namespace -> the cache built for it
  sent,      \* CacheQuery objects sent to the daemon
  last       \* the last call: what failed where, and the exception raised

vars == <<host, handles, registry, sent, last>>

Names == {Trim[n] : n \in RawNames}

FirstError(results) ==
  LET bad == {i \in DOMAIN results : results[i] # "Ok"}
  IN IF bad = {} THEN "Ok" ELSE results[Min(bad)]

-----------------------------------------------------------------------------
(* Identifiers *)

CheckNamespace(n) ==
  IF Trim[n] = Blank THEN "EmptyNamespace"
  ELSE IF Trim[n] \in UnsafeNames THEN "InvalidNamespace" ELSE "Ok"

\* QueryText::new, Key::new, Context::new.
CheckQueryText(s) == IF Trim[s] = Blank THEN "EmptyQuery" ELSE "Ok"
CheckKey(s)       == IF Trim[s] = Blank THEN "EmptyKey" ELSE "Ok"
CheckContext(s)   == IF Trim[s] = Blank THEN "EmptyContext" ELSE "Ok"

\* The query text, the keys and the context, in the order they are checked in.
CheckQuery(q) ==
  FirstError(<<CheckQueryText(q.query)>> \o [i \in DOMAIN q.keys |-> CheckKey(q.keys[i])]
               \o <<IF q.context = None THEN "Ok" ELSE CheckContext(q.context)>>)

\* Mutant: nothing marks whether a context is present.
DeriveUntagged(p) ==
  <<p.query>> \o (IF p.context = None THEN <<>> ELSE <<p.context>>) \o SetToSeq(p.keys)

\* EntryId::derive: the query, a presence tag, the context, the keys in order.
\* Each field carries its length, so it stands for itself.
Derive(p) ==
  <<p.query>> \o (IF p.context = None THEN <<0>> ELSE <<1, p.context>>) \o SetToSeq(p.keys)

-----------------------------------------------------------------------------
(* CacheQuery *)

\* The objects the constructor may make of its arguments: every field trimmed,
\* the keys a vector in the order the set is iterated in, duplicates kept.
Trimmed(s) == IF s = None THEN None ELSE Trim[s]
NewQueries(q) ==
  {[query |-> Trim[q.query], keys |-> [i \in DOMAIN ks |-> Trim[ks[i]]],
    context |-> Trimmed(q.context)] : ks \in SetToSeqs(q.keys)}

QueryEq(a, b) ==
  a.query = b.query /\ a.context = b.context /\ Range(a.keys) = Range(b.keys)

\* __hash__: of the rendering, in which the keys are sorted.
SortedKeys(q) == [k \in Range(q.keys) |-> Cardinality({i \in DOMAIN q.keys : q.keys[i] = k})]
QueryHash(q)  == <<q.query, SortedKeys(q), q.context>>

\* The daemon checks and trims what arrives again, and makes the keys a set.
Reconstruct(q) ==
  [query |-> Trim[q.query], keys |-> {Trim[k] : k \in Range(q.keys)},
   context |-> Trimmed(q.context)]

-----------------------------------------------------------------------------
(* The backend objects: what each constructor keeps of its arguments *)

LocalEmbedding(model)       == [kind |-> "local", model |-> model]
VoyageEmbedding(model, dim) == [kind |-> "voyage", model |-> model, dim |-> dim]
KeywordEntities(lang)       == [kind |-> "keyword", language |-> lang]
DefaultGlinerLabels == <<"person", "organization", "location", "date", "product", "event">>
GlinerEntities(labels, repo, model, tokenizer) ==
  [kind |-> "gliner", labels |-> IF labels = None THEN DefaultGlinerLabels ELSE labels,
   repo |-> repo, model |-> model, tokenizer |-> tokenizer]
MemoryVectors      == [kind |-> "memory"]
TurbopufferVectors == [kind |-> "turbopuffer"]
DiskStorage(root)  == [kind |-> "disk", root |-> root]
S3Storage(bucket, region, endpoint, prefix) ==
  [kind |-> "s3", bucket |-> bucket, region |-> region, endpoint |-> endpoint,
   prefix |-> IF prefix = None THEN Blank ELSE prefix]

-----------------------------------------------------------------------------
(* Scoring and the namespace configuration *)

\* entity_filter, which nothing checks, is left out.
ScoringDefault == [threshold |-> 92, contextGate |-> 10, contextThreshold |-> 88,
                   topK |-> 10, context |-> "Gate"]
ContextName == [Ignore |-> "ignore", Gate |-> "gate"]
DtoDefault  == [ScoringDefault EXCEPT !.context = ContextName[@]]
Dto(args)   == [f \in DOMAIN DtoDefault |-> IF args[f] = None THEN DtoDefault[f] ELSE args[f]]

\* ScoringDto::to_config.
ToConfig(dto) ==
  IF /\ {dto.threshold, dto.contextGate, dto.contextThreshold} \subseteq 0..100
     /\ dto.contextThreshold <= dto.threshold
     /\ dto.topK > 0
     /\ dto.context \in Range(ContextName)
  THEN "Ok" ELSE "InvalidConfig"

\* Mutant: a Scoring is not checked when it is made.
NewScoringLazy(args) == "Ok"

\* PyScoring::new, which validates at once.
NewScoring(args) == ToConfig(Dto(args))

\* The configuration a SemanticCache makes of its arguments: an axis left out is
\* fully local.
DefaultBackends == [embedding |-> LocalEmbedding(None), entity |-> KeywordEntities(None),
                    vector |-> MemoryVectors, object |-> DiskStorage(None)]
NewConfig(backends, args) ==
  [part \in DOMAIN DefaultBackends \cup {"scoring"} |->
     IF part = "scoring" THEN Dto(args)
     ELSE IF backends[part] = None THEN DefaultBackends[part] ELSE backends[part]]

\* serde leaves a None field out, or writes null, and reads either as None.
ToJson(c)   == [part \in DOMAIN c |-> [f \in {g \in DOMAIN c[part] : c[part][g] # None} |-> c[part][f]]]
Optional    == [voyage |-> {"model", "dim"}, local |-> {"model"}, keyword |-> {"language"},
                gliner |-> {"repo", "tokenizer", "model"}, memory |-> {}, turbopuffer |-> {},
                disk |-> {"root"}, s3 |-> {"bucket", "region", "endpoint"}]
FromJson(j) ==
  [part \in DOMAIN j |->
     [f \in DOMAIN j[part] \cup (IF part = "scoring" THEN {} ELSE Optional[j[part].kind]) |->
        IF f \in DOMAIN j[part] THEN j[part][f] ELSE None]]

\* A backend object's fields: a kind, and None only where JSON may leave one out.
WellFormed(b) ==
  /\ b = [f \in DOMAIN b |-> b[f]]
  /\ "kind" \in DOMAIN b /\ b.kind # None /\ b.kind \in DOMAIN Optional
  /\ Optional[b.kind] \subseteq DOMAIN b
  /\ \A f \in DOMAIN b : b[f] = None => f \in Optional[b.kind]

-----------------------------------------------------------------------------
(* Building the backends *)

Compiled(kind) == kind \in host.features \cup {"memory", "disk"}

Need(var) == IF var \in host.env THEN "Ok" ELSE "MissingEnv"
Fetch(error) == IF host.hub THEN "Ok" ELSE error  \* a model download

\* Mutant: a vector store that is not compiled in gives way to the memory one.
BuildPartFallback(kind, result) ==
  IF Compiled(kind) \/ kind = "turbopuffer" THEN result ELSE "UnknownBackend"

\* A backend without its Cargo feature is not built.
BuildPart(kind, result) == IF Compiled(kind) THEN result ELSE "UnknownBackend"

\* KeywordEntities::with_language: there must be stop words for the language.
BuildKeyword(c) == IF c.language \in {None, "en"} THEN "Ok" ELSE "EntityExtraction"

\* GlinerEntities::new: files that are not given are downloaded, then loaded.
BuildGliner(c) ==
  FirstError(<<IF c.tokenizer = None THEN Fetch("EntityExtraction") ELSE "Ok",
               IF c.model = None THEN Fetch("EntityExtraction") ELSE "Ok",
               IF c.model = "missing" THEN "EntityExtraction" ELSE "Ok">>)
BuildEntity(c) == BuildPart(c.kind, IF c.kind = "keyword" THEN BuildKeyword(c) ELSE BuildGliner(c))

\* LocalEmbedding::new: a known model, downloaded and loaded.
BuildLocal(c) ==
  FirstError(<<IF c.model \in {None, "bge"} THEN "Ok" ELSE "InvalidConfig", Fetch("Embedding")>>)
BuildVoyage(c) ==
  FirstError(<<IF c.dim = 0 THEN "InvalidConfig" ELSE "Ok", Need("VOYAGE_API_KEY")>>)
BuildEmbedding(c) == BuildPart(c.kind, IF c.kind = "voyage" THEN BuildVoyage(c) ELSE BuildLocal(c))

BuildTurbopuffer == Need("TURBOPUFFER_API_KEY")
BuildVector(c) == BuildPart(c.kind, IF c.kind = "memory" THEN "Ok" ELSE BuildTurbopuffer)

BuildDisk(c) == IF c.root = None THEN Need("HOME") ELSE "Ok"
BuildS3(c) ==
  FirstError(<<IF c.bucket = None THEN Need("SEMISWEET_S3_BUCKET") ELSE "Ok",
               IF c.region = None THEN Need("AWS_REGION") ELSE "Ok",
               Need("AWS_ACCESS_KEY_ID"), Need("AWS_SECRET_ACCESS_KEY")>>)
BuildObject(c) == BuildPart(c.kind, IF c.kind = "disk" THEN BuildDisk(c) ELSE BuildS3(c))

\* build_cache: the first of its parts that fails, in this order.
BuildErrors(name, config) ==
  [namespace |-> CheckNamespace(name),
   scoring   |-> ToConfig(config.scoring),
   entity    |-> BuildEntity(config.entity),
   embedding |-> BuildEmbedding(config.embedding),
   vector    |-> BuildVector(config.vector),
   object    |-> BuildObject(config.object)]
BuildOrder == <<"namespace", "scoring", "entity", "embedding", "vector", "object">>
BuildCache(name, config) ==
  LET errors == BuildErrors(name, config) IN
    FirstError([i \in DOMAIN BuildOrder |-> errors[BuildOrder[i]]])

-----------------------------------------------------------------------------
(* Embedding a query, when a request needs it *)

\* Embedding::new on the vector that came back.
NewEmbedding(values) ==
  CASE values = "empty" -> "EmptyEmbedding"
    [] values \in {"nan", "overflow"} -> "NonFiniteEmbedding"
    [] values = "zero" -> "ZeroEmbedding"
    [] values = "usual" -> "Ok"
Vectors == {"empty", "nan", "overflow", "zero", "usual"}

\* VoyageEmbedding::embed: no response, a status, a body that does not parse or
\* has no data, or a vector, whose dimension nobody compares with the one asked.
VoyageEmbed == {"Embedding"} \cup {NewEmbedding(v) : v \in Vectors}

\* LocalEmbedding::embed_one: a model's vector is never empty.
LocalEmbed == {"Embedding"} \cup {NewEmbedding(v) : v \in Vectors \ {"empty"}}

\* What else a lookup may fail with, or the pool that runs it.
LookupErrors == {"EntityExtraction", "VectorStorage", "DimMismatch", "ObjectStorage",
                 "Compression", "DaemonShutdown"}

-----------------------------------------------------------------------------
(* Errors *)

ConfigErrors ==
  {"EmptyQuery", "EmptyContext", "EmptyKey", "EmptyEntity", "EmptyNamespace", "InvalidNamespace",
   "EmptyEmbedding", "ZeroEmbedding", "NonFiniteEmbedding", "DimMismatch", "MissingEnv",
   "UnknownBackend", "InvalidConfig", "ProtocolVersionMismatch"}
BackendErrors ==
  {"EntityExtraction", "Embedding", "VectorStorage", "ObjectStorage", "Compression"}
DaemonErrors == {"DaemonShutdown", "Daemon", "Io", "Codec"}

\* From<Error> for PyErr.
PyClass(e) ==
  CASE e \in ConfigErrors  -> "ConfigError"
    [] e = "NamespaceMissing" -> "NamespaceError"
    [] e \in BackendErrors -> "BackendError"
    [] e \in DaemonErrors  -> "DaemonError"

\* Mutant: a variable missing from the daemon's environment is its own fault.
ToProtocolEnv(e) ==
  CASE e \in ConfigErrors \ {"MissingEnv", "ProtocolVersionMismatch"} -> "InvalidRequest"
    [] e = "NamespaceMissing" -> "UnknownNamespace"
    [] e = "ProtocolVersionMismatch" -> "VersionMismatch"
    [] e \in {"MissingEnv"} \cup BackendErrors \cup DaemonErrors -> "BackendInit"

\* backend_error and invalid_request in the daemon.
ToProtocol(e) ==
  CASE e \in ConfigErrors \ {"ProtocolVersionMismatch"} -> "InvalidRequest"
    [] e = "NamespaceMissing" -> "UnknownNamespace"
    [] e = "ProtocolVersionMismatch" -> "VersionMismatch"
    [] e \in BackendErrors \cup DaemonErrors -> "BackendInit"

\* From<ProtocolError> for PyErr, in the client.
PyClassOf(p) ==
  CASE p \in {"InvalidRequest", "VersionMismatch"} -> "ConfigError"
    [] p = "UnknownNamespace" -> "NamespaceError"
    [] p = "BackendInit"      -> "BackendError"

\* A call ends: with an error raised on the client's side, with one that came
\* from the daemon, or well.
Raised(call, e)   == [call |-> call, error |-> e, class |-> PyClass(e)]
Reported(call, e) == [call |-> call, error |-> e, class |-> PyClassOf(ToProtocol(e))]
Fine(call)        == [call |-> call, error |-> "Ok", class |-> None]

\* A SemanticCache object: its name, its configuration as JSON and as it was
\* chosen, and whether it has registered yet.
Handle(name, config, open) ==
  [name |-> Trim[name], json |-> ToJson(config), chosen |-> config, open |-> open]

-----------------------------------------------------------------------------
(* What the arguments are *)

\* Strings are trimmed to strings, once is enough, and None is not one of them.
ASSUME TrimAssumption ==
  /\ \A s \in DOMAIN Trim : Trim[s] \in DOMAIN Trim /\ Trim[Trim[s]] = Trim[s]
  /\ None \notin DOMAIN Trim

ASSUME ArgumentAssumption ==
  /\ RawNames \subseteq DOMAIN Trim
  /\ RawQueries \subseteq [query : DOMAIN Trim, keys : SUBSET DOMAIN Trim,
                         context : DOMAIN Trim \cup {None}]
  /\ \A q \in RawQueries : IsFiniteSet(q.keys)
  /\ \A b \in Backends, part \in DOMAIN DefaultBackends : b[part] # None => WellFormed(b[part])

\* None is no kind of backend, no value of a Scoring and no SemanticCache object.
ASSUME NoneAssumption ==
  /\ None \notin DOMAIN Optional
  /\ None \notin Range(DtoDefault)
  /\ \A n \in RawNames, b \in Backends, s \in Scorings, open \in BOOLEAN :
       Handle(n, NewConfig(b, s), open) # None

-----------------------------------------------------------------------------
(* The calls *)

Init ==
  /\ host \in Hosts
  /\ handles = [h \in Handles |-> None]
  /\ registry = [n \in Names |-> None]
  /\ sent = {}
  /\ last = Fine("start")

\* Scoring(...) and SemanticCache(...): only the scoring and the name are
\* checked, and nothing is built.
New(h, name, backends, args) ==
  /\ handles[h] = None
  /\ LET error == FirstError(<<NewScoring(args), CheckNamespace(name)>>)
         config == NewConfig(backends, args)
     IN IF error # "Ok"
        THEN last' = Raised("new", error) /\ UNCHANGED handles
        ELSE /\ handles' = [handles EXCEPT ![h] = Handle(name, config, FALSE)]
             /\ last' = Fine("new")
  /\ UNCHANGED <<host, registry, sent>>

\* A handle's first call registers its namespace.  A name that is registered
\* keeps the cache it has, whatever the new configuration says; a failure
\* leaves the handle to try again.
Connect(h) ==
  /\ handles[h] # None /\ ~handles[h].open
  /\ LET name == handles[h].name
         config == FromJson(handles[h].json)
         error == IF registry[name] # None THEN "Ok" ELSE BuildCache(name, config)
     IN /\ IF error = "Ok"
           THEN /\ handles' = [handles EXCEPT ![h].open = TRUE]
                /\ registry' = IF registry[name] # None THEN registry
                               ELSE [registry EXCEPT ![name] = config]
                /\ last' = Fine("connect")
           ELSE last' = Reported("connect", error) /\ UNCHANGED <<handles, registry>>
  /\ UNCHANGED <<host, sent>>

\* A build that panics drops its reply: the pool reports a shutdown.
ConnectPanic(h) ==
  /\ handles[h] # None /\ ~handles[h].open /\ registry[handles[h].name] = None
  /\ last' = Reported("connect", "DaemonShutdown")
  /\ UNCHANGED <<host, handles, registry, sent>>

\* CacheQuery(...) refuses its arguments.
NewQueryFails(q) ==
  /\ LET error == CheckQuery([q EXCEPT !.keys = SetToSeq(q.keys)]) IN
       error # "Ok" /\ last' = Raised("query", error)
  /\ UNCHANGED <<host, handles, registry, sent>>

\* A get, set or delete reaches the daemon: the namespace is looked up, the
\* request checked again, the query embedded and looked up (a set is answered
\* before that, and so is a get of an entry still being written).
Request(h, q) ==
  /\ handles[h] # None /\ handles[h].open
  /\ Cardinality(sent) < MaxSent
  /\ CheckQuery([q EXCEPT !.keys = SetToSeq(q.keys)]) = "Ok"
  /\ \E query \in NewQueries(q) :
       /\ sent' = sent \cup {query}
       /\ LET cache == registry[handles[h].name] IN
            \E found \in LookupErrors \cup IF cache = None THEN {}
                                          ELSE IF cache.embedding.kind = "voyage"
                                               THEN VoyageEmbed ELSE LocalEmbed :
              LET error == FirstError(<<IF cache = None THEN "NamespaceMissing" ELSE "Ok",
                                        CheckQuery(query), found>>)
              IN last' = IF error = "Ok" THEN Fine("request") ELSE Reported("request", error)
  /\ UNCHANGED <<host, handles, registry>>

\* The daemon goes and another one is started, perhaps in another environment.
Restart ==
  /\ \E h \in Hosts : host' = h
  /\ registry' = [n \in Names |-> None]
  /\ last' = Fine("restart")
  /\ UNCHANGED <<handles, sent>>

Next ==
  \/ \E h \in Handles :
       \/ \E n \in RawNames, b \in Backends, s \in Scorings : New(h, n, b, s)
       \/ Connect(h) \/ ConnectPanic(h)
       \/ \E q \in RawQueries : Request(h, q)
  \/ \E q \in RawQueries : NewQueryFails(q)
  \/ Restart

Spec == Init /\ [][Next]_vars

-----------------------------------------------------------------------------
(* Properties *)

\* An error that crosses the wire is raised as the exception its cause is
\* raised as at home, so that a ConfigError is the caller's to mend wherever it
\* was found; only the daemon's own failures arrive as BackendError
\* (conn.rs backend_error, error.rs).
ErrorClassKept ==
  last.error # "Ok" =>
    last.class = IF last.call \in {"connect", "request"} /\ last.error \in DaemonErrors
                 THEN "BackendError" ELSE PyClass(last.error)

\* What the constructors accepted the daemon does not refuse: no registration
\* fails for the namespace or the scoring, and no request for its text, after
\* the way through JSON and the wire (python.rs:667, conn.rs reconstruct).
EagerValidation ==
  /\ \A h \in Handles : handles[h] # None =>
       LET errors == BuildErrors(handles[h].name, FromJson(handles[h].json)) IN
         errors.namespace = "Ok" /\ errors.scoring = "Ok"
  /\ last.call = "request" => last.error \notin {"EmptyQuery", "EmptyKey", "EmptyContext"}

\* Two queries Python calls equal are one entry for the daemon, and two it
\* calls different are two: what crossed the wire derives one id exactly when
\* the objects compare equal (newtype.rs derive, python.rs __eq__).
SameEntry ==
  \A a, b \in sent : QueryEq(a, b) <=> Derive(Reconstruct(a)) = Derive(Reconstruct(b))

\* What src/src/python.rs:202-203 says of a CacheQuery: "two queries with the
\* same query text, key set, and context compare and hash equal"; and :253 of
\* __hash__: "Hash consistent with `__eq__` (keys hashed as a set)". The code
\* hashes the rendered keys, and a key given twice, apart only in surrounding
\* whitespace, is rendered twice: the constructor trims into a Vec, __eq__
\* collects it into a set, __repr__ only sorts it. Violated.
EqualHashEqual ==
  \A a, b \in sent : QueryEq(a, b) => QueryHash(a) = QueryHash(b)

\* Every cache in the registry is the one some client of the name asked for,
\* with each backend it chose and no other in its stead, every argument as given
\* after the way through JSON, on a daemon that has them all compiled in
\* (registry.rs:4).
ServedAsChosen ==
  \A n \in Names : registry[n] # None =>
    /\ \E h \in Handles : /\ handles[h] # None /\ handles[h].name = n
                          /\ handles[h].chosen = registry[n]
    /\ \A part \in {"entity", "embedding", "vector", "object"} : Compiled(registry[n][part].kind)

=============================================================================
