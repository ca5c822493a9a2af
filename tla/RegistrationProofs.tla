------------------------- MODULE RegistrationProofs -------------------------
(***************************************************************************)
(* What Registration's properties rest on, for any arguments, daemons and  *)
(* environments: a configuration survives the way through JSON, a string   *)
(* that was trimmed is trimmed to itself, and the first error of a list is *)
(* one of its errors.                                                      *)
(***************************************************************************)
EXTENDS Registration, FiniteSetTheorems, SequenceTheorems, TLAPS

-----------------------------------------------------------------------------
(* The first of several errors *)

\* A nonempty set of numbers has a least one, which Min is.
LEMMA LeastElement ==
  ASSUME NEW S, S \subseteq Nat, S # {}
  PROVE  Min(S) \in S /\ \A n \in S : Min(S) <= n
<1>1. PICK x \in S : \A y \in S : <<y, x>> \notin OpToRel(<, Nat)
  BY NatLessThanWellFounded, WFMin
<1>2. \A y \in S : ~(y < x)
  BY <1>1 DEF OpToRel
<1>3. \A y \in S : x <= y
  BY <1>2
<1> QED  BY <1>3 DEF Min

\* FirstError is Ok when everything is, and otherwise one of the errors.
LEMMA FirstErrorIs ==
  ASSUME NEW results, DOMAIN results \subseteq Nat
  PROVE  /\ FirstError(results) = "Ok" <=> \A i \in DOMAIN results : results[i] = "Ok"
         /\ \/ FirstError(results) = "Ok"
            \/ \E i \in DOMAIN results : FirstError(results) = results[i]
<1> DEFINE bad == {i \in DOMAIN results : results[i] # "Ok"}
<1>1. CASE bad = {}
  BY <1>1 DEF FirstError
<1>2. CASE bad # {}
  <2>1. Min(bad) \in bad
    <3>1. bad \subseteq Nat  OBVIOUS
    <3> QED  BY <1>2, <3>1, LeastElement
  <2> QED  BY <1>2, <2>1 DEF FirstError
<1> QED  BY <1>1, <1>2

LEMMA FirstOfTwo ==
  ASSUME NEW a, NEW b
  PROVE  /\ FirstError(<<a, b>>) = "Ok" <=> a = "Ok" /\ b = "Ok"
         /\ FirstError(<<a, b>>) \in {"Ok", a, b}
<1> DEFINE s == <<a, b>>
<1>1. DOMAIN s = 1..2 /\ s[1] = a /\ s[2] = b
  OBVIOUS
<1>2. DOMAIN s \subseteq Nat /\ \A i \in DOMAIN s : i = 1 \/ i = 2
  BY <1>1
<1>3. 1 \in DOMAIN s /\ 2 \in DOMAIN s
  BY <1>1
<1> HIDE DEF s
<1> QED  BY <1>1, <1>2, <1>3, FirstErrorIs DEF s

LEMMA FirstOfThree ==
  ASSUME NEW a, NEW b, NEW c
  PROVE  /\ FirstError(<<a, b, c>>) = "Ok" <=> a = "Ok" /\ b = "Ok" /\ c = "Ok"
         /\ FirstError(<<a, b, c>>) \in {"Ok", a, b, c}
<1> DEFINE s == <<a, b, c>>
<1>1. DOMAIN s = 1..3 /\ s[1] = a /\ s[2] = b /\ s[3] = c
  OBVIOUS
<1>2. DOMAIN s \subseteq Nat /\ \A i \in DOMAIN s : i = 1 \/ i = 2 \/ i = 3
  BY <1>1
<1>3. 1 \in DOMAIN s /\ 2 \in DOMAIN s /\ 3 \in DOMAIN s
  BY <1>1
<1> HIDE DEF s
<1> QED  BY <1>1, <1>2, <1>3, FirstErrorIs DEF s

LEMMA FirstOfFour ==
  ASSUME NEW a, NEW b, NEW c, NEW d
  PROVE  /\ FirstError(<<a, b, c, d>>) = "Ok" <=> a = "Ok" /\ b = "Ok" /\ c = "Ok" /\ d = "Ok"
         /\ FirstError(<<a, b, c, d>>) \in {"Ok", a, b, c, d}
<1> DEFINE s == <<a, b, c, d>>
<1>1. DOMAIN s = 1..4 /\ s[1] = a /\ s[2] = b /\ s[3] = c /\ s[4] = d
  OBVIOUS
<1>2. DOMAIN s \subseteq Nat /\ \A i \in DOMAIN s : i = 1 \/ i = 2 \/ i = 3 \/ i = 4
  BY <1>1
<1>3. 1 \in DOMAIN s /\ 2 \in DOMAIN s /\ 3 \in DOMAIN s /\ 4 \in DOMAIN s
  BY <1>1
<1> HIDE DEF s
<1> QED  BY <1>1, <1>2, <1>3, FirstErrorIs DEF s

\* A cache is built when every part of it is, and otherwise fails as one does.
LEMMA BuildCacheIs ==
  ASSUME NEW name, NEW config
  PROVE  LET errors == BuildErrors(name, config)
             parts == {"namespace", "scoring", "entity", "embedding", "vector", "object"}
         IN /\ BuildCache(name, config) = "Ok" <=> \A part \in parts : errors[part] = "Ok"
            /\ \/ BuildCache(name, config) = "Ok"
               \/ \E part \in parts : BuildCache(name, config) = errors[part]
<1> DEFINE errors == BuildErrors(name, config)
           s == [i \in DOMAIN BuildOrder |-> errors[BuildOrder[i]]]
<1> HIDE DEF errors
<1>1. DOMAIN s = 1..6
  BY DEF BuildOrder
<1>2. /\ s[1] = errors["namespace"] /\ s[2] = errors["scoring"] /\ s[3] = errors["entity"]
      /\ s[4] = errors["embedding"] /\ s[5] = errors["vector"] /\ s[6] = errors["object"]
  BY DEF BuildOrder
<1>3. BuildCache(name, config) = FirstError(s)
  BY DEF BuildCache, errors
<1> HIDE DEF s
<1>4. \A i \in DOMAIN s : i \in {1, 2, 3, 4, 5, 6}
  BY <1>1
<1>5. {1, 2, 3, 4, 5, 6} \subseteq DOMAIN s /\ DOMAIN s \subseteq Nat
  BY <1>1
<1>6. FirstError(s) = "Ok" <=> \A i \in {1, 2, 3, 4, 5, 6} : s[i] = "Ok"
  BY <1>4, <1>5, FirstErrorIs
<1>7. \/ FirstError(s) = "Ok"
      \/ \E i \in {1, 2, 3, 4, 5, 6} : FirstError(s) = s[i]
  BY <1>4, <1>5, FirstErrorIs
<1>8. BuildCache(name, config) = "Ok" <=>
        \A part \in {"namespace", "scoring", "entity", "embedding", "vector", "object"} :
          errors[part] = "Ok"
  BY <1>2, <1>3, <1>6
<1>9. \/ BuildCache(name, config) = "Ok"
      \/ \E part \in {"namespace", "scoring", "entity", "embedding", "vector", "object"} :
           BuildCache(name, config) = errors[part]
  BY <1>2, <1>3, <1>7
<1> QED  BY <1>8, <1>9 DEF errors

-----------------------------------------------------------------------------
(* Errors and their classes *)

\* Every error the daemon can have, but for the one a version check has.
KnownErrors == ConfigErrors \cup BackendErrors \cup DaemonErrors \cup {"NamespaceMissing"}

\* On its way over the wire an error keeps its class, or is the daemon's own.
LEMMA ClassOnTheWire ==
  ASSUME NEW e \in KnownErrors
  PROVE  PyClassOf(ToProtocol(e)) = IF e \in DaemonErrors THEN "BackendError" ELSE PyClass(e)
<1>1. CASE e \in ConfigErrors
  <2>1. e \notin BackendErrors /\ e \notin DaemonErrors /\ e # "NamespaceMissing"
    BY <1>1, SMT DEF ConfigErrors, BackendErrors, DaemonErrors
  <2>2. ToProtocol(e) \in {"InvalidRequest", "VersionMismatch"}
    <3>1. CASE e = "ProtocolVersionMismatch"
      BY <2>1, <3>1, Zenon DEF ToProtocol
    <3>2. CASE e # "ProtocolVersionMismatch"
      BY <1>1, <2>1, <3>2, Zenon DEF ToProtocol
    <3> QED  BY <3>1, <3>2
  <2>3. PyClassOf(ToProtocol(e)) = "ConfigError"
    BY <2>2 DEF PyClassOf
  <2>4. PyClass(e) = "ConfigError"
    BY <1>1, <2>1, Zenon DEF PyClass
  <2> QED  BY <2>1, <2>3, <2>4
<1>2. CASE e = "NamespaceMissing"
  BY <1>2 DEF ToProtocol, PyClassOf, PyClass, ConfigErrors, BackendErrors, DaemonErrors
<1>3. CASE e \in BackendErrors
  <2>1. ToProtocol(e) = "BackendInit"
    BY <1>3 DEF ToProtocol, ConfigErrors, BackendErrors
  <2>2. PyClass(e) = "BackendError" /\ e \notin DaemonErrors
    BY <1>3 DEF PyClass, ConfigErrors, BackendErrors, DaemonErrors
  <2> QED  BY <2>1, <2>2 DEF PyClassOf
<1>4. CASE e \in DaemonErrors
  <2>1. ToProtocol(e) = "BackendInit"
    BY <1>4 DEF ToProtocol, ConfigErrors, DaemonErrors
  <2> QED  BY <1>4, <2>1 DEF PyClassOf
<1> QED  BY <1>1, <1>2, <1>3, <1>4 DEF KnownErrors

LEMMA ReportedClass ==
  ASSUME NEW call \in {"connect", "request"}, NEW e \in KnownErrors, last' = Reported(call, e)
  PROVE  ErrorClassKept'
<1>1. last'.call = call /\ last'.error = e /\ last'.class = PyClassOf(ToProtocol(e))
  BY DEF Reported
<1> QED  BY <1>1, ClassOnTheWire DEF ErrorClassKept

LEMMA RaisedClass ==
  ASSUME NEW call, NEW e, last' = Raised(call, e), call \notin {"connect", "request"}
  PROVE  ErrorClassKept'
<1>1. last'.call = call /\ last'.error = e /\ last'.class = PyClass(e)
  BY DEF Raised
<1> QED  BY <1>1 DEF ErrorClassKept

LEMMA FineClass ==
  ASSUME NEW call, last' = Fine(call)
  PROVE  ErrorClassKept'
BY DEF ErrorClassKept, Fine

\* The parts of a cache fail with errors the daemon knows.
LEMMA BuildErrorsKnown ==
  ASSUME NEW name, NEW config,
         NEW part \in {"namespace", "scoring", "entity", "embedding", "vector", "object"}
  PROVE  BuildErrors(name, config)[part] \in KnownErrors \cup {"Ok"}
<1> DEFINE Known == {"EmptyNamespace", "InvalidNamespace", "InvalidConfig", "MissingEnv",
                     "UnknownBackend", "EntityExtraction", "Embedding", "Ok"}
<1>0. Known \subseteq KnownErrors \cup {"Ok"}
  BY DEF KnownErrors, ConfigErrors, BackendErrors
<1>1. CheckNamespace(name) \in Known /\ ToConfig(config.scoring) \in Known
  BY DEF CheckNamespace, ToConfig
<1>2. \A v : Need(v) \in Known
  BY DEF Need
<1>3. \A kind, e : e \in Known => BuildPart(kind, e) \in Known
  BY DEF BuildPart
<1>4. BuildEntity(config.entity) \in Known
  <2>1. BuildKeyword(config.entity) \in Known
    BY DEF BuildKeyword
  <2>2. BuildGliner(config.entity) \in Known
    BY FirstOfThree DEF BuildGliner, Fetch
  <2> QED  BY <1>3, <2>1, <2>2 DEF BuildEntity
<1>5. BuildEmbedding(config.embedding) \in Known
  <2>1. BuildLocal(config.embedding) \in Known
    BY FirstOfTwo DEF BuildLocal, Fetch
  <2>2. BuildVoyage(config.embedding) \in Known
    BY <1>2, FirstOfTwo DEF BuildVoyage
  <2> QED  BY <1>3, <2>1, <2>2 DEF BuildEmbedding
<1>6. BuildVector(config.vector) \in Known
  BY <1>2, <1>3 DEF BuildVector, BuildTurbopuffer
<1>7. BuildObject(config.object) \in Known
  <2>1. BuildDisk(config.object) \in Known
    BY <1>2 DEF BuildDisk
  <2>2. BuildS3(config.object) \in Known
    <3> DEFINE bucket == IF config.object.bucket = None
                         THEN Need("SEMISWEET_S3_BUCKET") ELSE "Ok"
               region == IF config.object.region = None THEN Need("AWS_REGION") ELSE "Ok"
    <3>1. bucket \in Known /\ region \in Known
      BY <1>2
    <3>2. BuildS3(config.object) = FirstError(<<bucket, region, Need("AWS_ACCESS_KEY_ID"),
                                                Need("AWS_SECRET_ACCESS_KEY")>>)
      BY DEF BuildS3
    <3> HIDE DEF bucket, region
    <3>3. BuildS3(config.object) \in {"Ok", bucket, region, Need("AWS_ACCESS_KEY_ID"),
                                      Need("AWS_SECRET_ACCESS_KEY")}
      BY <3>2, FirstOfFour
    <3> QED  BY <1>2, <3>1, <3>3
  <2> QED  BY <1>3, <2>1, <2>2 DEF BuildObject
<1> HIDE DEF Known
<1> QED  BY <1>0, <1>1, <1>4, <1>5, <1>6, <1>7 DEF BuildErrors

LEMMA BuildCacheKnown ==
  ASSUME NEW name, NEW config
  PROVE  BuildCache(name, config) \in KnownErrors \cup {"Ok"}
BY BuildCacheIs, BuildErrorsKnown

\* So do the request's own steps.
LEMMA FoundKnown ==
  ASSUME NEW found \in LookupErrors \cup VoyageEmbed \cup LocalEmbed
  PROVE  /\ found \in KnownErrors \cup {"Ok"}
         /\ found \notin {"EmptyQuery", "EmptyKey", "EmptyContext"}
<1> DEFINE Known == {"EmptyEmbedding", "NonFiniteEmbedding", "ZeroEmbedding", "Embedding", "Ok"}
<1>1. \A v \in Vectors : NewEmbedding(v) \in Known
  BY DEF Vectors, NewEmbedding
<1>2. VoyageEmbed \cup LocalEmbed \subseteq Known
  <2> HIDE DEF Known
  <2>1. "Embedding" \in Known  BY DEF Known
  <2> QED  BY <1>1, <2>1 DEF VoyageEmbed, LocalEmbed
<1>3. Known \cup LookupErrors \subseteq KnownErrors \cup {"Ok"}
  BY DEF LookupErrors, KnownErrors, ConfigErrors, BackendErrors, DaemonErrors
<1>4. \A e \in Known \cup LookupErrors : e \notin {"EmptyQuery", "EmptyKey", "EmptyContext"}
  BY DEF LookupErrors
<1> HIDE DEF Known
<1> QED  BY <1>2, <1>3, <1>4

-----------------------------------------------------------------------------
(* The way through JSON *)

Parts == {"embedding", "entity", "vector", "object"}

LEMMA PartsAre ==
  DOMAIN DefaultBackends = Parts
BY DEF DefaultBackends, Parts

LEMMA DefaultsWellFormed ==
  ASSUME NEW part \in Parts
  PROVE  WellFormed(DefaultBackends[part])
<1>0. None \notin DOMAIN Optional
  BY NoneAssumption
<1>1. WellFormed(DefaultBackends.embedding)
  <2> DEFINE r == [kind |-> "local", model |-> None]
  <2>1. DefaultBackends.embedding = r
    BY DEF DefaultBackends, LocalEmbedding
  <2>2. DOMAIN r = {"kind", "model"} /\ r = [f \in DOMAIN r |-> r[f]] /\ r.kind = "local"
    OBVIOUS
  <2>3. "local" \in DOMAIN Optional /\ Optional["local"] = {"model"}
    BY DEF Optional
  <2> HIDE DEF r
  <2>4. None # "local"
    BY <1>0, <2>3
  <2>5. "kind" \in DOMAIN r /\ r.kind # None /\ r.kind \in DOMAIN Optional
    BY <2>2, <2>3, <2>4
  <2>6. Optional[r.kind] \subseteq DOMAIN r
    BY <2>2, <2>3
  <2>7. \A f \in DOMAIN r : r[f] = None => f \in Optional[r.kind]
    BY <2>2, <2>3, <2>4
  <2> QED  BY <2>1, <2>2, <2>5, <2>6, <2>7 DEF WellFormed
<1>2. WellFormed(DefaultBackends.entity)
  <2> DEFINE r == [kind |-> "keyword", language |-> None]
  <2>1. DefaultBackends.entity = r
    BY DEF DefaultBackends, KeywordEntities
  <2>2. DOMAIN r = {"kind", "language"} /\ r = [f \in DOMAIN r |-> r[f]] /\ r.kind = "keyword"
    OBVIOUS
  <2>3. "keyword" \in DOMAIN Optional /\ Optional["keyword"] = {"language"}
    BY DEF Optional
  <2> HIDE DEF r
  <2>4. None # "keyword"
    BY <1>0, <2>3
  <2>5. "kind" \in DOMAIN r /\ r.kind # None /\ r.kind \in DOMAIN Optional
    BY <2>2, <2>3, <2>4
  <2>6. Optional[r.kind] \subseteq DOMAIN r
    BY <2>2, <2>3
  <2>7. \A f \in DOMAIN r : r[f] = None => f \in Optional[r.kind]
    BY <2>2, <2>3, <2>4
  <2> QED  BY <2>1, <2>2, <2>5, <2>6, <2>7 DEF WellFormed
<1>3. WellFormed(DefaultBackends.vector)
  <2> DEFINE r == [kind |-> "memory"]
  <2>1. DefaultBackends.vector = r
    BY DEF DefaultBackends, MemoryVectors
  <2>2. DOMAIN r = {"kind"} /\ r = [f \in DOMAIN r |-> r[f]] /\ r.kind = "memory"
    OBVIOUS
  <2>3. "memory" \in DOMAIN Optional /\ Optional["memory"] = {}
    BY DEF Optional
  <2> HIDE DEF r
  <2>4. None # "memory"
    BY <1>0, <2>3
  <2>5. "kind" \in DOMAIN r /\ r.kind # None /\ r.kind \in DOMAIN Optional
    BY <2>2, <2>3, <2>4
  <2>6. Optional[r.kind] \subseteq DOMAIN r
    BY <2>2, <2>3
  <2>7. \A f \in DOMAIN r : r[f] = None => f \in Optional[r.kind]
    BY <2>2, <2>3, <2>4
  <2> QED  BY <2>1, <2>2, <2>5, <2>6, <2>7 DEF WellFormed
<1>4. WellFormed(DefaultBackends.object)
  <2> DEFINE r == [kind |-> "disk", root |-> None]
  <2>1. DefaultBackends.object = r
    BY DEF DefaultBackends, DiskStorage
  <2>2. DOMAIN r = {"kind", "root"} /\ r = [f \in DOMAIN r |-> r[f]] /\ r.kind = "disk"
    OBVIOUS
  <2>3. "disk" \in DOMAIN Optional /\ Optional["disk"] = {"root"}
    BY DEF Optional
  <2> HIDE DEF r
  <2>4. None # "disk"
    BY <1>0, <2>3
  <2>5. "kind" \in DOMAIN r /\ r.kind # None /\ r.kind \in DOMAIN Optional
    BY <2>2, <2>3, <2>4
  <2>6. Optional[r.kind] \subseteq DOMAIN r
    BY <2>2, <2>3
  <2>7. \A f \in DOMAIN r : r[f] = None => f \in Optional[r.kind]
    BY <2>2, <2>3, <2>4
  <2> QED  BY <2>1, <2>2, <2>5, <2>6, <2>7 DEF WellFormed
<1> QED  BY <1>1, <1>2, <1>3, <1>4 DEF Parts

\* A configuration that is read back from JSON is the one that was written.
LEMMA RoundTrip ==
  ASSUME NEW b \in Backends, NEW s
  PROVE  FromJson(ToJson(NewConfig(b, s))) = NewConfig(b, s)
<1> DEFINE c == NewConfig(b, s)
           j == ToJson(c)
           P == Parts \cup {"scoring"}
           kept(part) == {g \in DOMAIN c[part] : c[part][g] # None}
           back(part) == [f \in DOMAIN j[part] \cup (IF part = "scoring" THEN {}
                                                      ELSE Optional[j[part].kind]) |->
                            IF f \in DOMAIN j[part] THEN j[part][f] ELSE None]
<1>1. c = [part \in P |-> c[part]]
  BY PartsAre DEF NewConfig
<1>2. c.scoring = Dto(s)
  BY DEF NewConfig
<1>3. \A part \in Parts : WellFormed(c[part])
  <2> TAKE part \in Parts
  <2>1. c[part] = IF b[part] = None THEN DefaultBackends[part] ELSE b[part]
    BY PartsAre DEF NewConfig, Parts
  <2> QED  BY <2>1, DefaultsWellFormed, ArgumentAssumption, PartsAre
<1> HIDE DEF c
<1>4. DOMAIN j = P /\ \A part \in P : j[part] = [f \in kept(part) |-> c[part][f]]
  BY <1>1 DEF ToJson
<1>5. FromJson(j) = [part \in P |-> back(part)]
  BY <1>4 DEF FromJson
<1> HIDE DEF j
<1>6. back("scoring") = c.scoring
  <2>1. DOMAIN Dto(s) = DOMAIN DtoDefault /\ \A f \in DOMAIN Dto(s) : Dto(s)[f] # None
    BY NoneAssumption DEF Dto, Range
  <2>2. Dto(s) = [f \in DOMAIN Dto(s) |-> Dto(s)[f]]
    BY DEF Dto
  <2>3. kept("scoring") = DOMAIN Dto(s)
    BY <1>2, <2>1
  <2>4. j["scoring"] = Dto(s)
    BY <1>2, <1>4, <2>2, <2>3
  <2> QED  BY <1>2, <2>1, <2>2, <2>4
<1>7. \A part \in Parts : back(part) = c[part]
  <2> TAKE part \in Parts
  <2> DEFINE r == c[part]
  <2>0. part # "scoring" /\ part \in P
    BY DEF Parts
  <2>1. /\ r = [f \in DOMAIN r |-> r[f]]
        /\ "kind" \in DOMAIN r /\ r.kind # None
        /\ Optional[r.kind] \subseteq DOMAIN r
        /\ \A f \in DOMAIN r : r[f] = None => f \in Optional[r.kind]
    BY <1>3 DEF WellFormed
  <2>2. DOMAIN j[part] = kept(part) /\ \A f \in kept(part) : j[part][f] = r[f]
    BY <1>4, <2>0
  <2>3. j[part].kind = r.kind
    BY <2>1, <2>2
  <2>4. kept(part) \cup Optional[r.kind] = DOMAIN r
    BY <2>1
  <2>5. \A f \in DOMAIN r : (IF f \in DOMAIN j[part] THEN j[part][f] ELSE None) = r[f]
    BY <2>1, <2>2
  <2>6. back(part) = [f \in DOMAIN r |-> r[f]]
    BY <2>0, <2>2, <2>3, <2>4, <2>5
  <2> QED  BY <2>1, <2>6
<1>8. FromJson(j) = c
  <2>1. \A part \in P : back(part) = c[part]
    BY <1>6, <1>7
  <2> HIDE DEF back, P
  <2> QED  BY <1>1, <1>5, <2>1
<1> QED  BY <1>8 DEF j, c

-----------------------------------------------------------------------------
(* Sets and the sequences made of them *)

\* An injection of 1..Cardinality(S) into S meets every element.
LEMMA InjectionIsOnto ==
  ASSUME NEW S, IsFiniteSet(S), NEW f \in [1..Cardinality(S) -> S],
         \A i, j \in 1..Cardinality(S) : f[i] = f[j] => i = j
  PROVE  Range(f) = S
<1> DEFINE D == 1..Cardinality(S)
<1>1. Cardinality(S) \in Nat
  BY FS_CardinalityType
<1>2. Cardinality(D) = Cardinality(S)
  BY <1>1, FS_Interval
<1>3. f \in Injection(D, S)
  BY DEF Injection, IsInjective
<1>4. f \in Surjection(D, S)
  BY <1>2, <1>3, FS_Injection
<1> QED  BY <1>4 DEF Surjection, Range

LEMMA SetToSeqIs ==
  ASSUME NEW S, IsFiniteSet(S)
  PROVE  /\ SetToSeq(S) \in [1..Cardinality(S) -> S]
         /\ Range(SetToSeq(S)) = S
<1>1. \E f \in [1..Cardinality(S) -> S] : IsInjective(f)
  BY FS_CardinalityType DEF ExistsBijection, Bijection, Injection
<1>2. SetToSeq(S) \in [1..Cardinality(S) -> S] /\ IsInjective(SetToSeq(S))
  BY <1>1 DEF SetToSeq
<1>3. \A i, j \in 1..Cardinality(S) : SetToSeq(S)[i] = SetToSeq(S)[j] => i = j
  BY <1>2 DEF IsInjective
<1> QED  BY <1>2, <1>3, InjectionIsOnto

LEMMA SetToSeqsAre ==
  ASSUME NEW S, IsFiniteSet(S), NEW f \in SetToSeqs(S)
  PROVE  f \in [1..Cardinality(S) -> S] /\ Range(f) = S
<1>1. /\ f \in [1..Cardinality(S) -> S]
      /\ \A i, j \in 1..Cardinality(S) : f[i] = f[j] => i = j
  BY DEF SetToSeqs
<1> QED  BY <1>1, InjectionIsOnto

\* What a sequence between two elements is.
LEMMA Between ==
  ASSUME NEW a, NEW b, NEW n \in Nat, NEW f, f = [i \in 1..n |-> f[i]]
  PROVE  LET s == <<a>> \o f \o <<b>> IN
           /\ DOMAIN s = 1..(n + 2)
           /\ s[1] = a /\ s[n + 2] = b
           /\ \A i \in 1..n : s[i + 1] = f[i]
<1> DEFINE R == {f[i] : i \in 1..n} \cup {a, b}
<1>1. f \in Seq(R) /\ Len(f) = n
  <2>1. f \in [1..n -> R]
    OBVIOUS
  <2> QED  BY <2>1
<1>2. <<a>> \in Seq(R) /\ <<b>> \in Seq(R) /\ Len(<<a>>) = 1 /\ Len(<<b>>) = 1
  OBVIOUS
<1> HIDE DEF R
<1> DEFINE u == <<a>> \o f
<1>3. u \in Seq(R) /\ Len(u) = n + 1 /\ u[1] = a /\ \A i \in 1..n : u[i + 1] = f[i]
  <2>1. u \in Seq(R) /\ Len(u) = n + 1
    BY <1>1, <1>2
  <2>2. \A i \in 1..(n + 1) : u[i] = IF i <= 1 THEN <<a>>[i] ELSE f[i - 1]
    BY <1>1, <1>2
  <2>3. u[1] = a
    BY <2>2
  <2>4. ASSUME NEW i \in 1..n  PROVE u[i + 1] = f[i]
    <3>1. i + 1 \in 1..(n + 1) /\ ~(i + 1 <= 1) /\ (i + 1) - 1 = i
      OBVIOUS
    <3> HIDE DEF u
    <3> QED  BY <2>2, <3>1
  <2> QED  BY <2>1, <2>3, <2>4
<1> HIDE DEF u
<1> DEFINE s == u \o <<b>>
<1>4. s \in Seq(R) /\ Len(s) = n + 2
  BY <1>2, <1>3
<1>5. \A i \in 1..(n + 2) : s[i] = IF i <= n + 1 THEN u[i] ELSE <<b>>[i - (n + 1)]
  BY <1>2, <1>3
<1>6. DOMAIN s = 1..(n + 2)
  BY <1>4
<1>7. s[1] = a
  BY <1>3, <1>5
<1>8. s[n + 2] = b
  <2>1. n + 2 \in 1..(n + 2) /\ ~(n + 2 <= n + 1) /\ (n + 2) - (n + 1) = 1
    OBVIOUS
  <2> QED  BY <1>5, <2>1, <<b>>[1] = b
<1>9. ASSUME NEW i \in 1..n  PROVE s[i + 1] = f[i]
  <2>1. i + 1 \in 1..(n + 2) /\ i + 1 <= n + 1
    OBVIOUS
  <2> HIDE DEF s
  <2> QED  BY <1>3, <1>5, <2>1
<1> QED  BY <1>6, <1>7, <1>8, <1>9 DEF u

-----------------------------------------------------------------------------
(* Queries *)

\* CheckQuery accepts a query none of whose parts is blank.
LEMMA CheckQueryIs ==
  ASSUME NEW q, NEW n \in Nat, DOMAIN q.keys = 1..n
  PROVE  CheckQuery(q) = "Ok" <=>
           /\ Trim[q.query] # Blank
           /\ \A i \in 1..n : Trim[q.keys[i]] # Blank
           /\ q.context = None \/ Trim[q.context] # Blank
<1> DEFINE a == CheckQueryText(q.query)
           f == [i \in DOMAIN q.keys |-> CheckKey(q.keys[i])]
           b == IF q.context = None THEN "Ok" ELSE CheckContext(q.context)
           s == <<a>> \o f \o <<b>>
<1>1. f = [i \in 1..n |-> f[i]] /\ \A i \in 1..n : f[i] = CheckKey(q.keys[i])
  OBVIOUS
<1>2. CheckQuery(q) = FirstError(s)
  BY DEF CheckQuery
<1>3. a = "Ok" <=> Trim[q.query] # Blank
  BY DEF CheckQueryText
<1>4. \A i \in 1..n : f[i] = "Ok" <=> Trim[q.keys[i]] # Blank
  BY <1>1 DEF CheckKey
<1>5. b = "Ok" <=> (q.context = None \/ Trim[q.context] # Blank)
  BY DEF CheckContext
<1> HIDE DEF a, f, b
<1>6. /\ DOMAIN s = 1..(n + 2) /\ s[1] = a /\ s[n + 2] = b
      /\ \A i \in 1..n : s[i + 1] = f[i]
  BY <1>1, Between
<1> HIDE DEF s
<1>7. FirstError(s) = "Ok" <=> \A i \in 1..(n + 2) : s[i] = "Ok"
  <2>1. DOMAIN s \subseteq Nat
    BY <1>6
  <2> QED  BY <1>6, <2>1, FirstErrorIs
<1>8. (\A i \in 1..(n + 2) : s[i] = "Ok") <=> a = "Ok" /\ b = "Ok" /\ \A i \in 1..n : f[i] = "Ok"
  <2>1. ASSUME \A i \in 1..(n + 2) : s[i] = "Ok"
        PROVE  a = "Ok" /\ b = "Ok" /\ \A i \in 1..n : f[i] = "Ok"
    <3>1. 1 \in 1..(n + 2) /\ n + 2 \in 1..(n + 2) /\ \A i \in 1..n : i + 1 \in 1..(n + 2)
      OBVIOUS
    <3> QED  BY <1>6, <2>1, <3>1
  <2>2. ASSUME a = "Ok", b = "Ok", \A i \in 1..n : f[i] = "Ok", NEW i \in 1..(n + 2)
        PROVE  s[i] = "Ok"
    <3>1. i = 1 \/ i = n + 2 \/ (i - 1 \in 1..n /\ (i - 1) + 1 = i)
      OBVIOUS
    <3> QED  BY <1>6, <2>2, <3>1
  <2> QED  BY <2>1, <2>2
<1> QED  BY <1>2, <1>3, <1>4, <1>5, <1>7, <1>8

\* What the CacheQuery constructor makes of its arguments.
LEMMA NewQueryIs ==
  ASSUME NEW q \in RawQueries, NEW a \in NewQueries(q)
  PROVE  /\ a.query = Trim[q.query] /\ a.context = Trimmed(q.context)
         /\ Cardinality(q.keys) \in Nat
         /\ a.keys \in [1..Cardinality(q.keys) -> DOMAIN Trim]
         /\ Range(a.keys) = {Trim[k] : k \in q.keys}
<1>1. q.query \in DOMAIN Trim /\ q.keys \subseteq DOMAIN Trim /\ IsFiniteSet(q.keys)
  BY ArgumentAssumption
<1>2. PICK ks \in SetToSeqs(q.keys) :
        a = [query |-> Trim[q.query], keys |-> [i \in DOMAIN ks |-> Trim[ks[i]]],
             context |-> Trimmed(q.context)]
  BY DEF NewQueries
<1>3. ks \in [1..Cardinality(q.keys) -> q.keys] /\ Range(ks) = q.keys
  BY <1>1, SetToSeqsAre
<1>4. Cardinality(q.keys) \in Nat
  BY <1>1, FS_CardinalityType
<1>5. a.keys = [i \in 1..Cardinality(q.keys) |-> Trim[ks[i]]]
  BY <1>2, <1>3
<1>6. \A i \in 1..Cardinality(q.keys) : ks[i] \in q.keys /\ Trim[ks[i]] \in DOMAIN Trim
  BY <1>1, <1>3, TrimAssumption
<1>7. a.keys \in [1..Cardinality(q.keys) -> DOMAIN Trim]
  BY <1>5, <1>6
<1>8. Range(a.keys) = {Trim[k] : k \in Range(ks)}
  BY <1>3, <1>5 DEF Range
<1> QED  BY <1>2, <1>3, <1>4, <1>7, <1>8

\* What the constructor has let through the daemon lets through.
LEMMA CheckedAgain ==
  ASSUME NEW q \in RawQueries, NEW a \in NewQueries(q),
         CheckQuery([q EXCEPT !.keys = SetToSeq(q.keys)]) = "Ok"
  PROVE  CheckQuery(a) = "Ok"
<1> DEFINE n == Cardinality(q.keys)
           r == [q EXCEPT !.keys = SetToSeq(q.keys)]
<1>1. /\ q.query \in DOMAIN Trim /\ q.keys \subseteq DOMAIN Trim /\ IsFiniteSet(q.keys)
      /\ q.context \in DOMAIN Trim \cup {None}
  BY ArgumentAssumption
<1>2. r.query = q.query /\ r.keys = SetToSeq(q.keys) /\ r.context = q.context
  BY ArgumentAssumption
<1>3. n \in Nat /\ DOMAIN r.keys = 1..n
  BY <1>1, <1>2, SetToSeqIs, FS_CardinalityType
<1> HIDE DEF r, n
<1>4. /\ Trim[q.query] # Blank
      /\ \A i \in 1..n : Trim[r.keys[i]] # Blank
      /\ q.context = None \/ Trim[q.context] # Blank
  BY <1>2, <1>3, CheckQueryIs DEF r
<1>5. \A k \in q.keys : Trim[k] # Blank
  <2>1. Range(r.keys) = q.keys
    BY <1>1, <1>2, SetToSeqIs
  <2> QED  BY <1>3, <1>4, <2>1 DEF Range
<1>6. /\ a.query = Trim[q.query] /\ a.context = Trimmed(q.context)
      /\ a.keys \in [1..n -> DOMAIN Trim]
      /\ Range(a.keys) = {Trim[k] : k \in q.keys}
  BY NewQueryIs DEF n
<1>7. Trim[a.query] # Blank
  BY <1>1, <1>4, <1>6, TrimAssumption
<1>8. \A i \in 1..n : Trim[a.keys[i]] # Blank
  <2> TAKE i \in 1..n
  <2>1. PICK k \in q.keys : a.keys[i] = Trim[k]
    BY <1>6 DEF Range
  <2> QED  BY <1>1, <1>5, <2>1, TrimAssumption
<1>9. a.context = None \/ Trim[a.context] # Blank
  BY <1>1, <1>4, <1>6, TrimAssumption DEF Trimmed
<1> QED  BY <1>3, <1>6, <1>7, <1>8, <1>9, CheckQueryIs

\* The daemon reads from a CacheQuery what it holds, its keys as a set.
LEMMA ReconstructIs ==
  ASSUME NEW q \in RawQueries, NEW a \in NewQueries(q)
  PROVE  /\ Reconstruct(a) = [query |-> a.query, keys |-> Range(a.keys), context |-> a.context]
         /\ IsFiniteSet(Range(a.keys))
<1>1. /\ q.query \in DOMAIN Trim /\ q.keys \subseteq DOMAIN Trim
      /\ q.context \in DOMAIN Trim \cup {None}
  BY ArgumentAssumption
<1>2. /\ a.query = Trim[q.query] /\ a.context = Trimmed(q.context)
      /\ Cardinality(q.keys) \in Nat
      /\ a.keys \in [1..Cardinality(q.keys) -> DOMAIN Trim]
      /\ Range(a.keys) = {Trim[k] : k \in q.keys}
  BY NewQueryIs
<1>3. Trim[a.query] = a.query
  BY <1>1, <1>2, TrimAssumption
<1>4. Trimmed(a.context) = a.context
  BY <1>1, <1>2, TrimAssumption DEF Trimmed
<1>5. {Trim[k] : k \in Range(a.keys)} = Range(a.keys)
  <2>1. \A k \in Range(a.keys) : Trim[k] = k
    BY <1>1, <1>2, TrimAssumption
  <2> QED  BY <2>1
<1>6. IsFiniteSet(Range(a.keys))
  <2> DEFINE D == 1..Cardinality(q.keys)
  <2>1. IsFiniteSet(D)
    BY <1>2, FS_Interval
  <2>2. a.keys \in Surjection(D, Range(a.keys))
    BY <1>2 DEF Surjection, Range
  <2> QED  BY <2>1, <2>2, FS_Surjection
<1> QED  BY <1>3, <1>4, <1>5, <1>6 DEF Reconstruct

\* EntryId::derive tells any two requests apart.
LEMMA DeriveInjective ==
  ASSUME NEW x, NEW y, NEW k, NEW l, NEW c, NEW d, IsFiniteSet(k), IsFiniteSet(l),
         Derive([query |-> x, keys |-> k, context |-> c])
           = Derive([query |-> y, keys |-> l, context |-> d])
  PROVE  x = y /\ c = d /\ k = l
<1> DEFINE R == {x, y, c, d, 0, 1} \cup k \cup l
           head(v, w) == <<v>> \o (IF w = None THEN <<0>> ELSE <<1, w>>)
           s == SetToSeq(k)
           t == SetToSeq(l)
<1>1. s \in Seq(R) /\ t \in Seq(R)
  <2>1. s \in [1..Cardinality(k) -> k] /\ Cardinality(k) \in Nat
    BY SetToSeqIs, FS_CardinalityType
  <2>2. t \in [1..Cardinality(l) -> l] /\ Cardinality(l) \in Nat
    BY SetToSeqIs, FS_CardinalityType
  <2> HIDE DEF s, t
  <2>3. s \in [1..Cardinality(k) -> R]
    BY <2>1
  <2>4. t \in [1..Cardinality(l) -> R]
    BY <2>2
  <2> QED  BY <2>1, <2>2, <2>3, <2>4
<1>2. k = Range(s) /\ l = Range(t)
  BY SetToSeqIs
<1>3. head(x, c) \o s = head(y, d) \o t
  BY DEF Derive
<1> HIDE DEF s, t
<1>4. \A v, w \in {x, y, c, d} :
        /\ head(v, w) \in Seq(R) /\ head(v, w)[1] = v
        /\ w = None => Len(head(v, w)) = 2 /\ head(v, w)[2] = 0
        /\ w # None => Len(head(v, w)) = 3 /\ head(v, w)[2] = 1 /\ head(v, w)[3] = w
  <2> TAKE v, w \in {x, y, c, d}
  <2>1. CASE w = None
    <3>1. <<v>> \in Seq(R) /\ <<0>> \in Seq(R) /\ Len(<<v>>) = 1 /\ Len(<<0>>) = 1
      OBVIOUS
    <3>2. head(v, w) = <<v>> \o <<0>>
      BY <2>1
    <3> HIDE DEF R
    <3>3. /\ <<v>> \o <<0>> \in Seq(R) /\ Len(<<v>> \o <<0>>) = 2
          /\ (<<v>> \o <<0>>)[1] = v /\ (<<v>> \o <<0>>)[2] = 0
      BY <3>1
    <3> HIDE DEF head
    <3> QED  BY <2>1, <3>2, <3>3
  <2>2. CASE w # None
    <3>1. <<v>> \in Seq(R) /\ <<1, w>> \in Seq(R) /\ Len(<<v>>) = 1 /\ Len(<<1, w>>) = 2
      OBVIOUS
    <3>2. head(v, w) = <<v>> \o <<1, w>>
      BY <2>2
    <3> HIDE DEF R
    <3>3. /\ <<v>> \o <<1, w>> \in Seq(R) /\ Len(<<v>> \o <<1, w>>) = 3
          /\ (<<v>> \o <<1, w>>)[1] = v /\ (<<v>> \o <<1, w>>)[2] = 1
          /\ (<<v>> \o <<1, w>>)[3] = w
      BY <3>1
    <3> HIDE DEF head
    <3> QED  BY <2>2, <3>2, <3>3
  <2> QED  BY <2>1, <2>2
<1> DEFINE hx == head(x, c)
           hy == head(y, d)
<1>5. hx \in Seq(R) /\ hy \in Seq(R) /\ hx[1] = x /\ hy[1] = y
  BY <1>4
<1>6. /\ c = None => Len(hx) = 2 /\ hx[2] = 0
      /\ c # None => Len(hx) = 3 /\ hx[2] = 1 /\ hx[3] = c
  BY <1>4
<1>7. /\ d = None => Len(hy) = 2 /\ hy[2] = 0
      /\ d # None => Len(hy) = 3 /\ hy[2] = 1 /\ hy[3] = d
  BY <1>4
<1> HIDE DEF head, R
<1>8. hx \o s = hy \o t
  BY <1>3
<1> HIDE DEF hx, hy
<1>9. /\ \A i \in 1..Len(hx) : (hx \o s)[i] = hx[i]
      /\ \A i \in 1..Len(hy) : (hy \o t)[i] = hy[i]
  BY <1>1, <1>5
<1>10. x = y /\ hx[2] = hy[2]
  <2>1. 1 \in 1..Len(hx) /\ 1 \in 1..Len(hy) /\ 2 \in 1..Len(hx) /\ 2 \in 1..Len(hy)
    BY <1>6, <1>7
  <2> QED  BY <1>5, <1>8, <1>9, <2>1
<1>11. c = None <=> d = None
  BY <1>6, <1>7, <1>10
<1>12. c = d
  <2>1. CASE c # None
    <3>1. 3 \in 1..Len(hx) /\ 3 \in 1..Len(hy)
      BY <1>6, <1>7, <1>11, <2>1
    <3> QED  BY <1>6, <1>7, <1>8, <1>9, <1>11, <2>1, <3>1
  <2> QED  BY <1>11, <2>1
<1>13. hx = hy
  BY <1>10, <1>12 DEF hx, hy
<1>14. s = t
  <2>1. hx \o s = hx \o t
    BY <1>8, <1>13
  <2> QED  BY <1>1, <1>5, <2>1, ConcatSimplifications
<1> QED  BY <1>2, <1>10, <1>12, <1>14

\* Two CacheQuery objects are equal just when they are one entry.
LEMMA EqualIsSameEntry ==
  ASSUME NEW p \in RawQueries, NEW a \in NewQueries(p),
         NEW q \in RawQueries, NEW b \in NewQueries(q)
  PROVE  QueryEq(a, b) <=> Derive(Reconstruct(a)) = Derive(Reconstruct(b))
<1>1. /\ Reconstruct(a) = [query |-> a.query, keys |-> Range(a.keys), context |-> a.context]
      /\ IsFiniteSet(Range(a.keys))
  BY ReconstructIs
<1>2. /\ Reconstruct(b) = [query |-> b.query, keys |-> Range(b.keys), context |-> b.context]
      /\ IsFiniteSet(Range(b.keys))
  BY ReconstructIs
<1>3. ASSUME QueryEq(a, b)  PROVE Reconstruct(a) = Reconstruct(b)
  BY <1>1, <1>2, <1>3 DEF QueryEq
<1>4. ASSUME Derive(Reconstruct(a)) = Derive(Reconstruct(b))  PROVE QueryEq(a, b)
  <2>1. a.query = b.query /\ a.context = b.context /\ Range(a.keys) = Range(b.keys)
    BY <1>1, <1>2, <1>4, DeriveInjective
  <2> QED  BY <2>1 DEF QueryEq
<1> QED  BY <1>3, <1>4

-----------------------------------------------------------------------------
(* The inductive invariant *)

\* A SemanticCache that was made has a name and a scoring that were checked.
IsHandle(r) ==
  \E n \in RawNames, b \in Backends, s \in Scorings, open \in BOOLEAN :
    /\ NewScoring(s) = "Ok" /\ CheckNamespace(n) = "Ok"
    /\ r = Handle(n, NewConfig(b, s), open)

HandleInv ==
  /\ DOMAIN handles = Handles /\ DOMAIN registry = Names
  /\ \A h \in Handles : handles[h] # None => IsHandle(handles[h])

SentInv == \A a \in sent : \E q \in RawQueries : a \in NewQueries(q)

LEMMA HandleIs ==
  ASSUME NEW r, IsHandle(r)
  PROVE  /\ r.name \in Names /\ CheckNamespace(r.name) = "Ok"
         /\ FromJson(r.json) = r.chosen /\ ToConfig(r.chosen.scoring) = "Ok"
         /\ r.open \in BOOLEAN
         /\ LET s == [r EXCEPT !.open = TRUE]
            IN s # None /\ IsHandle(s) /\ s.name = r.name /\ s.chosen = r.chosen
<1>1. PICK n \in RawNames, b \in Backends, s \in Scorings, open \in BOOLEAN :
        /\ NewScoring(s) = "Ok" /\ CheckNamespace(n) = "Ok"
        /\ r = Handle(n, NewConfig(b, s), open)
  BY DEF IsHandle
<1>2. /\ r.name = Trim[n] /\ r.json = ToJson(NewConfig(b, s)) /\ r.chosen = NewConfig(b, s)
      /\ r.open = open
  BY <1>1 DEF Handle
<1>3. r.name \in Names
  BY <1>2 DEF Names
<1>4. CheckNamespace(r.name) = "Ok"
  <2>1. Trim[r.name] = Trim[n]
    BY <1>2, TrimAssumption, ArgumentAssumption
  <2> QED  BY <1>1, <2>1 DEF CheckNamespace
<1>5. FromJson(r.json) = r.chosen
  BY <1>2, RoundTrip
<1>6. ToConfig(r.chosen.scoring) = "Ok"
  <2>1. r.chosen.scoring = Dto(s)
    BY <1>2 DEF NewConfig
  <2> QED  BY <1>1, <2>1 DEF NewScoring
<1>7. [r EXCEPT !.open = TRUE] = Handle(n, NewConfig(b, s), TRUE)
  <2>1. \A w, x, y, z, t : [[name |-> w, json |-> x, chosen |-> y, open |-> z] EXCEPT !.open = t]
                            = [name |-> w, json |-> x, chosen |-> y, open |-> t]
    OBVIOUS
  <2>2. \A t : [r EXCEPT !.open = t] = Handle(n, NewConfig(b, s), t)
    <3> DEFINE c == NewConfig(b, s)
               j == ToJson(c)
    <3>1. r = [name |-> Trim[n], json |-> j, chosen |-> c, open |-> open]
      BY <1>1 DEF Handle
    <3>2. \A t : Handle(n, c, t) = [name |-> Trim[n], json |-> j, chosen |-> c, open |-> t]
      BY DEF Handle
    <3> HIDE DEF c, j
    <3>3. \A t : [r EXCEPT !.open = t] = Handle(n, c, t)
      BY <2>1, <3>1, <3>2
    <3> QED  BY <3>3 DEF c
  <2> HIDE DEF Handle, NewConfig
  <2> QED  BY <2>2, Zenon
<1>8. Handle(n, NewConfig(b, s), TRUE) # None
  BY NoneAssumption
<1>9. IsHandle(Handle(n, NewConfig(b, s), TRUE))
  BY <1>1 DEF IsHandle
<1>10. /\ Handle(n, NewConfig(b, s), TRUE).name = r.name
       /\ Handle(n, NewConfig(b, s), TRUE).chosen = r.chosen
  BY <1>2 DEF Handle
<1> HIDE DEF Handle
<1> QED  BY <1>2, <1>3, <1>4, <1>5, <1>6, <1>7, <1>8, <1>9, <1>10

LEMMA HandleStep ==
  ASSUME HandleInv, [Next]_vars
  PROVE  HandleInv'
<1>1. CASE UNCHANGED vars
  BY <1>1 DEF HandleInv, vars
<1>2. ASSUME NEW h \in Handles, NEW n \in RawNames, NEW b \in Backends, NEW s \in Scorings,
             New(h, n, b, s)
      PROVE  HandleInv'
  <2>1. registry' = registry
    BY <1>2 DEF New
  <2>2. CASE FirstError(<<NewScoring(s), CheckNamespace(n)>>) # "Ok"
    <3>1. handles' = handles
      BY <1>2, <2>2 DEF New
    <3> QED  BY <2>1, <3>1 DEF HandleInv
  <2>3. CASE FirstError(<<NewScoring(s), CheckNamespace(n)>>) = "Ok"
    <3>1. handles' = [handles EXCEPT ![h] = Handle(n, NewConfig(b, s), FALSE)]
      BY <1>2, <2>3 DEF New
    <3>2. NewScoring(s) = "Ok" /\ CheckNamespace(n) = "Ok"
      BY <2>3, FirstOfTwo
    <3>3. IsHandle(Handle(n, NewConfig(b, s), FALSE))
      BY <3>2 DEF IsHandle
    <3> QED  BY <2>1, <3>1, <3>3 DEF HandleInv
  <2> QED  BY <2>2, <2>3
<1>3. ASSUME NEW h \in Handles, Connect(h)  PROVE HandleInv'
  <2>1. \/ handles' = handles
        \/ handles' = [handles EXCEPT ![h].open = TRUE]
    BY <1>3 DEF Connect
  <2>2. DOMAIN registry' = Names
    BY <1>3 DEF Connect, HandleInv
  <2>3. CASE handles' = handles
    BY <2>2, <2>3 DEF HandleInv
  <2>4. CASE handles' = [handles EXCEPT ![h].open = TRUE]
    <3>1. IsHandle(handles[h])
      BY <1>3 DEF Connect, HandleInv
    <3>2. IsHandle([handles[h] EXCEPT !.open = TRUE])
      BY <3>1, HandleIs
    <3>3. handles' = [handles EXCEPT ![h] = [handles[h] EXCEPT !.open = TRUE]]
      BY <2>4 DEF HandleInv
    <3> QED  BY <2>2, <3>2, <3>3 DEF HandleInv
  <2> QED  BY <2>1, <2>3, <2>4
<1>4. ASSUME NEW h \in Handles, ConnectPanic(h)  PROVE HandleInv'
  BY <1>4 DEF ConnectPanic, HandleInv
<1>5. ASSUME NEW h \in Handles, NEW q \in RawQueries, Request(h, q)  PROVE HandleInv'
  BY <1>5 DEF Request, HandleInv
<1>6. ASSUME NEW q \in RawQueries, NewQueryFails(q)  PROVE HandleInv'
  BY <1>6 DEF NewQueryFails, HandleInv
<1>7. CASE Restart
  BY <1>7 DEF Restart, HandleInv
<1> QED  BY <1>1, <1>2, <1>3, <1>4, <1>5, <1>6, <1>7 DEF Next

LEMMA SentStep ==
  ASSUME SentInv, [Next]_vars
  PROVE  SentInv'
<1>1. ASSUME NEW h \in Handles, NEW q \in RawQueries, Request(h, q)  PROVE SentInv'
  <2>1. PICK a \in NewQueries(q) : sent' = sent \cup {a}
    BY <1>1 DEF Request
  <2> QED  BY <2>1 DEF SentInv
<1>2. CASE sent' = sent
  BY <1>2 DEF SentInv
<1>3. ASSUME NEW h \in Handles, NEW n \in RawNames, NEW b \in Backends, NEW s \in Scorings,
             New(h, n, b, s)
      PROVE  sent' = sent
  BY <1>3 DEF New
<1>4. ASSUME NEW h \in Handles, Connect(h) \/ ConnectPanic(h)  PROVE sent' = sent
  BY <1>4 DEF Connect, ConnectPanic
<1>5. ASSUME NEW q \in RawQueries, NewQueryFails(q)  PROVE sent' = sent
  BY <1>5 DEF NewQueryFails
<1>6. ASSUME Restart  PROVE sent' = sent
  BY <1>6 DEF Restart
<1> QED  BY <1>1, <1>2, <1>3, <1>4, <1>5, <1>6 DEF Next, vars

LEMMA InitInv ==
  ASSUME Init
  PROVE  /\ HandleInv /\ SentInv /\ ErrorClassKept /\ ServedAsChosen
         /\ last.call # "request"
BY DEF Init, HandleInv, SentInv, ErrorClassKept, ServedAsChosen, Fine

-----------------------------------------------------------------------------
(* The theorems *)

\* A request's error is the namespace's, which the registry does not have, or
\* what the lookup found; never the query's, which was checked before.
LEMMA RequestError ==
  ASSUME NEW h \in Handles, NEW q \in RawQueries, Request(h, q)
  PROVE  \/ last' = Fine("request")
         \/ \E e \in KnownErrors : /\ last' = Reported("request", e)
                                   /\ e \notin {"EmptyQuery", "EmptyKey", "EmptyContext"}
<1> DEFINE cache == registry[handles[h].name]
           Finds == LookupErrors \cup IF cache = None THEN {}
                                      ELSE IF cache.embedding.kind = "voyage"
                                           THEN VoyageEmbed ELSE LocalEmbed
           first == IF cache = None THEN "NamespaceMissing" ELSE "Ok"
           error(query, found) == FirstError(<<first, CheckQuery(query), found>>)
<1>1. PICK query \in NewQueries(q), found \in Finds :
        last' = IF error(query, found) = "Ok" THEN Fine("request")
                ELSE Reported("request", error(query, found))
  BY DEF Request
<1>2. CheckQuery(query) = "Ok"
  BY CheckedAgain DEF Request
<1>3. found \in LookupErrors \cup VoyageEmbed \cup LocalEmbed
  OBVIOUS
<1>4. /\ found \in KnownErrors \cup {"Ok"}
      /\ found \notin {"EmptyQuery", "EmptyKey", "EmptyContext"}
  BY <1>3, FoundKnown
<1>5. first \in {"NamespaceMissing", "Ok"} /\ "NamespaceMissing" \in KnownErrors
  BY DEF KnownErrors
<1>6. error(query, found) \in {"Ok", first, found}
  BY <1>2, FirstOfThree
<1> HIDE DEF error, first
<1> QED  BY <1>1, <1>4, <1>5, <1>6

\* Every error arrives in Python as the exception it would be raised as at home,
\* whatever is configured and whatever a daemon finds: the errors of a build and
\* of a request are all ones that the two conversions (conn.rs backend_error,
\* error.rs) treat alike.
THEOREM ErrorClassKeptCorrect == Spec => []ErrorClassKept
<1>1. Init => ErrorClassKept
  BY InitInv
<1>2. ErrorClassKept /\ [Next]_vars => ErrorClassKept'
  <2> SUFFICES ASSUME ErrorClassKept, [Next]_vars  PROVE ErrorClassKept'
    OBVIOUS
  <2>1. CASE UNCHANGED vars
    BY <2>1 DEF ErrorClassKept, vars
  <2>2. ASSUME NEW h \in Handles, NEW n \in RawNames, NEW b \in Backends, NEW s \in Scorings,
               New(h, n, b, s)
        PROVE  ErrorClassKept'
    <3>1. \/ last' = Raised("new", FirstError(<<NewScoring(s), CheckNamespace(n)>>))
          \/ last' = Fine("new")
      BY <2>2 DEF New
    <3> QED  BY <3>1, RaisedClass, FineClass
  <2>3. ASSUME NEW h \in Handles, Connect(h)  PROVE ErrorClassKept'
    <3> DEFINE error == IF registry[handles[h].name] # None THEN "Ok"
                        ELSE BuildCache(handles[h].name, FromJson(handles[h].json))
    <3>1. error \in KnownErrors \cup {"Ok"}
      BY BuildCacheKnown
    <3>2. last' = Fine("connect") \/ (error # "Ok" /\ last' = Reported("connect", error))
      BY <2>3 DEF Connect
    <3> HIDE DEF error
    <3> QED  BY <3>1, <3>2, ReportedClass, FineClass
  <2>4. ASSUME NEW h \in Handles, ConnectPanic(h)  PROVE ErrorClassKept'
    <3>1. last' = Reported("connect", "DaemonShutdown")
      BY <2>4 DEF ConnectPanic
    <3>2. "DaemonShutdown" \in KnownErrors
      BY DEF KnownErrors, DaemonErrors
    <3> QED  BY <3>1, <3>2, ReportedClass
  <2>5. ASSUME NEW h \in Handles, NEW q \in RawQueries, Request(h, q)  PROVE ErrorClassKept'
    BY <2>5, RequestError, ReportedClass, FineClass
  <2>6. ASSUME NEW q \in RawQueries, NewQueryFails(q)  PROVE ErrorClassKept'
    <3>1. last' = Raised("query", CheckQuery([q EXCEPT !.keys = SetToSeq(q.keys)]))
      BY <2>6 DEF NewQueryFails
    <3> QED  BY <3>1, RaisedClass
  <2>7. CASE Restart
    BY <2>7, FineClass DEF Restart
  <2> QED  BY <2>1, <2>2, <2>3, <2>4, <2>5, <2>6, <2>7 DEF Next
<1> QED  BY <1>1, <1>2, PTL DEF Spec

\* No registration fails for a name or a scoring the constructor accepted, and
\* no request for its text, because trimming twice is trimming once and JSON
\* gives a configuration back (python.rs:667, conn.rs reconstruct).
THEOREM EagerValidationCorrect == Spec => []EagerValidation
<1> DEFINE TextInv == last.call = "request" =>
                        last.error \notin {"EmptyQuery", "EmptyKey", "EmptyContext"}
<1>1. Init => HandleInv /\ TextInv
  BY InitInv
<1>2. TextInv /\ [Next]_vars => TextInv'
  <2> SUFFICES ASSUME TextInv, [Next]_vars  PROVE TextInv'
    OBVIOUS
  <2>1. CASE UNCHANGED vars
    BY <2>1 DEF vars
  <2>2. ASSUME NEW h \in Handles, NEW n \in RawNames, NEW b \in Backends, NEW s \in Scorings,
               New(h, n, b, s)
        PROVE  last'.call # "request"
    <3>1. \/ last' = Raised("new", FirstError(<<NewScoring(s), CheckNamespace(n)>>))
          \/ last' = Fine("new")
      BY <2>2 DEF New
    <3> QED  BY <3>1 DEF Raised, Fine
  <2>3. ASSUME NEW h \in Handles, Connect(h) \/ ConnectPanic(h)  PROVE last'.call # "request"
    BY <2>3 DEF Connect, ConnectPanic, Reported, Fine
  <2>4. ASSUME NEW h \in Handles, NEW q \in RawQueries, Request(h, q)  PROVE TextInv'
    <3>1. CASE last' = Fine("request")
      BY <3>1 DEF Fine
    <3>2. CASE last' # Fine("request")
      <4>1. PICK e \in KnownErrors : /\ last' = Reported("request", e)
                                     /\ e \notin {"EmptyQuery", "EmptyKey", "EmptyContext"}
        BY <2>4, <3>2, RequestError
      <4> QED  BY <4>1 DEF Reported
    <3> QED  BY <3>1, <3>2
  <2>5. ASSUME NEW q \in RawQueries, NewQueryFails(q)  PROVE last'.call # "request"
    BY <2>5 DEF NewQueryFails, Raised
  <2>6. ASSUME Restart  PROVE last'.call # "request"
    BY <2>6 DEF Restart, Fine
  <2> QED  BY <2>1, <2>2, <2>3, <2>4, <2>5, <2>6 DEF Next
<1>3. HandleInv /\ TextInv => EagerValidation
  <2> SUFFICES ASSUME HandleInv, TextInv  PROVE EagerValidation
    OBVIOUS
  <2>1. ASSUME NEW h \in Handles, handles[h] # None
        PROVE  LET errors == BuildErrors(handles[h].name, FromJson(handles[h].json))
               IN errors.namespace = "Ok" /\ errors.scoring = "Ok"
    <3>1. IsHandle(handles[h])
      BY <2>1 DEF HandleInv
    <3> QED  BY <3>1, HandleIs DEF BuildErrors
  <2> QED  BY <2>1 DEF EagerValidation
<1>4. HandleInv /\ [Next]_vars => HandleInv'
  BY HandleStep
<1> QED  BY <1>1, <1>2, <1>3, <1>4, PTL DEF Spec

\* The entry a query names is the one Python's equality says it is, for any
\* arguments: derive is injective on what the daemon reads from a request
\* (newtype.rs derive), and trimming and ordering the keys lose nothing.
THEOREM SameEntryCorrect == Spec => []SameEntry
<1>1. Init => SentInv
  BY InitInv
<1>2. SentInv /\ [Next]_vars => SentInv'
  BY SentStep
<1>3. SentInv => SameEntry
  <2> SUFFICES ASSUME SentInv, NEW a \in sent, NEW b \in sent
               PROVE  QueryEq(a, b) <=> Derive(Reconstruct(a)) = Derive(Reconstruct(b))
    BY DEF SameEntry
  <2>1. PICK p \in RawQueries : a \in NewQueries(p)
    BY DEF SentInv
  <2>2. PICK q \in RawQueries : b \in NewQueries(q)
    BY DEF SentInv
  <2> QED  BY <2>1, <2>2, EqualIsSameEntry
<1> QED  BY <1>1, <1>2, <1>3, PTL DEF Spec

\* Every registered cache is one that a client of the name chose, all of it
\* compiled into the daemon that runs it: a build succeeds only when each of its
\* parts does, and a daemon that is replaced takes its registry along
\* (registry.rs build_cache).
THEOREM ServedAsChosenCorrect == Spec => []ServedAsChosen
<1>1. Init => HandleInv /\ ServedAsChosen
  BY InitInv
<1>2. HandleInv /\ [Next]_vars => HandleInv'
  BY HandleStep
<1>3. HandleInv /\ ServedAsChosen /\ [Next]_vars => ServedAsChosen'
  <2> SUFFICES ASSUME HandleInv, ServedAsChosen, [Next]_vars  PROVE ServedAsChosen'
    OBVIOUS
  <2> DEFINE Chosen(f, n, config) == \E h \in Handles : /\ f[h] # None /\ f[h].name = n
                                                        /\ f[h].chosen = config
  <2>1. ASSUME NEW g \in Handles, Connect(g)  PROVE ServedAsChosen'
    <3> DEFINE name == handles[g].name
               config == FromJson(handles[g].json)
    <3>1. IsHandle(handles[g]) /\ handles[g] # None
      BY <2>1 DEF Connect, HandleInv
    <3>2. \/ UNCHANGED <<handles, registry>>
          \/ /\ handles' = [handles EXCEPT ![g].open = TRUE]
             /\ \/ registry' = registry
                \/ /\ registry' = [registry EXCEPT ![name] = config]
                   /\ BuildCache(name, config) = "Ok"
      BY <2>1 DEF Connect
    <3>3. host' = host
      BY <2>1 DEF Connect
    <3>4. CASE UNCHANGED <<handles, registry>>
      BY <3>3, <3>4 DEF ServedAsChosen, Compiled
    <3>5. CASE handles' = [handles EXCEPT ![g].open = TRUE]
      <4>1. ASSUME NEW n, NEW c, Chosen(handles, n, c)  PROVE Chosen(handles', n, c)
        <5>1. PICK h \in Handles : /\ handles[h] # None /\ handles[h].name = n
                                   /\ handles[h].chosen = c
          BY <4>1
        <5>2. CASE h = g
          <6>1. handles'[h] = [handles[g] EXCEPT !.open = TRUE]
            BY <3>5, <5>2 DEF HandleInv
          <6> QED  BY <3>1, <5>1, <5>2, <6>1, HandleIs
        <5>3. CASE h # g
          <6>1. handles'[h] = handles[h]
            BY <3>5, <5>3 DEF HandleInv
          <6> QED  BY <5>1, <6>1
        <5> QED  BY <5>2, <5>3
      <4>2. CASE registry' = registry
        BY <3>3, <4>1, <4>2 DEF ServedAsChosen, Compiled
      <4>3. ASSUME registry' = [registry EXCEPT ![name] = config],
                   BuildCache(name, config) = "Ok"
            PROVE  ServedAsChosen'
        <5>1. name \in Names /\ config = handles[g].chosen
          BY <3>1, HandleIs
        <5>2. Chosen(handles, name, config)
          BY <3>1, <5>1
        <5>3. \A part \in {"entity", "embedding", "vector", "object"} :
                Compiled(config[part].kind)
          <6> HIDE DEF config, name
          <6>1. LET errors == BuildErrors(name, config)
                IN /\ errors["entity"] = "Ok" /\ errors["embedding"] = "Ok"
                   /\ errors["vector"] = "Ok" /\ errors["object"] = "Ok"
            BY <4>3, BuildCacheIs
          <6>2. \A kind, e : BuildPart(kind, e) = "Ok" => Compiled(kind)
            BY DEF BuildPart
          <6>3. Compiled(config.entity.kind)
            BY <6>1, <6>2 DEF BuildErrors, BuildEntity
          <6>4. Compiled(config.embedding.kind)
            BY <6>1, <6>2 DEF BuildErrors, BuildEmbedding
          <6>5. Compiled(config.vector.kind)
            BY <6>1, <6>2 DEF BuildErrors, BuildVector
          <6>6. Compiled(config.object.kind)
            BY <6>1, <6>2 DEF BuildErrors, BuildObject
          <6> QED  BY <6>3, <6>4, <6>5, <6>6
        <5>4. registry'[name] = config /\ \A n \in Names : n # name => registry'[n] = registry[n]
          BY <4>3, <5>1 DEF HandleInv
        <5> HIDE DEF name, config
        <5>5. ASSUME NEW n \in Names, registry'[n] # None
              PROVE  /\ Chosen(handles', n, registry'[n])
                     /\ \A part \in {"entity", "embedding", "vector", "object"} :
                          Compiled(registry'[n][part].kind)
          <6>1. CASE n = name
            BY <4>1, <5>2, <5>3, <5>4, <6>1
          <6>2. CASE n # name
            BY <4>1, <5>4, <5>5, <6>2 DEF ServedAsChosen
          <6> QED  BY <6>1, <6>2
        <5> QED  BY <3>3, <5>5 DEF ServedAsChosen, Compiled
      <4> QED  BY <3>2, <3>4, <4>2, <4>3
    <3> QED  BY <3>2, <3>4, <3>5
  <2>2. ASSUME NEW g \in Handles, NEW n \in RawNames, NEW b \in Backends, NEW s \in Scorings,
               New(g, n, b, s)
        PROVE  ServedAsChosen'
    <3>1. registry' = registry /\ host' = host /\ handles[g] = None
      BY <2>2 DEF New
    <3>2. handles' = handles \/ handles' = [handles EXCEPT ![g] = Handle(n, NewConfig(b, s), FALSE)]
      BY <2>2 DEF New
    <3>3. \A h \in Handles : handles[h] # None => handles'[h] = handles[h]
      BY <3>1, <3>2 DEF HandleInv
    <3> QED  BY <3>1, <3>3 DEF ServedAsChosen, Compiled
  <2>3. CASE UNCHANGED <<host, handles, registry>>
    BY <2>3 DEF ServedAsChosen, Compiled
  <2>4. CASE Restart
    BY <2>4 DEF Restart, ServedAsChosen
  <2>5. ASSUME NEW h \in Handles, ConnectPanic(h) \/ \E q \in RawQueries : Request(h, q)
        PROVE  UNCHANGED <<host, handles, registry>>
    BY <2>5 DEF ConnectPanic, Request
  <2>6. ASSUME NEW q \in RawQueries, NewQueryFails(q)
        PROVE  UNCHANGED <<host, handles, registry>>
    BY <2>6 DEF NewQueryFails
  <2> QED  BY <2>1, <2>2, <2>3, <2>4, <2>5, <2>6 DEF Next, vars
<1> QED  BY <1>1, <1>2, <1>3, PTL DEF Spec
=============================================================================
