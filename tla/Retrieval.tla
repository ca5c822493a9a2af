----------------------------- MODULE Retrieval -----------------------------
(***************************************************************************)
(* Which stored entry answers a request: entity extraction, the stores'    *)
(* search, and the hard gates of the scoring (src/src/cache.rs,            *)
(* src/src/scoring.rs, src/src/backends/vector_memory.rs, and the query    *)
(* side of vector_turbopuffer.rs, entity_keyword.rs, entity_gliner.rs).    *)
(*                                                                         *)
(* One namespace is modelled, with the backends and the scoring it was     *)
(* built with (`cfg`).  Each operation is one step: how the steps of       *)
(* several tasks interleave is the subject of module WriteBehind.          *)
(* Scores are integers in hundredths.  What a neural model or a remote     *)
(* index computes is a constant or a set of allowed results.               *)
(***************************************************************************)
EXTENDS Integers, Sequences, FiniteSets, SequencesExt, FiniteSetsExt, Functions

CONSTANTS
  Requests,   \* requests clients make: [query, keys, context]
  Configs,    \* how a namespace may be configured
  NoContext,  \* `None` where a context may be
  NoHit,      \* `None` where a hit may be
  NoEntity,   \* what Entity::normalize makes of blank text
  Words,      \* Words[c]: the words of a context, as written
  Lower,      \* Lower[w]: a word in lower case
  Dense,      \* Dense[q][p]: cosine of the embeddings of two queries
  Spans,      \* Spans[t]: what the entity model finds in a text, best first
  Norm,       \* Norm[s]: a span's text, whitespace collapsed, in lower case
  FastM,      \* FAST_M: the keywords the fast pass keeps, 5 in the code
  IdfTable,   \* IdfTable[n][df + 1]: ln((n + 1) / (df + 1/2)) in hundredths, n documents
              \*   of which df have the term
  TpScore(_, _, _)  \* TpScore(rows, c, id): turbopuffer's BM25 of a context against
                    \*   a row's, among the rows it holds, in hundredths

VARIABLES
  cfg,      \* the namespace's scoring and backends
  entries,  \* ids of the stored entries
  bm25,     \* the memory store's context index
  last      \* the last lookup: its request and the hit

vars == <<cfg, entries, bm25, last>>

Contexts == DOMAIN Words
Terms    == Range(Lower)

\* A request is stored under the id derived from its query, its key set and
\* its context; no two of them share an id (checked in module Registration).
Derive(r) == r

ASSUME RequestsAssumption ==
  /\ NoHit \notin Requests /\ NoContext \notin Contexts
  /\ \A r \in Requests : /\ r.query \in DOMAIN Dense \cap DOMAIN Spans
                         /\ r.context \in Contexts \cup {NoContext}
                         /\ r.context # NoContext => r.context \in DOMAIN Spans

ASSUME TextAssumption ==
  /\ \A c \in Contexts : Words[c] = [i \in 1..Len(Words[c]) |-> Words[c][i]]
                         /\ Len(Words[c]) \in Nat
  /\ \A t \in DOMAIN Spans : /\ IsFiniteSet(DOMAIN Spans[t])
                            /\ \A i \in DOMAIN Spans[t] : Spans[t][i].score \in Int

ASSUME DenseAssumption ==
  \A q, p \in DOMAIN Dense : /\ Dense[q][p] \in Int
                            /\ Dense[q][p] = Dense[p][q] /\ Dense[q][q] = 100

ASSUME ConfigAssumption ==
  \A c \in Configs : /\ c.topK \in Nat \ {0} /\ c.vector \in {"memory", "turbopuffer"}
                     /\ c.extractor \in {"keyword", "gliner"}
                     /\ {c.threshold, c.contextGate, c.contextThreshold} \subseteq 0..100

ASSUME TpAssumption ==
  \A rows \in SUBSET Requests, c \in Contexts :
    \A id \in rows : id.context # NoContext => TpScore(rows, c, id) \in Nat

NoLookup == [op |-> "none"]

-----------------------------------------------------------------------------
(* Entities *)

\* The entities of the spans at the positions kept.
Normalized(spans, kept) == {Norm[spans[i].text] : i \in kept} \ {NoEntity}

\* KeywordEntities::extract: the fast pass keeps the first few of the list.
KeywordExtract(text, fast) ==
  Normalized(Spans[text], {i \in DOMAIN Spans[text] : fast => i <= FastM})

\* A keyword is a word: when there are any, the best are not all blank.
ASSUME KeywordAssumption ==
  \A t \in DOMAIN Spans : KeywordExtract(t, TRUE) = {} => KeywordExtract(t, FALSE) = {}

FullThreshold == 50
FastCutoff    == 85

EntitiesFromSpans(spans, cutoff) ==
  Normalized(spans, {i \in DOMAIN spans : spans[i].score >= cutoff})

\* Mutant: the two cutoffs are swapped.
GlinerExtractSwapped(text, fast) ==
  EntitiesFromSpans(Spans[text], IF fast THEN FullThreshold ELSE FastCutoff)

\* GlinerEntities::extract: the fast pass keeps the confident spans.
GlinerExtract(text, fast) ==
  EntitiesFromSpans(Spans[text], IF fast THEN FastCutoff ELSE FullThreshold)

Extract(text, fast) ==
  IF cfg.extractor = "keyword" THEN KeywordExtract(text, fast)
                               ELSE GlinerExtract(text, fast)

\* The query's entities, or the context's when the query has none.
ExtractEntities(r, fast) ==
  LET entities == Extract(r.query, fast) IN
    IF entities = {} /\ r.context # NoContext THEN Extract(r.context, fast) ELSE entities

\* prepare: what is stored with an entry is the full pass over its request.
EntryEntities(id) == ExtractEntities(id, FALSE)

-----------------------------------------------------------------------------
(* The context index *)

Tokenize(c) == [i \in DOMAIN Words[c] |-> Lower[Words[c][i]]]
TermSet(c)  == Range(Tokenize(c))
Count(c, t) == Cardinality({i \in DOMAIN Words[c] : Tokenize(c)[i] = t})

Bm25New ==
  [documentFrequency |-> [t \in Terms |-> 0],  \* 0: no entry in the map
   termFrequency     |-> [id \in {} |-> 0],
   documentLength    |-> [id \in {} |-> 0],
   totalLength       |-> 0,
   documentCount     |-> 0]

Without(f, id) == Restrict(f, DOMAIN f \ {id})
With(f, id, v) == [x \in DOMAIN f \cup {id} |-> IF x = id THEN v ELSE f[x]]

\* Mutant: the length of a removed document stays, in the map and in the total.
Bm25RemoveKeepLength(b, id) ==
  IF id \notin DOMAIN b.termFrequency THEN b ELSE
    [b EXCEPT !.documentFrequency =
                [t \in Terms |-> @[t] - IF t \in DOMAIN b.termFrequency[id] THEN 1 ELSE 0],
              !.termFrequency  = Without(@, id),
              !.documentCount  = @ - 1]

Bm25Remove(b, id) ==
  IF id \notin DOMAIN b.termFrequency THEN b ELSE
    [b EXCEPT !.documentFrequency =
                [t \in Terms |-> @[t] - IF t \in DOMAIN b.termFrequency[id] THEN 1 ELSE 0],
              !.termFrequency  = Without(@, id),
              !.documentLength = Without(@, id),
              !.totalLength    = @ - b.documentLength[id],
              !.documentCount  = @ - 1]

\* insert, which removes the id's prior posting first.
Bm25Insert(b, id, c) ==
  LET clean == Bm25Remove(b, id) IN
    [clean EXCEPT !.documentFrequency =
                    [t \in Terms |-> @[t] + IF t \in TermSet(c) THEN 1 ELSE 0],
                  !.termFrequency  = With(@, id, [t \in TermSet(c) |-> Count(c, t)]),
                  !.documentLength = With(@, id, Len(Words[c])),
                  !.totalLength    = @ + Len(Words[c]),
                  !.documentCount  = @ + 1]

IndexContext(b, id) ==
  IF id.context = NoContext THEN b ELSE Bm25Insert(b, id, id.context)

\* The table bounds the documents with a context that are stored at a time.
MaxDocuments == Len(IdfTable)
Idf(b, t) == IdfTable[b.documentCount][b.documentFrequency[t] + 1]

\* idf * tf / (tf + k1 * (1 - B + B * length / average)), k1 = 1.2, B = 0.75,
\* over the common factor k1 + 1; in hundredths of hundredths.
Saturation(b, id, t) ==
  LET tf == b.termFrequency[id][t] IN
    (1000 * tf * b.totalLength)
      \div (10 * tf * b.totalLength + 3 * b.totalLength
              + 9 * b.documentLength[id] * b.documentCount)
Earned(b, id, terms) ==
  MapThenSumSet(LAMBDA t : Idf(b, t) * Saturation(b, id, t),
                terms \cap DOMAIN b.termFrequency[id])
UpperBound(b, terms) == MapThenSumSet(LAMBDA t : Idf(b, t), terms)

\* Bm25Index::score, in [0, 100].
Bm25Score(b, id, terms) ==
  IF id \notin DOMAIN b.termFrequency \/ UpperBound(b, terms) = 0 THEN 0
  ELSE Earned(b, id, terms) \div UpperBound(b, terms)

\* The index of a set of entries, counted from scratch.
IndexOf(ids) ==
  LET docs == {id \in ids : id.context # NoContext} IN
    [documentFrequency |-> [t \in Terms |-> Cardinality({d \in docs : t \in TermSet(d.context)})],
     termFrequency     |-> [d \in docs |-> [t \in TermSet(d.context) |-> Count(d.context, t)]],
     documentLength    |-> [d \in docs |-> Len(Words[d.context])],
     totalLength       |-> Cardinality(UNION {{d} \X DOMAIN Words[d.context] : d \in docs}),
     documentCount     |-> Cardinality(docs)]

-----------------------------------------------------------------------------
(* The stores' search *)

\* The filter find_match sends: every key of the request, and some entity.
Filter(r) ==
  [keysAll     |-> r.keys,
   entitiesAny |-> IF cfg.entityFilter THEN ExtractEntities(r, TRUE) ELSE {}]

Passes(f, id) ==
  /\ f.keysAll \subseteq id.keys
  /\ f.entitiesAny = {} \/ f.entitiesAny \cap EntryEntities(id) # {}

\* The k best of a set in descending order; ties come in any order.
Ranked(ids, score, k) ==
  LET n == IF Cardinality(ids) < k THEN Cardinality(ids) ELSE k IN
    {s \in [1..n -> ids] :
       /\ IsInjective(s)
       /\ \A i \in 1..n-1 : score[s[i]] >= score[s[i+1]]
       /\ \A c \in ids \ Range(s) : score[c] <= score[s[n]]}

DenseTo(r, ids) == [id \in ids |-> Dense[r.query][id.query]]

\* MemoryVectorStore::query: scan, sort by cosine, truncate.  The scan's order
\* is a HashMap's, and the sort is stable: ties may come in any order.
MemoryQuery(r) ==
  LET ids == {id \in entries : Passes(Filter(r), id)} IN
    {[i \in DOMAIN s |->
        [id |-> s[i], dense |-> Dense[r.query][s[i].query],
         sparse |-> IF r.context = NoContext THEN 0
                    ELSE Bm25Score(bm25, s[i], TermSet(r.context))]] :
      s \in Ranked(ids, DenseTo(r, ids), cfg.topK)}

\* The clauses turbopuffer must all find true of a row.
FilterToTp(f) ==
  (IF f.keysAll = {} THEN {} ELSE {[op |-> "And", conds |-> f.keysAll]})
    \cup IF f.entitiesAny = {} THEN {} ELSE {[op |-> "Or", conds |-> f.entitiesAny]}

\* External: how turbopuffer evaluates a clause on a row.
TpMatches(clauses, id) ==
  \A c \in clauses : IF c.op = "And" THEN c.conds \subseteq id.keys
                     ELSE c.conds \cap EntryEntities(id) # {}

\* External: a row without a context is not in turbopuffer's text index.
TpBm25(r, id) ==
  IF r.context = NoContext \/ id.context = NoContext THEN 0 ELSE TpScore(entries, r.context, id)

SquashBm25(score) == (100 * score) \div (score + 500)

\* fuse_multi_query: the union of the legs, the dense leg first; the component
\* of a leg a row is absent from is 0.
FuseMultiQuery(r, ann, text) ==
  LET order[n \in 0..Len(text)] ==
        IF n = 0 THEN ann
        ELSE IF text[n] \in Range(ann) THEN order[n - 1] ELSE Append(order[n - 1], text[n])
      row(id) == [id |-> id,
                  dense  |-> IF id \in Range(ann) THEN Dense[r.query][id.query] ELSE 0,
                  sparse |-> IF id \in Range(text) THEN SquashBm25(TpBm25(r, id)) ELSE 0]
  IN [i \in DOMAIN order[Len(text)] |-> row(order[Len(text)][i])]

\* TurbopufferVectorStore::query: a dense leg and, when the request has a
\* context, a text leg, each cut to top_k on its own.  The service's dense
\* search is approximate; here it ranks exactly, as on a small namespace.
TpQuery(r) ==
  LET ids == {id \in entries : TpMatches(FilterToTp(Filter(r)), id)}
      matching == {id \in ids : TpBm25(r, id) > 0}
      text == IF r.context = NoContext THEN {<<>>}
              ELSE Ranked(matching, [id \in matching |-> TpBm25(r, id)], cfg.topK)
  IN {FuseMultiQuery(r, ann, t) : ann \in Ranked(ids, DenseTo(r, ids), cfg.topK), t \in text}

Query(r) == IF cfg.vector = "memory" THEN MemoryQuery(r) ELSE TpQuery(r)

-----------------------------------------------------------------------------
(* Scoring *)

Gated(r) == cfg.context = "gate" /\ r.context # NoContext

\* Mutant: a context-bearing request that misses the gate only needs the full
\* dense floor.
AcceptSoftGate(r, entities, hit) ==
  LET n == Cardinality(entities)
      required == IF n \div 3 > 1 THEN n \div 3 ELSE 1
  IN /\ n > 0 => Cardinality(entities \cap EntryEntities(hit.id)) >= required
     /\ hit.dense >= IF Gated(r) /\ hit.sparse >= cfg.contextGate
                     THEN cfg.contextThreshold ELSE cfg.threshold

\* ScoringConfig::accept: the entity gate, the context gate, the dense floor.
Accept(r, entities, hit) ==
  LET n == Cardinality(entities)
      required == IF n \div 3 > 1 THEN n \div 3 ELSE 1
  IN /\ n > 0 => Cardinality(entities \cap EntryEntities(hit.id)) >= required
     /\ Gated(r) => hit.sparse >= cfg.contextGate
     /\ hit.dense >= IF Gated(r) THEN cfg.contextThreshold ELSE cfg.threshold

\* Mutant: the last accepted candidate wins.
SelectLast(r, hits) ==
  Max({0} \cup {n \in DOMAIN hits : Accept(r, ExtractEntities(r, TRUE), hits[n])})

\* ScoringConfig::select: the densest accepted candidate, the first of a tie,
\* by its position; 0 is None.
Select(r, hits) ==
  LET best[n \in 0..Len(hits)] ==
        IF n = 0 THEN 0
        ELSE IF /\ Accept(r, ExtractEntities(r, TRUE), hits[n])
                /\ best[n - 1] = 0 \/ hits[n].dense > hits[best[n - 1]].dense
             THEN n ELSE best[n - 1]
  IN best[Len(hits)]

\* Cache::find_match: the hits it may come to, one for each order of the ties.
FindMatch(r) ==
  {IF Select(r, hits) = 0 THEN NoHit ELSE hits[Select(r, hits)].id : hits \in Query(r)}

-----------------------------------------------------------------------------
(* The cache's operations *)

Init ==
  /\ cfg \in Configs
  /\ entries = {}
  /\ bm25 = Bm25New
  /\ last = NoLookup

\* Cache::prepare and the vector half of commit.
Set(r) ==
  LET id == Derive(r) IN
    /\ Cardinality({e \in entries \cup {id} : e.context # NoContext}) <= MaxDocuments
    /\ entries' = entries \cup {id}
    /\ bm25' = IF cfg.vector = "memory" THEN IndexContext(bm25, id) ELSE bm25
    /\ last' = NoLookup
    /\ UNCHANGED cfg

Get(r) ==
  \E hit \in FindMatch(r) :
    /\ last' = [op |-> "get", request |-> r, hit |-> hit]
    /\ UNCHANGED <<cfg, entries, bm25>>

\* Mutant: every entry of the matched query goes.
DeleteQuery(r) ==
  \E hit \in FindMatch(r) :
    /\ last' = [op |-> "del", request |-> r, hit |-> hit]
    /\ entries' = IF hit = NoHit THEN entries ELSE {id \in entries : id.query # hit.query}
    /\ bm25' = IndexOf(entries')
    /\ UNCHANGED cfg

\* Cache::delete removes what the request matches, exact or not.
Delete(r) ==
  \E hit \in FindMatch(r) :
    /\ last' = [op |-> "del", request |-> r, hit |-> hit]
    /\ entries' = entries \ {hit}
    /\ bm25' = IF cfg.vector = "memory" THEN Bm25Remove(bm25, hit) ELSE bm25
    /\ UNCHANGED cfg

Next == \E r \in Requests : Set(r) \/ Get(r) \/ Delete(r)

Spec == Init /\ [][Next]_vars

-----------------------------------------------------------------------------
(* Properties *)

\* What the context match of a stored entry should be, counted from the
\* stored entries and not from the running counters.
ContextMatch(r, id) ==
  IF r.context = NoContext THEN 0
  ELSE IF cfg.vector = "memory" THEN Bm25Score(IndexOf(entries), id, TermSet(r.context))
  ELSE SquashBm25(TpBm25(r, id))

\* A stored entry may answer a request: the documented gates, on true scores.
Admissible(r, id) ==
  LET entities == ExtractEntities(r, TRUE)
      shared   == Cardinality(entities \cap EntryEntities(id))
  IN /\ r.keys \subseteq id.keys
     /\ entities = {} \/ (shared >= 1 /\ 3 * shared >= Cardinality(entities) - 2)
     /\ Gated(r) => ContextMatch(r, id) >= cfg.contextGate
     /\ Dense[r.query][id.query] >= IF Gated(r) THEN cfg.contextThreshold ELSE cfg.threshold

Rivals(r, id) == {o \in entries \ {id} : Passes(Filter(r), o)}

\* top_k other candidates are at least as dense: the store may cut the entry.
DenseCrowded(r, id) ==
  Cardinality({o \in Rivals(r, id) : Dense[r.query][o.query] >= Dense[r.query][id.query]})
    >= cfg.topK

\* top_k other rows match the context at least as well: turbopuffer's text leg
\* may cut the row, which then scores 0 against the context.
TextCrowded(r, id) ==
  /\ cfg.vector = "turbopuffer"
  /\ Cardinality({o \in Rivals(r, id) : TpBm25(r, o) >= TpBm25(r, id)}) >= cfg.topK

\* However entries come and go, the index's counters are those of the contexts
\* now stored, so a score depends on what is stored and not on its history
\* (vector_memory.rs, insert and remove).
IndexExact == cfg.vector = "memory" => bm25 = IndexOf(entries)

\* A lookup never answers with an entry that any hard gate forbids, whichever
\* store searched and in whichever order ties came (scoring.rs: a false hit is
\* what the gates exist to prevent).
NoFalseHit ==
  (last.op = "get" /\ last.hit # NoHit) =>
    last.hit \in entries /\ Admissible(last.request, last.hit)

\* An admissible entry loses only to one at least as dense, or to a truncation:
\* no lookup misses or prefers a worse entry while a better one may be had and
\* neither leg of the search cut it (vector_memory.rs:220,
\* vector_turbopuffer.rs:379).
BestUnlessCut ==
  last.op = "get" =>
    \A id \in entries :
      Admissible(last.request, id) =>
        \/ /\ last.hit # NoHit
           /\ Dense[last.request.query][last.hit.query] >= Dense[last.request.query][id.query]
        \/ DenseCrowded(last.request, id)
        \/ Gated(last.request) /\ TextCrowded(last.request, id)

\* The fast pass finds nothing in the query where the full pass did, so that
\* the lookup's entities come from the context and the entry's do not.
FastFallsBack(r) ==
  /\ r.context # NoContext
  /\ Extract(r.query, TRUE) = {} /\ Extract(r.query, FALSE) # {}

\* The very request an entry was stored under finds an entry, except when the
\* search cuts its own entry, when the confident pass falls back to the context
\* (GLiNER only), or when a context's score against itself is too low to clear
\* the gate, as that of a long one among short ones is (cache.rs, get after set).
RepeatHits ==
  (last.op = "get" /\ Derive(last.request) \in entries /\ last.hit = NoHit) =>
    \/ DenseCrowded(last.request, Derive(last.request))
    \/ cfg.extractor = "gliner" /\ FastFallsBack(last.request)
    \/ /\ Gated(last.request)
       /\ \/ TextCrowded(last.request, Derive(last.request))
          \/ ~(ContextMatch(last.request, Derive(last.request)) >= cfg.contextGate)

\* A Del takes at most one entry out, and only one that a Get of the same
\* request could have answered with (cache.rs, delete).
DeleteIsMatch ==
  [][\A gone \in entries \ entries' :
       /\ last'.op = "del" /\ entries \ entries' = {gone}
       /\ Admissible(last'.request, gone)]_vars

=============================================================================
