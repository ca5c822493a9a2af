-------------------------- MODULE RetrievalProofs --------------------------
(***************************************************************************)
(* Retrieval for any requests, texts, scores and configurations: the       *)
(* context index counts what is stored, and a lookup answers with the best *)
(* entry the gates admit unless the store's search cut it.  The loops are  *)
(* recursive functions here; that they are defined, and what holds after   *)
(* each of their turns, is by induction over sets of numbers.              *)
(***************************************************************************)
EXTENDS Retrieval, FiniteSetTheorems, TLAPS

-----------------------------------------------------------------------------
(* Loops *)

\* Induction up to N, with the set of the numbers it has been shown for.
LEMMA UpTo ==
  ASSUME NEW N \in Nat, NEW P, P \subseteq 0..N, 0 \in P,
         \A n \in 1..N : n - 1 \in P => n \in P
  PROVE  P = 0..N
<1> DEFINE Rest == (0..N) \ P
<1>1. SUFFICES ASSUME Rest # {}  PROVE FALSE
  OBVIOUS
<1>2. Rest \subseteq Nat
  OBVIOUS
<1>3. PICK x \in Rest : \A y \in Rest : <<y, x>> \notin OpToRel(<, Nat)
  BY <1>1, <1>2, NatLessThanWellFounded, WFMin
<1>4. \A y \in Rest : ~(y < x)
  BY <1>2, <1>3 DEF OpToRel
<1>5. x \in 1..N /\ x - 1 \in 0..N /\ x - 1 < x
  <2>1. x \in 0..N /\ x # 0
    OBVIOUS
  <2> QED  BY <2>1
<1>6. x - 1 \in P
  BY <1>4, <1>5
<1> QED  BY <1>5, <1>6

\* A loop of N turns, each of which computes a value from the one before.
Turns(V, N) == [V \X (1..N) -> V]
Loop(g, N, base, step) == g[0] = base /\ \A n \in 1..N : g[n] = step[<<g[n - 1], n>>]

LEMMA LoopDefined ==
  ASSUME NEW V, NEW N \in Nat, NEW base \in V, NEW step \in Turns(V, N)
  PROVE  \E g \in [0..N -> V] : Loop(g, N, base, step)
<1> DEFINE Run(g, n) == g[0] = base /\ \A m \in 1..n : g[m] = step[<<g[m - 1], m>>]
           P == {n \in 0..N : \E g \in [0..N -> V] : Run(g, n)}
<1>1. 0 \in P
  <2> DEFINE g == [n \in 0..N |-> base]
  <2>1. g \in [0..N -> V] /\ Run(g, 0)
    OBVIOUS
  <2> HIDE DEF g
  <2>2. 0 \in 0..N
    OBVIOUS
  <2> QED  BY <2>1, <2>2
<1>2. ASSUME NEW n \in 1..N, n - 1 \in P  PROVE n \in P
  <2>1. PICK g \in [0..N -> V] : Run(g, n - 1)
    BY <1>2
  <2> DEFINE h == [g EXCEPT ![n] = step[<<g[n - 1], n>>]]
  <2>2. n \in 0..N /\ n - 1 \in 0..N /\ 0 \in 0..N /\ n # 0
    OBVIOUS
  <2>3. step[<<g[n - 1], n>>] \in V
    BY <2>2 DEF Turns
  <2>4. h \in [0..N -> V] /\ h[n] = step[<<g[n - 1], n>>]
    BY <2>2, <2>3
  <2>5. \A m \in 0..N : m # n => h[m] = g[m]
    BY <2>2
  <2> HIDE DEF h
  <2>6. h[0] = base
    BY <2>1, <2>2, <2>5
  <2>7. ASSUME NEW m \in 1..n  PROVE h[m] = step[<<h[m - 1], m>>]
    <3>1. m \in 0..N /\ m - 1 \in 0..N /\ m - 1 # n
      OBVIOUS
    <3>2. h[m - 1] = g[m - 1]
      BY <2>5, <3>1
    <3>3. CASE m = n
      BY <2>4, <3>2, <3>3
    <3>4. CASE m # n
      <4>1. m \in 1..(n - 1)
        BY <3>4
      <4>2. g[m] = step[<<g[m - 1], m>>]
        BY <2>1, <4>1
      <4> QED  BY <2>5, <3>1, <3>2, <3>4, <4>2
    <3> QED  BY <3>3, <3>4
  <2> QED  BY <2>2, <2>4, <2>6, <2>7
<1>3. P = 0..N
  <2>1. P \subseteq 0..N  OBVIOUS
  <2> HIDE DEF P
  <2> QED  BY <1>1, <1>2, <2>1, UpTo
<1>4. N \in P
  <2> HIDE DEF P
  <2> QED  BY <1>3
<1> QED  BY <1>4 DEF Loop

-----------------------------------------------------------------------------
(* Counting *)

LEMMA EmptyCount ==
  IsFiniteSet({}) /\ Cardinality({}) = 0
BY FS_EmptySet

LEMMA AddOne ==
  ASSUME NEW S, NEW x, IsFiniteSet(S), x \notin S
  PROVE  IsFiniteSet(S \cup {x}) /\ Cardinality(S \cup {x}) = Cardinality(S) + 1
BY FS_AddElement

LEMMA DisjointCount ==
  ASSUME NEW S, NEW T, IsFiniteSet(S), IsFiniteSet(T), S \cap T = {}
  PROVE  /\ IsFiniteSet(S \cup T) /\ Cardinality(S) \in Nat /\ Cardinality(T) \in Nat
         /\ Cardinality(S \cup T) = Cardinality(S) + Cardinality(T)
<1>1. Cardinality(S) \in Nat /\ Cardinality(T) \in Nat
  BY FS_CardinalityType
<1>2. Cardinality(S \cap T) = 0
  BY EmptyCount
<1>3. /\ IsFiniteSet(S \cup T)
      /\ Cardinality(S \cup T) = Cardinality(S) + Cardinality(T) - Cardinality(S \cap T)
  BY FS_Union
<1> QED  BY <1>1, <1>2, <1>3

\* The positions of the words of a set of documents.
Positions(docs) == UNION {{d} \X DOMAIN Words[d.context] : d \in docs}

IsDoc(d) == d.context \in Contexts

LEMMA WordsOf ==
  ASSUME NEW d, IsDoc(d)
  PROVE  LET P == {d} \X DOMAIN Words[d.context]
         IN IsFiniteSet(P) /\ Cardinality(P) = Len(Words[d.context])
<1> DEFINE n == Len(Words[d.context])
           D == DOMAIN Words[d.context]
<1>1. n \in Nat /\ D = 1..n
  BY TextAssumption DEF IsDoc
<1> HIDE DEF n, D
<1>2. IsFiniteSet(D) /\ Cardinality(D) = n
  BY <1>1, FS_Interval
<1>3. IsFiniteSet({d}) /\ Cardinality({d}) = 1
  BY FS_Singleton
<1>4. IsFiniteSet({d} \X D) /\ Cardinality({d} \X D) = 1 * n
  BY <1>2, <1>3, FS_Product
<1> QED  BY <1>1, <1>4 DEF n, D

LEMMA PositionsFinite ==
  ASSUME NEW docs, IsFiniteSet(docs), \A d \in docs : IsDoc(d)
  PROVE  IsFiniteSet(Positions(docs))
<1> DEFINE f == [d \in docs |-> {d} \X DOMAIN Words[d.context]]
           F == {{d} \X DOMAIN Words[d.context] : d \in docs}
<1>1. f \in Surjection(docs, F)
  BY DEF Surjection
<1>2. IsFiniteSet(F)
  BY <1>1, FS_Surjection
<1>3. \A T \in F : IsFiniteSet(T)
  BY WordsOf
<1> QED  BY <1>2, <1>3, FS_UNION DEF Positions

LEMMA PositionsAdd ==
  ASSUME NEW docs, IsFiniteSet(docs), \A d \in docs : IsDoc(d), NEW id, IsDoc(id), id \notin docs
  PROVE  /\ Cardinality(Positions(docs)) \in Nat
         /\ Cardinality(Positions(docs \cup {id}))
              = Cardinality(Positions(docs)) + Len(Words[id.context])
<1> DEFINE P == Positions(docs)
           Q == {id} \X DOMAIN Words[id.context]
<1>1. Positions(docs \cup {id}) = P \cup Q
  BY DEF Positions
<1>2. P \cap Q = {}
  BY DEF Positions
<1>3. IsFiniteSet(P) /\ IsFiniteSet(Q) /\ Cardinality(Q) = Len(Words[id.context])
  BY PositionsFinite, WordsOf
<1> QED  BY <1>1, <1>2, <1>3, DisjointCount

-----------------------------------------------------------------------------
(* The context index *)

Docs(ids) == {id \in ids : id.context # NoContext}

\* The documents with a term.
Holding(docs, t) == {d \in docs : t \in TermSet(d.context)}

\* The index of a set of documents: IndexOf depends on nothing else.
IndexOfDocs(docs) ==
  [documentFrequency |-> [t \in Terms |-> Cardinality(Holding(docs, t))],
   termFrequency     |-> [d \in docs |-> [t \in TermSet(d.context) |-> Count(d.context, t)]],
   documentLength    |-> [d \in docs |-> Len(Words[d.context])],
   totalLength       |-> Cardinality(Positions(docs)),
   documentCount     |-> Cardinality(docs)]

LEMMA IndexOfIs ==
  ASSUME NEW ids
  PROVE  IndexOf(ids) = IndexOfDocs(Docs(ids))
BY DEF IndexOf, IndexOfDocs, Docs, Positions, Holding

\* Where a document is counted, and where it is not.
LEMMA FrequencyAdd ==
  ASSUME NEW docs, IsFiniteSet(docs), NEW id, id \notin docs, NEW t
  PROVE  /\ Cardinality(Holding(docs, t)) \in Nat
         /\ Cardinality(Holding(docs \cup {id}, t))
              = Cardinality(Holding(docs, t)) + IF t \in TermSet(id.context) THEN 1 ELSE 0
<1> DEFINE S == Holding(docs, t)
           T == Holding(docs \cup {id}, t)
<1>1. IsFiniteSet(S) /\ Cardinality(S) \in Nat
  BY FS_Subset, FS_CardinalityType DEF Holding
<1>2. CASE t \in TermSet(id.context)
  <2>1. T = S \cup {id} /\ id \notin S
    BY <1>2 DEF Holding
  <2> HIDE DEF S, T
  <2>2. Cardinality(T) = Cardinality(S) + 1
    BY <1>1, <2>1, AddOne
  <2> QED  BY <1>1, <1>2, <2>2 DEF S, T
<1>3. CASE t \notin TermSet(id.context)
  <2>1. T = S
    BY <1>3 DEF Holding
  <2> HIDE DEF S, T
  <2>2. Cardinality(T) = Cardinality(S) + 0
    BY <1>1, <2>1
  <2> QED  BY <1>1, <1>3, <2>2 DEF S, T
<1> QED  BY <1>2, <1>3

\* Taking a document out of the index leaves the index of the others.
LEMMA RemoveExact ==
  ASSUME NEW docs, IsFiniteSet(docs), \A d \in docs : IsDoc(d), NEW id, IsDoc(id), id \notin docs
  PROVE  Bm25Remove(IndexOfDocs(docs \cup {id}), id) = IndexOfDocs(docs)
<1> DEFINE all == docs \cup {id}
           b == IndexOfDocs(all)
           c == IndexOfDocs(docs)
           df == [t \in Terms |-> b.documentFrequency[t]
                                    - IF t \in DOMAIN b.termFrequency[id] THEN 1 ELSE 0]
<1>1. /\ b.termFrequency = [d \in all |-> [t \in TermSet(d.context) |-> Count(d.context, t)]]
      /\ b.documentLength = [d \in all |-> Len(Words[d.context])]
      /\ b.documentFrequency = [t \in Terms |-> Cardinality(Holding(all, t))]
      /\ b.totalLength = Cardinality(Positions(all)) /\ b.documentCount = Cardinality(all)
  BY DEF IndexOfDocs
<1>2. /\ c.termFrequency = [d \in docs |-> [t \in TermSet(d.context) |-> Count(d.context, t)]]
      /\ c.documentLength = [d \in docs |-> Len(Words[d.context])]
      /\ c.documentFrequency = [t \in Terms |-> Cardinality(Holding(docs, t))]
      /\ c.totalLength = Cardinality(Positions(docs)) /\ c.documentCount = Cardinality(docs)
  BY DEF IndexOfDocs
<1>3. b = [documentFrequency |-> b.documentFrequency, termFrequency |-> b.termFrequency,
           documentLength |-> b.documentLength, totalLength |-> b.totalLength,
           documentCount |-> b.documentCount]
  BY DEF IndexOfDocs
<1>4. c = [documentFrequency |-> c.documentFrequency, termFrequency |-> c.termFrequency,
           documentLength |-> c.documentLength, totalLength |-> c.totalLength,
           documentCount |-> c.documentCount]
  BY DEF IndexOfDocs
<1> HIDE DEF b, c
<1>5. id \in DOMAIN b.termFrequency /\ id \in DOMAIN b.documentLength
  BY <1>1
<1>6. Bm25Remove(b, id)
        = [documentFrequency |-> df, termFrequency |-> Without(b.termFrequency, id),
           documentLength |-> Without(b.documentLength, id),
           totalLength |-> b.totalLength - b.documentLength[id],
           documentCount |-> b.documentCount - 1]
  BY <1>3, <1>5 DEF Bm25Remove
<1>7. df = c.documentFrequency
  <2>1. DOMAIN b.termFrequency[id] = TermSet(id.context)
    BY <1>1
  <2>2. ASSUME NEW t \in Terms  PROVE df[t] = c.documentFrequency[t]
    <3> DEFINE S == Holding(docs, t)
               T == Holding(all, t)
    <3>1. b.documentFrequency[t] = Cardinality(T) /\ c.documentFrequency[t] = Cardinality(S)
      BY <1>1, <1>2
    <3>2. /\ Cardinality(S) \in Nat
          /\ Cardinality(T) = Cardinality(S) + IF t \in TermSet(id.context) THEN 1 ELSE 0
      BY FrequencyAdd
    <3>3. df[t] = b.documentFrequency[t] - IF t \in TermSet(id.context) THEN 1 ELSE 0
      BY <2>1
    <3> HIDE DEF S, T, df
    <3> QED  BY <3>1, <3>2, <3>3
  <2> QED  BY <1>2, <2>2
<1>8. Without(b.termFrequency, id) = c.termFrequency
  BY <1>1, <1>2 DEF Without, Restrict
<1>9. Without(b.documentLength, id) = c.documentLength
  BY <1>1, <1>2 DEF Without, Restrict
<1>10. b.totalLength - b.documentLength[id] = c.totalLength
  <2>1. b.documentLength[id] = Len(Words[id.context]) /\ Len(Words[id.context]) \in Nat
    BY <1>1, TextAssumption DEF IsDoc
  <2> QED  BY <1>1, <1>2, <2>1, PositionsAdd
<1>11. b.documentCount - 1 = c.documentCount
  <2>1. Cardinality(docs) \in Nat /\ Cardinality(all) = Cardinality(docs) + 1
    BY AddOne, FS_CardinalityType
  <2> QED  BY <1>1, <1>2, <2>1
<1>12. Bm25Remove(b, id) = c
  BY <1>4, <1>6, <1>7, <1>8, <1>9, <1>10, <1>11
<1> QED  BY <1>12 DEF b, c

\* Putting one in, over an older posting of its own or not, counts it once.
LEMMA InsertExact ==
  ASSUME NEW docs, IsFiniteSet(docs), \A d \in docs : IsDoc(d), NEW id, IsDoc(id)
  PROVE  Bm25Insert(IndexOfDocs(docs), id, id.context) = IndexOfDocs(docs \cup {id})
<1> DEFINE rest == docs \ {id}
           all == docs \cup {id}
           c == IndexOfDocs(rest)
           a == IndexOfDocs(all)
           k == id.context
           df == [t \in Terms |-> c.documentFrequency[t] + IF t \in TermSet(k) THEN 1 ELSE 0]
<1>1. /\ IsFiniteSet(rest) /\ id \notin rest /\ all = rest \cup {id}
      /\ \A d \in rest : IsDoc(d)
  <2>1. IsFiniteSet(rest)
    BY FS_Subset
  <2> QED  BY <2>1
<1>2. Bm25Remove(IndexOfDocs(docs), id) = c
  <2>1. CASE id \in docs
    <3>1. docs = rest \cup {id}
      BY <2>1
    <3> QED  BY <1>1, <3>1, RemoveExact
  <2>2. CASE id \notin docs
    <3>1. rest = docs
      BY <2>2
    <3>2. DOMAIN IndexOfDocs(docs).termFrequency = docs
      BY DEF IndexOfDocs
    <3>3. Bm25Remove(IndexOfDocs(docs), id) = IndexOfDocs(docs)
      BY <2>2, <3>2 DEF Bm25Remove
    <3> QED  BY <3>1, <3>3
  <2> QED  BY <2>1, <2>2
<1> HIDE DEF rest, all
<1>3. /\ a.termFrequency = [d \in all |-> [t \in TermSet(d.context) |-> Count(d.context, t)]]
      /\ a.documentLength = [d \in all |-> Len(Words[d.context])]
      /\ a.documentFrequency = [t \in Terms |-> Cardinality(Holding(all, t))]
      /\ a.totalLength = Cardinality(Positions(all)) /\ a.documentCount = Cardinality(all)
  BY DEF IndexOfDocs
<1>4. /\ c.termFrequency = [d \in rest |-> [t \in TermSet(d.context) |-> Count(d.context, t)]]
      /\ c.documentLength = [d \in rest |-> Len(Words[d.context])]
      /\ c.documentFrequency = [t \in Terms |-> Cardinality(Holding(rest, t))]
      /\ c.totalLength = Cardinality(Positions(rest)) /\ c.documentCount = Cardinality(rest)
  BY DEF IndexOfDocs
<1>5. a = [documentFrequency |-> a.documentFrequency, termFrequency |-> a.termFrequency,
           documentLength |-> a.documentLength, totalLength |-> a.totalLength,
           documentCount |-> a.documentCount]
  BY DEF IndexOfDocs
<1>6. c = [documentFrequency |-> c.documentFrequency, termFrequency |-> c.termFrequency,
           documentLength |-> c.documentLength, totalLength |-> c.totalLength,
           documentCount |-> c.documentCount]
  BY DEF IndexOfDocs
<1> HIDE DEF a, c
<1>7. Bm25Insert(IndexOfDocs(docs), id, k)
        = [documentFrequency |-> df,
           termFrequency |-> With(c.termFrequency, id, [t \in TermSet(k) |-> Count(k, t)]),
           documentLength |-> With(c.documentLength, id, Len(Words[k])),
           totalLength |-> c.totalLength + Len(Words[k]),
           documentCount |-> c.documentCount + 1]
  <2> DEFINE tf == With(c.termFrequency, id, [t \in TermSet(k) |-> Count(k, t)])
             dl == With(c.documentLength, id, Len(Words[k]))
             tl == c.totalLength + Len(Words[k])
             dc == c.documentCount + 1
  <2>1. Bm25Insert(IndexOfDocs(docs), id, k)
          = [c EXCEPT !.documentFrequency = df, !.termFrequency = tf, !.documentLength = dl,
                      !.totalLength = tl, !.documentCount = dc]
    BY <1>2 DEF Bm25Insert
  <2> HIDE DEF tf, dl, tl, dc, df
  <2>2. [c EXCEPT !.documentFrequency = df, !.termFrequency = tf, !.documentLength = dl,
                  !.totalLength = tl, !.documentCount = dc]
          = [documentFrequency |-> df, termFrequency |-> tf, documentLength |-> dl,
             totalLength |-> tl, documentCount |-> dc]
    <3> DEFINE r == [c EXCEPT !.documentFrequency = df, !.termFrequency = tf,
                              !.documentLength = dl, !.totalLength = tl, !.documentCount = dc]
               D == {"documentFrequency", "termFrequency", "documentLength", "totalLength",
                     "documentCount"}
    <3>1. DOMAIN c = D
      BY <1>6
    <3>2. DOMAIN r = D /\ r = [f \in DOMAIN r |-> r[f]]
      BY <3>1
    <3>3. /\ r["documentFrequency"] = df /\ r["termFrequency"] = tf /\ r["documentLength"] = dl
          /\ r["totalLength"] = tl /\ r["documentCount"] = dc
      BY <3>1
    <3> HIDE DEF r
    <3>4. r = [documentFrequency |-> df, termFrequency |-> tf, documentLength |-> dl,
               totalLength |-> tl, documentCount |-> dc]
      BY <3>2, <3>3
    <3> QED  BY <3>4 DEF r
  <2> QED  BY <2>1, <2>2 DEF tf, dl, tl, dc, df
<1>8. df = a.documentFrequency
  <2>1. ASSUME NEW t \in Terms  PROVE df[t] = a.documentFrequency[t]
    <3>1. /\ Cardinality(Holding(rest, t)) \in Nat
          /\ Cardinality(Holding(all, t))
               = Cardinality(Holding(rest, t)) + IF t \in TermSet(k) THEN 1 ELSE 0
      BY <1>1, FrequencyAdd
    <3> QED  BY <1>3, <1>4, <3>1
  <2> QED  BY <1>3, <2>1
<1>9. With(c.termFrequency, id, [t \in TermSet(k) |-> Count(k, t)]) = a.termFrequency
  BY <1>1, <1>3, <1>4 DEF With
<1>10. With(c.documentLength, id, Len(Words[k])) = a.documentLength
  BY <1>1, <1>3, <1>4 DEF With
<1>11. c.totalLength + Len(Words[k]) = a.totalLength
  BY <1>1, <1>3, <1>4, PositionsAdd
<1>12. c.documentCount + 1 = a.documentCount
  <2>1. Cardinality(rest \cup {id}) = Cardinality(rest) + 1
    BY <1>1, AddOne
  <2> QED  BY <1>1, <1>3, <1>4, <2>1
<1>13. Bm25Insert(IndexOfDocs(docs), id, k) = a
  BY <1>5, <1>7, <1>8, <1>9, <1>10, <1>11, <1>12
<1> QED  BY <1>13 DEF a, all

StoreInv ==
  /\ cfg \in Configs
  /\ entries \subseteq Requests /\ IsFiniteSet(entries)
  /\ IndexExact

LEMMA DocsAre ==
  ASSUME NEW ids, ids \subseteq Requests, IsFiniteSet(ids)
  PROVE  IsFiniteSet(Docs(ids)) /\ \A d \in Docs(ids) : IsDoc(d)
<1>1. IsFiniteSet(Docs(ids))
  BY FS_Subset DEF Docs
<1>2. \A d \in Docs(ids) : IsDoc(d)
  BY RequestsAssumption DEF Docs, IsDoc
<1> QED  BY <1>1, <1>2

LEMMA InitStore ==
  ASSUME Init
  PROVE  StoreInv
<1>1. entries = {} /\ cfg \in Configs /\ bm25 = Bm25New
  BY DEF Init
<1>2. IsFiniteSet(entries)
  BY <1>1, EmptyCount
<1>3. Bm25New = IndexOfDocs({})
  <2>1. Positions({}) = {} /\ Cardinality(Positions({})) = 0 /\ Cardinality({}) = 0
    BY EmptyCount DEF Positions
  <2>2. [t \in Terms |-> Cardinality(Holding({}, t))] = [t \in Terms |-> 0]
    BY EmptyCount DEF Holding
  <2>3. /\ [d \in {} |-> [t \in TermSet(d.context) |-> Count(d.context, t)]] = [id \in {} |-> 0]
        /\ [d \in {} |-> Len(Words[d.context])] = [id \in {} |-> 0]
    OBVIOUS
  <2> QED  BY <2>1, <2>2, <2>3 DEF Bm25New, IndexOfDocs
<1>4. Docs(entries) = {}
  BY <1>1 DEF Docs
<1> QED  BY <1>1, <1>2, <1>3, <1>4, IndexOfIs DEF StoreInv, IndexExact

LEMMA SetStore ==
  ASSUME StoreInv, NEW r \in Requests, Set(r)
  PROVE  StoreInv'
<1>1. /\ entries' = entries \cup {r} /\ cfg' = cfg
      /\ bm25' = IF cfg.vector = "memory" THEN IndexContext(bm25, r) ELSE bm25
  BY DEF Set, Derive
<1>2. entries' \subseteq Requests /\ IsFiniteSet(entries')
  BY <1>1, FS_AddElement DEF StoreInv
<1>3. ASSUME cfg.vector = "memory"  PROVE bm25' = IndexOf(entries')
  <2> DEFINE docs == Docs(entries)
  <2>1. bm25 = IndexOfDocs(docs)
    BY <1>3, IndexOfIs DEF StoreInv, IndexExact
  <2>2. IsFiniteSet(docs) /\ \A d \in docs : IsDoc(d)
    BY DocsAre DEF StoreInv
  <2>3. CASE r.context = NoContext
    <3>1. Docs(entries') = docs
      BY <1>1, <2>3 DEF Docs
    <3> QED  BY <1>1, <1>3, <2>1, <2>3, <3>1, IndexOfIs DEF IndexContext
  <2>4. CASE r.context # NoContext
    <3>1. Docs(entries') = docs \cup {r} /\ IsDoc(r)
      BY <1>1, <2>4, RequestsAssumption DEF Docs, IsDoc
    <3>2. bm25' = Bm25Insert(bm25, r, r.context)
      BY <1>1, <1>3, <2>4 DEF IndexContext
    <3> HIDE DEF docs
    <3> QED  BY <2>1, <2>2, <3>1, <3>2, InsertExact, IndexOfIs
  <2> QED  BY <2>3, <2>4
<1> QED  BY <1>1, <1>2, <1>3 DEF StoreInv, IndexExact

LEMMA DeleteStore ==
  ASSUME StoreInv, NEW r \in Requests, Delete(r)
  PROVE  StoreInv'
<1>1. PICK hit \in FindMatch(r) :
        /\ entries' = entries \ {hit} /\ cfg' = cfg
        /\ bm25' = IF cfg.vector = "memory" THEN Bm25Remove(bm25, hit) ELSE bm25
  BY DEF Delete
<1>2. entries' \subseteq Requests /\ IsFiniteSet(entries')
  BY <1>1, FS_Subset DEF StoreInv
<1>3. ASSUME cfg.vector = "memory"  PROVE bm25' = IndexOf(entries')
  <2> DEFINE docs == Docs(entries)
             rest == docs \ {hit}
  <2>1. bm25 = IndexOfDocs(docs)
    BY <1>3, IndexOfIs DEF StoreInv, IndexExact
  <2>2. IsFiniteSet(docs) /\ \A d \in docs : IsDoc(d)
    BY DocsAre DEF StoreInv
  <2>3. Docs(entries') = rest /\ IsFiniteSet(rest) /\ \A d \in rest : IsDoc(d)
    BY <1>1, <2>2, FS_Subset DEF Docs
  <2>4. bm25' = Bm25Remove(bm25, hit)
    BY <1>1, <1>3
  <2> HIDE DEF docs
  <2>5. CASE hit \in docs
    <3>1. docs = rest \cup {hit} /\ hit \notin rest /\ IsDoc(hit)
      BY <2>2, <2>5
    <3> HIDE DEF rest
    <3>2. Bm25Remove(IndexOfDocs(rest \cup {hit}), hit) = IndexOfDocs(rest)
      BY <2>3, <3>1, RemoveExact
    <3> QED  BY <2>1, <2>3, <2>4, <3>1, <3>2, IndexOfIs
  <2>6. CASE hit \notin docs
    <3>1. rest = docs
      BY <2>6
    <3>2. DOMAIN IndexOfDocs(docs).termFrequency = docs
      BY DEF IndexOfDocs
    <3>3. Bm25Remove(IndexOfDocs(docs), hit) = IndexOfDocs(docs)
      BY <2>6, <3>2 DEF Bm25Remove
    <3> QED  BY <2>1, <2>3, <2>4, <3>1, <3>3, IndexOfIs
  <2> QED  BY <2>5, <2>6
<1> QED  BY <1>1, <1>2, <1>3 DEF StoreInv, IndexExact

LEMMA StoreStep ==
  ASSUME StoreInv, [Next]_vars
  PROVE  StoreInv'
<1>1. CASE UNCHANGED vars
  BY <1>1 DEF vars, StoreInv, IndexExact
<1>2. ASSUME NEW r \in Requests, Get(r)  PROVE StoreInv'
  BY <1>2 DEF Get, StoreInv, IndexExact
<1> QED  BY <1>1, <1>2, SetStore, DeleteStore DEF Next

\* However entries are set, overwritten and deleted, the memory store's context
\* index is the one the stored contexts would give if they were counted afresh:
\* insert takes the older posting of an id out before it counts the new one, and
\* remove undoes exactly what insert did (vector_memory.rs).
THEOREM IndexExactCorrect == Spec => []IndexExact
<1>1. Init => StoreInv
  BY InitStore
<1>2. StoreInv /\ [Next]_vars => StoreInv'
  BY StoreStep
<1>3. StoreInv => IndexExact
  BY DEF StoreInv
<1> QED  BY <1>1, <1>2, <1>3, PTL DEF Spec

-----------------------------------------------------------------------------
(* Selection *)

\* A list of n elements.
IsList(s, n) == n \in Nat /\ s = [i \in 1..n |-> s[i]]

\* The positions a loop over the candidates accepts, and their scores.
Accepted(r, hits) == {n \in DOMAIN hits : Accept(r, ExtractEntities(r, TRUE), hits[n])}
DenseOf(hits) == [n \in DOMAIN hits |-> hits[n].dense]
Better(A, d, n, m) == n \in A /\ (m = 0 \/ d[n] > d[m])

Best(g, N, A, d) ==
  g[0] = 0 /\ \A n \in 1..N : g[n] = IF Better(A, d, n, g[n - 1]) THEN n ELSE g[n - 1]

LEMMA SelectLoop ==
  ASSUME NEW r, NEW N, NEW hits, IsList(hits, N)
  PROVE  \E g \in [0..N -> 0..N] :
           /\ Best(g, N, Accepted(r, hits), DenseOf(hits))
           /\ Select(r, hits) = g[N]
<1> DEFINE V == 0..N
           A == Accepted(r, hits)
           d == DenseOf(hits)
           Turn(n, m) == IF Better(A, d, n, m) THEN n ELSE m
           step == [p \in V \X (1..N) |-> Turn(p[2], p[1])]
           Is(g) == g = [n \in 0..Len(hits) |->
                           IF n = 0 THEN 0
                           ELSE IF /\ Accept(r, ExtractEntities(r, TRUE), hits[n])
                                   /\ g[n - 1] = 0 \/ hits[n].dense > hits[g[n - 1]].dense
                                THEN n ELSE g[n - 1]]
           best == CHOOSE g : Is(g)
<1> USE DEF IsList
<1>1. Len(hits) = N /\ DOMAIN hits = 1..N
  <2>1. hits \in [1..N -> {hits[i] : i \in 1..N}]
    OBVIOUS
  <2> QED  BY <2>1
<1>2. Select(r, hits) = best[Len(hits)]
  BY DEF Select
<1>3. ASSUME NEW n \in 1..N, NEW m \in V
      PROVE  Turn(n, m) = IF /\ Accept(r, ExtractEntities(r, TRUE), hits[n])
                             /\ m = 0 \/ hits[n].dense > hits[m].dense
                          THEN n ELSE m
  <2>1. m = 0 \/ m \in 1..N
    OBVIOUS
  <2> QED  BY <1>1, <2>1 DEF Better, Accepted, DenseOf
<1> HIDE DEF A, d
<1>4. step \in Turns(V, N)
  <2>1. ASSUME NEW p \in V \X (1..N)  PROVE Turn(p[2], p[1]) \in V
    <3>1. p[1] \in 0..N /\ p[2] \in 0..N
      OBVIOUS
    <3> QED  BY <3>1
  <2> QED  BY <2>1 DEF Turns
<1>5. PICK g \in [0..N -> V] : Loop(g, N, 0, step)
  <2>1. 0 \in V
    OBVIOUS
  <2> HIDE DEF step, V
  <2> QED  BY <1>4, <2>1, LoopDefined
<1>6. ASSUME NEW n \in 1..N  PROVE g[n] = Turn(n, g[n - 1]) /\ g[n - 1] \in V
  <2>1. g[n - 1] \in V
    OBVIOUS
  <2>2. step[<<g[n - 1], n>>] = Turn(n, g[n - 1])
    BY <2>1
  <2> HIDE DEF step
  <2> QED  BY <1>5, <2>1, <2>2 DEF Loop
<1>7. Is(g)
  <2>1. \A n \in 0..N : n = 0 \/ n \in 1..N
    OBVIOUS
  <2>2. g[0] = 0
    BY <1>5 DEF Loop
  <2> HIDE DEF Turn
  <2>3. ASSUME NEW n \in 1..N
        PROVE  g[n] = IF /\ Accept(r, ExtractEntities(r, TRUE), hits[n])
                         /\ g[n - 1] = 0 \/ hits[n].dense > hits[g[n - 1]].dense
                      THEN n ELSE g[n - 1]
    BY <1>3, <1>6
  <2> QED  BY <1>1, <2>1, <2>2, <2>3
<1>8. Is(best)
  <2> HIDE DEF Is
  <2> QED  BY <1>7
<1> HIDE DEF best
<1>9. best[0] = 0 /\ best = [n \in 0..N |-> best[n]]
  BY <1>1, <1>8
<1>10. ASSUME NEW n \in 1..N, best[n - 1] \in V  PROVE best[n] = Turn(n, best[n - 1])
  <2>1. n \in 0..N /\ n # 0
    OBVIOUS
  <2> HIDE DEF Turn
  <2>2. best[n] = IF /\ Accept(r, ExtractEntities(r, TRUE), hits[n])
                     /\ best[n - 1] = 0 \/ hits[n].dense > hits[best[n - 1]].dense
                  THEN n ELSE best[n - 1]
    BY <1>1, <1>8, <2>1
  <2> QED  BY <1>3, <1>10, <2>2
<1>11. \A n \in 0..N : best[n] \in V
  <2> DEFINE P == {n \in 0..N : best[n] \in V}
  <2>1. 0 \in P
    BY <1>9
  <2>2. ASSUME NEW n \in 1..N, n - 1 \in P  PROVE n \in P
    <3>1. best[n - 1] \in V /\ n \in V
      BY <2>2
    <3>2. best[n] = Turn(n, best[n - 1])
      BY <1>10, <3>1
    <3> QED  BY <3>1, <3>2
  <2>3. P = 0..N
    <3>1. P \subseteq 0..N  OBVIOUS
    <3> HIDE DEF P
    <3> QED  BY <2>1, <2>2, <3>1, UpTo
  <2> QED  BY <2>3
<1>12. best \in [0..N -> 0..N]
  BY <1>9, <1>11
<1>13. \A n \in 1..N : best[n] = Turn(n, best[n - 1])
  BY <1>10, <1>11
<1> QED  BY <1>1, <1>2, <1>9, <1>12, <1>13 DEF A, d, Best

\* The loop keeps the first of the best it has accepted.
LEMMA BestOfLoop ==
  ASSUME NEW N \in Nat, NEW A \in SUBSET (1..N), NEW d \in [1..N -> Int], NEW g \in [0..N -> 0..N],
         Best(g, N, A, d)
  PROVE  /\ g[N] # 0 => g[N] \in A
         /\ \A i \in A : g[N] # 0 /\ d[g[N]] >= d[i]
<1> DEFINE Good(k, n) == /\ k # 0 => k \in A
                         /\ \A i \in A : i <= n => k # 0 /\ d[k] >= d[i]
           P == {n \in 0..N : Good(g[n], n)}
<1>1. 0 \in P
  BY DEF Best
<1>2. ASSUME NEW n \in 1..N, n - 1 \in P  PROVE n \in P
  <2> DEFINE m == g[n - 1]
  <2>1. n \in 0..N /\ n - 1 \in 0..N /\ m \in 0..N
    OBVIOUS
  <2>2. Good(m, n - 1)
    BY <1>2
  <2>3. g[n] = IF Better(A, d, n, m) THEN n ELSE m
    BY DEF Best
  <2> HIDE DEF m
  <2>4. \A i \in A : i \in Nat /\ (i <= n => i = n \/ i <= n - 1) /\ d[i] \in Int
    OBVIOUS
  <2>5. m # 0 => m \in A
    BY <2>2
  <2>6. CASE Better(A, d, n, m)
    <3>1. g[n] = n /\ n \in A /\ (m = 0 \/ d[n] > d[m])
      BY <2>3, <2>6 DEF Better
    <3>2. ASSUME NEW i \in A, i <= n  PROVE d[n] >= d[i]
      <4>1. d[i] \in Int /\ d[n] \in Int /\ (i = n \/ i <= n - 1)
        BY <2>4, <3>1, <3>2
      <4>2. CASE i <= n - 1
        <5>1. m # 0 /\ d[m] >= d[i] /\ m \in A
          BY <2>2, <2>5, <4>2
        <5>2. d[m] \in Int /\ d[n] > d[m]
          BY <2>4, <3>1, <5>1
        <5> QED  BY <4>1, <5>1, <5>2
      <4> QED  BY <4>1, <4>2
    <3> QED  BY <2>1, <2>5, <3>1, <3>2
  <2>7. CASE ~Better(A, d, n, m)
    <3>1. g[n] = m /\ (n \in A => m # 0 /\ ~(d[n] > d[m]))
      BY <2>3, <2>7 DEF Better
    <3>2. ASSUME NEW i \in A, i <= n  PROVE m # 0 /\ d[m] >= d[i]
      <4>1. CASE i = n
        <5>1. m # 0 /\ ~(d[n] > d[m]) /\ n \in A
          BY <3>1, <4>1
        <5>2. d[m] \in Int /\ d[n] \in Int
          BY <2>4, <2>5, <5>1
        <5> QED  BY <4>1, <5>1, <5>2
      <4>2. CASE i <= n - 1
        BY <2>2, <4>2
      <4>3. i = n \/ i <= n - 1
        BY <2>4, <3>2
      <4> QED  BY <4>1, <4>2, <4>3
    <3> QED  BY <2>1, <2>5, <3>1, <3>2
  <2> QED  BY <2>6, <2>7
<1>3. P = 0..N
  <2>1. P \subseteq 0..N  OBVIOUS
  <2> HIDE DEF P
  <2> QED  BY <1>1, <1>2, <2>1, UpTo
<1>4. Good(g[N], N)
  <2>1. N \in P
    <3> HIDE DEF P
    <3> QED  BY <1>3
  <2> QED  BY <2>1
<1>5. \A i \in A : i <= N
  OBVIOUS
<1> QED  BY <1>4, <1>5

\* What select returns: an accepted candidate none of the accepted ones is
\* denser than, or nothing when none is accepted.
LEMMA SelectIs ==
  ASSUME NEW r, NEW N, NEW hits, IsList(hits, N),
         \A i \in 1..N : hits[i].dense \in Int
  PROVE  LET k == Select(r, hits)
         IN /\ k \in 0..N
            /\ k # 0 => k \in Accepted(r, hits)
            /\ \A i \in Accepted(r, hits) : k # 0 /\ hits[k].dense >= hits[i].dense
<1> DEFINE A == Accepted(r, hits)
           d == DenseOf(hits)
<1>1. A \in SUBSET (1..N) /\ d \in [1..N -> Int]
  BY DEF Accepted, DenseOf, IsList
<1>2. PICK g \in [0..N -> 0..N] :
         Best(g, N, A, d) /\ Select(r, hits) = g[N]
  BY SelectLoop
<1> HIDE DEF A, d
<1>3. /\ g[N] # 0 => g[N] \in A
      /\ \A i \in A : g[N] # 0 /\ d[g[N]] >= d[i]
  <2>1. N \in Nat
    BY DEF IsList
  <2> QED  BY <1>1, <1>2, <2>1, BestOfLoop
<1>4. \A i \in 1..N : d[i] = hits[i].dense
  BY DEF d, DenseOf, IsList
<1>5. N \in Nat /\ g[N] \in 0..N
  BY DEF IsList
<1> QED  BY <1>1, <1>2, <1>3, <1>4, <1>5 DEF A

-----------------------------------------------------------------------------
(* Ranking *)

\* The others of a set that score at least as well.
AsGood(ids, score, c) == {o \in ids \ {c} : score[o] >= score[c]}

\* Scores that fall from each to the next are all at least the last.
LEMMA Falling ==
  ASSUME NEW n \in Nat \ {0}, NEW v \in [1..n -> Int], \A i \in 1..n-1 : v[i] >= v[i+1]
  PROVE  \A i \in 1..n : v[i] >= v[n]
<1> DEFINE P == {m \in 0..(n - 1) : v[n - m] >= v[n]}
<1>1. 0 \in P
  <2>1. 0 \in 0..(n - 1) /\ n - 0 = n /\ v[n] \in Int
    OBVIOUS
  <2> QED  BY <2>1
<1>2. ASSUME NEW m \in 1..(n - 1), m - 1 \in P  PROVE m \in P
  <2> DEFINE i == n - m
  <2>1. m \in 0..(n - 1) /\ i \in 1..n-1 /\ i \in 1..n /\ i + 1 \in 1..n /\ n - (m - 1) = i + 1
    OBVIOUS
  <2>2. v[i + 1] >= v[n]
    BY <1>2, <2>1
  <2>3. v[i] >= v[i + 1] /\ v[i] \in Int /\ v[i + 1] \in Int /\ v[n] \in Int
    BY <2>1
  <2>4. v[i] >= v[n]
    BY <2>2, <2>3
  <2> QED  BY <2>1, <2>4
<1>3. P = 0..(n - 1)
  <2>1. P \subseteq 0..(n - 1) /\ n - 1 \in Nat
    OBVIOUS
  <2> HIDE DEF P
  <2> DEFINE k == n - 1
  <2>2. \A m \in 1..k : m - 1 \in P => m \in P
    BY <1>2
  <2>3. k \in Nat /\ P \subseteq 0..k
    BY <2>1
  <2> HIDE DEF k
  <2>4. P = 0..k
    BY <1>1, <2>2, <2>3, UpTo
  <2> QED  BY <2>4 DEF k
<1>4. ASSUME NEW i \in 1..n  PROVE v[i] >= v[n]
  <2>1. n - i \in 0..(n - 1) /\ n - (n - i) = i
    OBVIOUS
  <2>2. n - i \in P
    <3> HIDE DEF P
    <3> QED  BY <1>3, <2>1
  <2> QED  BY <2>1, <2>2
<1> QED  BY <1>4

\* A ranked list has elements of the set; one it leaves out has k others at
\* least as good.
LEMMA RankedIs ==
  ASSUME NEW ids, IsFiniteSet(ids), NEW score, \A id \in ids : score[id] \in Int,
         NEW k \in Nat \ {0}, NEW s, s \in Ranked(ids, score, k)
  PROVE  /\ \E n : IsList(s, n)
         /\ Range(s) \subseteq ids
         /\ \A c \in ids \ Range(s) : Cardinality(AsGood(ids, score, c)) >= k
<1> DEFINE n == IF Cardinality(ids) < k THEN Cardinality(ids) ELSE k
<1>1. Cardinality(ids) \in Nat
  BY FS_CardinalityType
<1>2. /\ s \in [1..n -> ids] /\ IsInjective(s)
      /\ \A i \in 1..n-1 : score[s[i]] >= score[s[i+1]]
      /\ \A c \in ids \ Range(s) : score[c] <= score[s[n]]
  BY DEF Ranked
<1>3. n \in Nat /\ n <= k /\ (n # k => n = Cardinality(ids))
  BY <1>1
<1> HIDE DEF n
<1>4. IsList(s, n) /\ Range(s) \subseteq ids
  BY <1>2, <1>3 DEF IsList, Range
<1>5. IsFiniteSet(Range(s)) /\ Cardinality(Range(s)) = n
  <2>1. IsFiniteSet(1..n) /\ Cardinality(1..n) = n
    BY <1>3, FS_Interval
  <2> DEFINE D == 1..n
             T == Range(s)
  <2>2. s \in Surjection(D, T) /\ s \in Injection(D, T)
    BY <1>2 DEF Surjection, Injection, Range, IsInjective
  <2> HIDE DEF D, T
  <2>3. IsFiniteSet(T) /\ Cardinality(T) = Cardinality(D)
    BY <2>1, <2>2, FS_Surjection DEF D
  <2> QED  BY <2>1, <2>3 DEF D, T
<1>6. ASSUME NEW c \in ids \ Range(s)  PROVE Cardinality(AsGood(ids, score, c)) >= k
  <2>1. n = k
    <3>1. SUFFICES ASSUME n = Cardinality(ids)  PROVE FALSE
      BY <1>3
    <3>2. ids = Range(s)
      BY <1>4, <1>5, <3>1, FS_Subset
    <3> QED  BY <1>6, <3>2
  <2> DEFINE v == [i \in 1..n |-> score[s[i]]]
  <2>2. v \in [1..n -> Int] /\ \A i \in 1..n-1 : v[i] >= v[i+1]
    <3>1. v \in [1..n -> Int]
      BY <1>2
    <3>2. ASSUME NEW i \in 1..n-1  PROVE v[i] >= v[i+1]
      <4>1. i \in 1..n /\ i + 1 \in 1..n
        BY <1>3
      <4> QED  BY <1>2, <4>1
    <3> QED  BY <3>1, <3>2
  <2>3. \A i \in 1..n : v[i] >= v[n]
    <3>1. n \in Nat \ {0}
      BY <2>1
    <3> HIDE DEF v
    <3> QED  BY <2>2, <3>1, Falling
  <2>4. Range(s) \subseteq AsGood(ids, score, c)
    <3>1. SUFFICES ASSUME NEW i \in 1..n  PROVE s[i] \in AsGood(ids, score, c)
      BY <1>2 DEF Range
    <3>2. s[i] \in ids /\ s[i] # c
      BY <1>2, <1>6 DEF Range
    <3>3. n \in 1..n
      BY <1>3, <2>1
    <3>4. score[s[i]] >= score[s[n]]
      BY <2>3, <3>3
    <3>5. score[c] <= score[s[n]]
      BY <1>2, <1>6
    <3>6. score[c] \in Int /\ score[s[i]] \in Int /\ score[s[n]] \in Int
      BY <1>2, <1>6, <3>2, <3>3
    <3> QED  BY <3>2, <3>4, <3>5, <3>6 DEF AsGood
  <2>5. IsFiniteSet(AsGood(ids, score, c))
    BY FS_Subset DEF AsGood
  <2> DEFINE G == AsGood(ids, score, c)
             T == Range(s)
  <2> HIDE DEF G, T
  <2>6. Cardinality(T) <= Cardinality(G) /\ Cardinality(G) \in Nat
    BY <2>4, <2>5, FS_Subset, FS_CardinalityType DEF G, T
  <2> QED  BY <1>5, <2>1, <2>6 DEF G, T
<1> QED  BY <1>4, <1>6

-----------------------------------------------------------------------------
(* Entities and filters *)

LEMMA NormalizedFinite ==
  ASSUME NEW spans, NEW kept, IsFiniteSet(kept)
  PROVE  IsFiniteSet(Normalized(spans, kept))
<1> DEFINE all == {Norm[spans[i].text] : i \in kept}
           f == [i \in kept |-> Norm[spans[i].text]]
<1>1. f \in Surjection(kept, all)
  BY DEF Surjection
<1>2. IsFiniteSet(all)
  <2> HIDE DEF f, all
  <2> QED  BY <1>1, FS_Surjection
<1> QED  BY <1>2, FS_Subset DEF Normalized

LEMMA ExtractFinite ==
  ASSUME NEW text \in DOMAIN Spans, NEW fast
  PROVE  IsFiniteSet(Extract(text, fast))
<1>1. IsFiniteSet(DOMAIN Spans[text])
  BY TextAssumption
<1>2. IsFiniteSet({i \in DOMAIN Spans[text] : fast => i <= FastM})
  BY <1>1, FS_Subset
<1>3. IsFiniteSet(KeywordExtract(text, fast))
  BY <1>2, NormalizedFinite DEF KeywordExtract
<1>4. \A cutoff : IsFiniteSet(EntitiesFromSpans(Spans[text], cutoff))
  <2> SUFFICES ASSUME NEW cutoff  PROVE IsFiniteSet(EntitiesFromSpans(Spans[text], cutoff))
    OBVIOUS
  <2>1. IsFiniteSet({i \in DOMAIN Spans[text] : Spans[text][i].score >= cutoff})
    BY <1>1, FS_Subset
  <2> QED  BY <2>1, NormalizedFinite DEF EntitiesFromSpans
<1>5. IsFiniteSet(GlinerExtract(text, fast))
  BY <1>4 DEF GlinerExtract
<1> QED  BY <1>3, <1>5 DEF Extract

LEMMA EntitiesFinite ==
  ASSUME NEW r \in Requests, NEW fast
  PROVE  IsFiniteSet(ExtractEntities(r, fast))
<1>1. r.query \in DOMAIN Spans /\ (r.context # NoContext => r.context \in DOMAIN Spans)
  BY RequestsAssumption
<1> QED  BY <1>1, ExtractFinite DEF ExtractEntities

\* max(1, n div 3) of n entities, as accept has it and as Admissible has it.
LEMMA EntityGate ==
  ASSUME NEW n \in Nat, NEW s \in Nat
  PROVE  (s >= IF n \div 3 > 1 THEN n \div 3 ELSE 1) <=> (s >= 1 /\ 3 * s >= n - 2)
OBVIOUS

\* The part of accept and of Admissible that looks at the entities.
EntitiesMatch(E, F) ==
  LET n == Cardinality(E)
  IN n > 0 => Cardinality(E \cap F) >= IF n \div 3 > 1 THEN n \div 3 ELSE 1

LEMMA EntitiesMatchIs ==
  ASSUME NEW E, IsFiniteSet(E), NEW F
  PROVE  /\ EntitiesMatch(E, F) <=>
              \/ E = {}
              \/ Cardinality(E \cap F) >= 1 /\ 3 * Cardinality(E \cap F) >= Cardinality(E) - 2
         /\ Cardinality(E \cap F) >= 1 => E \cap F # {}
<1> DEFINE n == Cardinality(E)
           s == Cardinality(E \cap F)
<1>1. IsFiniteSet(E \cap F)
  BY FS_Subset
<1>2. n \in Nat /\ s \in Nat
  BY <1>1, FS_CardinalityType
<1>3. (n = 0 <=> E = {}) /\ (E \cap F = {} => s = 0)
  BY FS_EmptySet
<1>4. EntitiesMatch(E, F) <=> (n > 0 => (s >= IF n \div 3 > 1 THEN n \div 3 ELSE 1))
  BY DEF EntitiesMatch
<1> HIDE DEF n, s
<1>5. (s >= IF n \div 3 > 1 THEN n \div 3 ELSE 1) <=> (s >= 1 /\ 3 * s >= n - 2)
  BY <1>2, EntityGate
<1>6. EntitiesMatch(E, F) <=> (E = {} \/ (s >= 1 /\ 3 * s >= n - 2))
  BY <1>2, <1>3, <1>4, <1>5
<1>7. s >= 1 => E \cap F # {}
  BY <1>2, <1>3
<1> QED  BY <1>6, <1>7 DEF n, s

\* turbopuffer's clauses say what the filter says.
LEMMA FilterIs ==
  ASSUME NEW r, NEW id
  PROVE  TpMatches(FilterToTp(Filter(r)), id) <=> Passes(Filter(r), id)
<1> DEFINE f == Filter(r)
           K == [op |-> "And", conds |-> f.keysAll]
           L == [op |-> "Or", conds |-> f.entitiesAny]
           Holds(c) == IF c.op = "And" THEN c.conds \subseteq id.keys
                       ELSE c.conds \cap EntryEntities(id) # {}
<1>1. /\ Holds(K) <=> f.keysAll \subseteq id.keys
      /\ Holds(L) <=> f.entitiesAny \cap EntryEntities(id) # {}
  <2> HIDE DEF f
  <2> QED  OBVIOUS
<1>2. TpMatches(FilterToTp(f), id) <=> \A c \in FilterToTp(f) : Holds(c)
  BY DEF TpMatches
<1>3. FilterToTp(f) = (IF f.keysAll = {} THEN {} ELSE {K})
                        \cup IF f.entitiesAny = {} THEN {} ELSE {L}
  BY DEF FilterToTp
<1> HIDE DEF f, K, L, Holds
<1>4. TpMatches(FilterToTp(f), id)
        <=> (f.keysAll # {} => Holds(K)) /\ (f.entitiesAny # {} => Holds(L))
  BY <1>2, <1>3
<1>5. f.keysAll = {} => f.keysAll \subseteq id.keys
  OBVIOUS
<1>6. Passes(f, id) <=> /\ f.keysAll \subseteq id.keys
                        /\ f.entitiesAny = {} \/ f.entitiesAny \cap EntryEntities(id) # {}
  BY DEF Passes
<1>7. TpMatches(FilterToTp(f), id) <=> Passes(f, id)
  BY <1>1, <1>4, <1>5, <1>6
<1> QED  BY <1>7 DEF f

-----------------------------------------------------------------------------
(* Fusion of the two legs *)

FusedRow(r, ann, text, id) ==
  [id |-> id,
   dense  |-> IF id \in Range(ann) THEN Dense[r.query][id.query] ELSE 0,
   sparse |-> IF id \in Range(text) THEN SquashBm25(TpBm25(r, id)) ELSE 0]

\* The lists a fusion goes through: of rows, with every row of the dense leg.
Fusions(ids, ann) == {q \in Seq(ids) : Range(ann) \subseteq Range(q)}

LEMMA AppendFusion ==
  ASSUME NEW ids, NEW ann, NEW q \in Fusions(ids, ann), NEW x \in ids
  PROVE  Append(q, x) \in Fusions(ids, ann)
<1>1. q \in Seq(ids) /\ Range(ann) \subseteq Range(q)
  BY DEF Fusions
<1>2. Append(q, x) \in Seq(ids) /\ Len(Append(q, x)) = Len(q) + 1 /\ Len(q) \in Nat
  BY <1>1
<1>3. \A i \in 1..Len(q) : Append(q, x)[i] = q[i]
  BY <1>1
<1>4. DOMAIN q = 1..Len(q) /\ DOMAIN Append(q, x) = 1..(Len(q) + 1)
  BY <1>1, <1>2
<1>5. ASSUME NEW y \in Range(q)  PROVE y \in Range(Append(q, x))
  <2>1. PICK i \in 1..Len(q) : q[i] = y
    BY <1>4 DEF Range
  <2>2. i \in 1..(Len(q) + 1) /\ Append(q, x)[i] = y
    BY <1>2, <1>3, <2>1
  <2> QED  BY <1>4, <2>2 DEF Range
<1> QED  BY <1>1, <1>2, <1>5 DEF Fusions

LEMMA FuseIs ==
  ASSUME NEW r, NEW ids, NEW ann, NEW a, IsList(ann, a), NEW text, NEW N, IsList(text, N),
         Range(ann) \subseteq ids, Range(text) \subseteq ids
  PROVE  \E q \in Fusions(ids, ann) :
           FuseMultiQuery(r, ann, text) = [i \in DOMAIN q |-> FusedRow(r, ann, text, q[i])]
<1> DEFINE V == Fusions(ids, ann)
           Turn(n, q) == IF text[n] \in Range(ann) THEN q ELSE Append(q, text[n])
           step == [p \in V \X (1..N) |-> Turn(p[2], p[1])]
           Is(g) == g = [n \in 0..Len(text) |->
                           IF n = 0 THEN ann
                           ELSE IF text[n] \in Range(ann) THEN g[n - 1]
                                ELSE Append(g[n - 1], text[n])]
           order == CHOOSE g : Is(g)
<1>1. Len(text) = N /\ N \in Nat /\ DOMAIN text = 1..N
  <2>1. text \in [1..N -> {text[i] : i \in 1..N}] /\ N \in Nat
    BY DEF IsList
  <2> QED  BY <2>1
<1>2. FuseMultiQuery(r, ann, text)
        = [i \in DOMAIN order[Len(text)] |-> FusedRow(r, ann, text, order[Len(text)][i])]
  BY DEF FuseMultiQuery, FusedRow
<1>3. ann \in V
  <2>1. ann \in [1..a -> ids] /\ a \in Nat
    BY DEF IsList, Range
  <2>2. ann \in Seq(ids)
    BY <2>1
  <2> QED  BY <2>2 DEF Fusions
<1>4. \A n \in 1..N, q \in V : Turn(n, q) \in V
  <2>1. \A n \in 1..N : text[n] \in ids
    BY <1>1 DEF Range
  <2> QED  BY <2>1, AppendFusion
<1> HIDE DEF V
<1>5. step \in Turns(V, N)
  <2>1. ASSUME NEW p \in V \X (1..N)  PROVE Turn(p[2], p[1]) \in V
    <3>1. p[1] \in V /\ p[2] \in 1..N
      OBVIOUS
    <3> HIDE DEF Turn
    <3> QED  BY <1>4, <3>1
  <2> HIDE DEF Turn
  <2> QED  BY <2>1 DEF Turns
<1>6. PICK g \in [0..N -> V] : Loop(g, N, ann, step)
  <2> HIDE DEF step
  <2> QED  BY <1>1, <1>3, <1>5, LoopDefined
<1>7. ASSUME NEW n \in 1..N  PROVE g[n] = Turn(n, g[n - 1])
  <2>1. g[n - 1] \in V
    BY <1>1
  <2>2. step[<<g[n - 1], n>>] = Turn(n, g[n - 1])
    <3>1. <<g[n - 1], n>> \in V \X (1..N)
      BY <2>1
    <3> HIDE DEF Turn
    <3> QED  BY <3>1
  <2> HIDE DEF step, Turn
  <2> QED  BY <1>6, <2>2 DEF Loop
<1>8. Is(g)
  <2>1. \A n \in 0..N : n = 0 \/ n \in 1..N
    BY <1>1
  <2>2. g[0] = ann
    BY <1>6 DEF Loop
  <2> QED  BY <1>1, <1>7, <2>1, <2>2
<1>9. Is(order)
  <2> HIDE DEF Is
  <2> QED  BY <1>8
<1> HIDE DEF order
<1>10. order[0] = ann /\ \A n \in 1..N : order[n] = Turn(n, order[n - 1])
  <2>1. 0 \in 0..N /\ \A n \in 1..N : n \in 0..N /\ n # 0
    BY <1>1
  <2> QED  BY <1>1, <1>9, <2>1
<1> HIDE DEF Turn
<1>11. order[N] \in V
  <2> DEFINE P == {n \in 0..N : order[n] \in V}
  <2>1. 0 \in P
    BY <1>1, <1>3, <1>10
  <2>2. ASSUME NEW n \in 1..N, n - 1 \in P  PROVE n \in P
    <3>1. order[n - 1] \in V /\ n \in 0..N
      BY <1>1, <2>2
    <3>2. order[n] \in V
      BY <1>4, <1>10, <3>1
    <3> QED  BY <3>1, <3>2
  <2>3. P = 0..N
    <3>1. P \subseteq 0..N  OBVIOUS
    <3> HIDE DEF P
    <3> QED  BY <1>1, <2>1, <2>2, <3>1, UpTo
  <2>4. N \in P
    <3> HIDE DEF P
    <3> QED  BY <1>1, <2>3
  <2> QED  BY <2>4
<1> QED  BY <1>1, <1>2, <1>11 DEF V

-----------------------------------------------------------------------------
(* What a search returns: the memory store *)

Cosine(r, id) == Dense[r.query][id.query]

Candidates(r) == {id \in entries : Passes(Filter(r), id)}

\* What a candidate says of its entry is true, but for a component that is 0
\* because the row was in one leg of turbopuffer's search only.
Faithful(r, hit) ==
  /\ hit.id \in Candidates(r) /\ hit.dense \in Int
  /\ hit.dense = Cosine(r, hit.id) \/ (cfg.vector = "turbopuffer" /\ hit.dense = 0)
  /\ Gated(r) => \/ hit.sparse = ContextMatch(r, hit.id)
                 \/ hit.sparse = 0 /\ ContextMatch(r, hit.id) \in Nat

\* A candidate that is the entry with its true scores.
Exact(r, hit, id) ==
  /\ hit.id = id /\ hit.dense = Cosine(r, id)
  /\ Gated(r) => hit.sparse = ContextMatch(r, id)

\* What a search returns: only such candidates, and every one it did not cut.
Sought(r, hits) ==
  /\ \E n : IsList(hits, n)
  /\ \A i \in DOMAIN hits : Faithful(r, hits[i])
  /\ \A id \in Candidates(r) :
       \/ \E i \in DOMAIN hits : Exact(r, hits[i], id)
       \/ DenseCrowded(r, id)
       \/ Gated(r) /\ TextCrowded(r, id)

LEMMA CosineType ==
  ASSUME NEW r \in Requests, NEW id \in Requests
  PROVE  Cosine(r, id) \in Int
BY RequestsAssumption, DenseAssumption DEF Cosine

LEMMA CandidatesAre ==
  ASSUME StoreInv, NEW r \in Requests
  PROVE  /\ Candidates(r) \subseteq Requests /\ IsFiniteSet(Candidates(r))
         /\ cfg \in Configs /\ cfg.topK \in Nat \ {0}
         /\ \A id \in Candidates(r) : DenseTo(r, Candidates(r))[id] \in Int
<1>1. Candidates(r) \subseteq entries
  BY DEF Candidates
<1>2. IsFiniteSet(Candidates(r))
  BY <1>1, FS_Subset DEF StoreInv
<1>3. cfg \in Configs /\ cfg.topK \in Nat \ {0}
  BY ConfigAssumption DEF StoreInv
<1> QED  BY <1>1, <1>2, <1>3, CosineType DEF StoreInv, DenseTo, Cosine

\* An entry the dense leg leaves out is crowded out.
LEMMA DenseCut ==
  ASSUME StoreInv, NEW r \in Requests, NEW id \in Candidates(r),
         NEW s, s \in Ranked(Candidates(r), DenseTo(r, Candidates(r)), cfg.topK),
         id \notin Range(s)
  PROVE  DenseCrowded(r, id)
<1> DEFINE ids == Candidates(r)
           score == DenseTo(r, Candidates(r))
<1>1. Cardinality(AsGood(ids, score, id)) >= cfg.topK
  <2>1. /\ IsFiniteSet(ids) /\ \A c \in ids : score[c] \in Int
        /\ cfg.topK \in Nat \ {0} /\ s \in Ranked(ids, score, cfg.topK)
        /\ id \in ids \ Range(s)
    BY CandidatesAre
  <2> HIDE DEF ids, score
  <2> QED  BY <2>1, RankedIs
<1>2. AsGood(ids, score, id)
        = {o \in Rivals(r, id) : Dense[r.query][o.query] >= Dense[r.query][id.query]}
  BY DEF AsGood, Rivals, Candidates, DenseTo
<1> QED  BY <1>1, <1>2 DEF DenseCrowded

MemoryHit(r, id) ==
  [id |-> id, dense |-> Dense[r.query][id.query],
   sparse |-> IF r.context = NoContext THEN 0 ELSE Bm25Score(bm25, id, TermSet(r.context))]

\* The memory store's candidates have their true scores.
LEMMA MemorySought ==
  ASSUME StoreInv, NEW r \in Requests, cfg.vector = "memory", NEW hits \in MemoryQuery(r)
  PROVE  Sought(r, hits)
<1> DEFINE ids == Candidates(r)
           score == DenseTo(r, ids)
<1>1. PICK s \in Ranked(ids, score, cfg.topK) : hits = [i \in DOMAIN s |-> MemoryHit(r, s[i])]
  BY DEF MemoryQuery, Candidates, MemoryHit
<1>2. /\ IsFiniteSet(ids) /\ \A c \in ids : score[c] \in Int
      /\ cfg.topK \in Nat \ {0} /\ ids \subseteq Requests
  BY CandidatesAre
<1>3. (\E n : IsList(s, n)) /\ Range(s) \subseteq ids
  <2> HIDE DEF ids, score
  <2> QED  BY <1>1, <1>2, RankedIs
<1>4. \A id \in ids : Exact(r, MemoryHit(r, id), id)
  <2>1. bm25 = IndexOf(entries)
    BY DEF StoreInv, IndexExact
  <2>2. \A id : ContextMatch(r, id) = IF r.context = NoContext THEN 0
                                      ELSE Bm25Score(bm25, id, TermSet(r.context))
    BY <2>1 DEF ContextMatch
  <2> QED  BY <2>2 DEF Exact, MemoryHit, Cosine
<1>5. \A i \in DOMAIN s : s[i] \in ids /\ hits[i] = MemoryHit(r, s[i])
  BY <1>1, <1>3 DEF Range
<1>6. \E n : IsList(hits, n)
  <2>1. PICK n : IsList(s, n)
    BY <1>3
  <2>2. IsList(hits, n)
    BY <1>1, <2>1 DEF IsList
  <2> QED  BY <2>2
<1>7. DOMAIN hits = DOMAIN s
  BY <1>1
<1>8. ASSUME NEW i \in DOMAIN hits  PROVE Faithful(r, hits[i])
  <2>1. s[i] \in ids /\ Exact(r, hits[i], s[i])
    BY <1>4, <1>5, <1>7
  <2>2. Cosine(r, s[i]) \in Int
    BY <1>2, <2>1, CosineType
  <2> QED  BY <2>1, <2>2 DEF Exact, Faithful
<1>9. ASSUME NEW id \in ids
      PROVE  (\E i \in DOMAIN hits : Exact(r, hits[i], id)) \/ DenseCrowded(r, id)
  <2>1. CASE id \in Range(s)
    <3>1. PICK i \in DOMAIN s : s[i] = id
      BY <2>1 DEF Range
    <3> QED  BY <1>4, <1>5, <1>7, <3>1
  <2>2. CASE id \notin Range(s)
    BY <1>1, <2>2, DenseCut
  <2> QED  BY <2>1, <2>2
<1> QED  BY <1>6, <1>8, <1>9 DEF Sought

-----------------------------------------------------------------------------
(* What a search returns: turbopuffer *)

LEMMA SquashType ==
  /\ \A s \in Nat : SquashBm25(s) \in Nat
  /\ SquashBm25(0) = 0
<1>1. ASSUME NEW s \in Nat  PROVE (100 * s) \div (s + 500) \in Nat
  <2> DEFINE x == 100 * s
             y == s + 500
  <2>1. x \in Nat /\ y \in Nat \ {0}
    OBVIOUS
  <2> HIDE DEF x, y
  <2>2. x \div y \in Nat
    BY <2>1
  <2> QED  BY <2>2 DEF x, y
<1>2. (100 * 0) \div (0 + 500) = 0
  OBVIOUS
<1> QED  BY <1>1, <1>2 DEF SquashBm25

LEMMA TpBm25Type ==
  ASSUME StoreInv, NEW r \in Requests, NEW id \in entries
  PROVE  TpBm25(r, id) \in Nat
<1>1. CASE r.context = NoContext \/ id.context = NoContext
  BY <1>1 DEF TpBm25
<1>2. CASE ~(r.context = NoContext \/ id.context = NoContext)
  <2>1. r.context \in Contexts /\ entries \in SUBSET Requests
    BY <1>2, RequestsAssumption DEF StoreInv
  <2>2. TpScore(entries, r.context, id) \in Nat
    BY <1>2, <2>1, TpAssumption
  <2> QED  BY <1>2, <2>2 DEF TpBm25
<1> QED  BY <1>1, <1>2

Matching(r) == {id \in Candidates(r) : TpBm25(r, id) > 0}
TextScore(r) == [id \in Matching(r) |-> TpBm25(r, id)]

\* A row the text leg leaves out is crowded out of it.
LEMMA TextCut ==
  ASSUME StoreInv, NEW r \in Requests, cfg.vector = "turbopuffer", NEW id \in Matching(r),
         NEW t, t \in Ranked(Matching(r), TextScore(r), cfg.topK), id \notin Range(t)
  PROVE  TextCrowded(r, id)
<1> DEFINE ids == Matching(r)
           score == TextScore(r)
           rivals == {o \in Rivals(r, id) : TpBm25(r, o) >= TpBm25(r, id)}
<1>1. /\ IsFiniteSet(ids) /\ \A c \in ids : score[c] \in Int
      /\ cfg.topK \in Nat \ {0}
  <2>1. IsFiniteSet(ids)
    BY CandidatesAre, FS_Subset DEF Matching
  <2>2. \A c \in ids : score[c] \in Int
    BY TpBm25Type DEF Matching, TextScore, Candidates
  <2> QED  BY <2>1, <2>2, CandidatesAre
<1>2. Cardinality(AsGood(ids, score, id)) >= cfg.topK
  <2> HIDE DEF ids, score
  <2>1. id \in ids \ Range(t) /\ t \in Ranked(ids, score, cfg.topK)
    BY DEF ids, score
  <2> QED  BY <1>1, <2>1, RankedIs
<1>3. AsGood(ids, score, id) \subseteq rivals
  BY DEF AsGood, Matching, TextScore, Rivals, Candidates
<1>4. IsFiniteSet(rivals)
  <2>1. rivals \subseteq Candidates(r)
    BY DEF Rivals, Candidates
  <2> QED  BY <2>1, CandidatesAre, FS_Subset
<1>5. Cardinality(rivals) >= cfg.topK
  <2> DEFINE G == AsGood(ids, score, id)
  <2>1. G \subseteq rivals /\ Cardinality(G) >= cfg.topK
    BY <1>2, <1>3
  <2> HIDE DEF G, rivals
  <2>2. Cardinality(G) <= Cardinality(rivals) /\ Cardinality(rivals) \in Nat
    BY <1>4, <2>1, FS_Subset, FS_CardinalityType
  <2>3. Cardinality(G) \in Nat
    BY <1>4, <2>1, FS_Subset, FS_CardinalityType
  <2> QED  BY <1>1, <2>1, <2>2, <2>3
<1> QED  BY <1>5 DEF TextCrowded

\* turbopuffer's candidates have their true scores in the legs they are in.
LEMMA TpSought ==
  ASSUME StoreInv, NEW r \in Requests, cfg.vector = "turbopuffer", NEW hits \in TpQuery(r)
  PROVE  Sought(r, hits)
<1> DEFINE ids == Candidates(r)
           score == DenseTo(r, ids)
           texts == IF r.context = NoContext THEN {<<>>}
                    ELSE Ranked(Matching(r), TextScore(r), cfg.topK)
<1>1. {id \in entries : TpMatches(FilterToTp(Filter(r)), id)} = ids
  BY FilterIs DEF Candidates
<1>2. PICK ann \in Ranked(ids, score, cfg.topK), t \in texts : hits = FuseMultiQuery(r, ann, t)
  <2> DEFINE X == {id \in entries : TpMatches(FilterToTp(Filter(r)), id)}
             M == {id \in X : TpBm25(r, id) > 0}
             L == IF r.context = NoContext THEN {<<>>}
                  ELSE Ranked(M, [id \in M |-> TpBm25(r, id)], cfg.topK)
             A == Ranked(X, DenseTo(r, X), cfg.topK)
  <2>1. \E ann \in A, t \in L : hits = FuseMultiQuery(r, ann, t)
    <3>1. TpQuery(r) = {FuseMultiQuery(r, ann, t) : ann \in A, t \in L}
      BY DEF TpQuery
    <3> HIDE DEF A, L
    <3> QED  BY <3>1
  <2>2. X = ids
    BY <1>1
  <2> HIDE DEF X
  <2>3. L = texts
    BY <2>2 DEF Matching, TextScore
  <2> HIDE DEF L, texts, ids
  <2> QED  BY <2>1, <2>2, <2>3
<1>3. /\ IsFiniteSet(ids) /\ \A c \in ids : score[c] \in Int
      /\ cfg.topK \in Nat \ {0} /\ ids \subseteq Requests /\ ids \subseteq entries
  BY CandidatesAre DEF Candidates
<1>4. (\E n : IsList(ann, n)) /\ Range(ann) \subseteq ids
  <2> HIDE DEF ids, score
  <2> QED  BY <1>2, <1>3, RankedIs
<1>5. (\E n : IsList(t, n)) /\ Range(t) \subseteq ids
  <2>1. CASE r.context = NoContext
    <3>1. t = <<>>
      BY <2>1
    <3>2. IsList(t, 0) /\ Range(t) = {}
      BY <3>1 DEF IsList, Range
    <3> QED  BY <3>2
  <2>2. CASE r.context # NoContext
    <3> DEFINE m == Matching(r)
               v == TextScore(r)
    <3>1. IsFiniteSet(m) /\ (\A c \in m : v[c] \in Int) /\ m \subseteq ids
      <4>1. m \subseteq ids
        BY DEF Matching
      <4>2. IsFiniteSet(m)
        BY <1>3, <4>1, FS_Subset
      <4> QED  BY <4>1, <4>2, <1>3, TpBm25Type DEF TextScore
    <3>2. t \in Ranked(m, v, cfg.topK)
      BY <2>2
    <3> HIDE DEF m, v
    <3>3. (\E n : IsList(t, n)) /\ Range(t) \subseteq m
      BY <1>3, <3>1, <3>2, RankedIs
    <3> QED  BY <3>1, <3>3
  <2> QED  BY <2>1, <2>2
<1>6. PICK q \in Fusions(ids, ann) : hits = [i \in DOMAIN q |-> FusedRow(r, ann, t, q[i])]
  <2> HIDE DEF ids, texts, score
  <2> QED  BY <1>2, <1>4, <1>5, FuseIs
<1>7. /\ q \in Seq(ids) /\ Range(ann) \subseteq Range(q)
      /\ DOMAIN hits = DOMAIN q
      /\ \A i \in DOMAIN q : q[i] \in ids /\ hits[i] = FusedRow(r, ann, t, q[i])
  BY <1>6 DEF Fusions
<1> HIDE DEF texts, score
<1>8. \E n : IsList(hits, n)
  <2>1. Len(q) \in Nat /\ DOMAIN q = 1..Len(q)
    BY <1>7
  <2>2. IsList(hits, Len(q))
    BY <1>6, <2>1 DEF IsList
  <2> QED  BY <2>2
<1>9. \A id : Gated(r) => ContextMatch(r, id) = SquashBm25(TpBm25(r, id))
  BY DEF Gated, ContextMatch
<1>10. ASSUME NEW id \in ids
       PROVE  Cosine(r, id) \in Int /\ SquashBm25(TpBm25(r, id)) \in Nat
  BY <1>3, <1>10, CosineType, TpBm25Type, SquashType
<1>11. ASSUME NEW i \in DOMAIN hits  PROVE Faithful(r, hits[i])
  <2>1. q[i] \in ids /\ hits[i] = FusedRow(r, ann, t, q[i])
    BY <1>7
  <2>2. /\ hits[i].id = q[i]
        /\ hits[i].dense = IF q[i] \in Range(ann) THEN Cosine(r, q[i]) ELSE 0
        /\ hits[i].sparse = IF q[i] \in Range(t) THEN SquashBm25(TpBm25(r, q[i])) ELSE 0
    BY <2>1 DEF FusedRow, Cosine
  <2>3. hits[i].dense \in Int
    BY <1>10, <2>1, <2>2
  <2> HIDE DEF ids
  <2>4. hits[i].id \in Candidates(r)
    BY <2>1, <2>2 DEF ids
  <2> QED  BY <1>9, <1>10, <2>1, <2>2, <2>3, <2>4 DEF Faithful
<1>12. ASSUME NEW id \in ids
       PROVE  \/ \E i \in DOMAIN hits : Exact(r, hits[i], id)
              \/ DenseCrowded(r, id)
              \/ Gated(r) /\ TextCrowded(r, id)
  <2>1. CASE id \notin Range(ann)
    <3>1. DenseCrowded(r, id)
      BY <1>2, <2>1, DenseCut DEF score
    <3> QED  BY <3>1
  <2>2. CASE id \in Range(ann)
    <3>1. PICK i \in DOMAIN q : q[i] = id
      BY <1>7, <2>2 DEF Range
    <3>2. /\ hits[i].id = id /\ hits[i].dense = Cosine(r, id)
          /\ hits[i].sparse = IF id \in Range(t) THEN SquashBm25(TpBm25(r, id)) ELSE 0
      BY <1>7, <2>2, <3>1 DEF FusedRow, Cosine
    <3>3. CASE ~Gated(r) \/ id \in Range(t)
      <4>1. Exact(r, hits[i], id)
        BY <1>9, <3>2, <3>3 DEF Exact
      <4> QED  BY <1>7, <4>1
    <3>4. CASE Gated(r) /\ id \notin Range(t)
      <4>1. t \in Ranked(Matching(r), TextScore(r), cfg.topK)
        BY <1>2, <3>4 DEF texts, Gated
      <4>2. CASE id \in Matching(r)
        BY <3>4, <4>1, <4>2, TextCut
      <4>3. CASE id \notin Matching(r)
        <5>1. TpBm25(r, id) \in Nat
          BY <1>3, TpBm25Type
        <5>2. TpBm25(r, id) = 0
          BY <4>3, <5>1 DEF Matching
        <5>3. Exact(r, hits[i], id)
          BY <1>9, <3>2, <3>4, <5>2, SquashType DEF Exact
        <5> QED  BY <1>7, <5>3
      <4> QED  BY <4>2, <4>3
    <3> QED  BY <3>3, <3>4
  <2> QED  BY <2>1, <2>2
<1> QED  BY <1>8, <1>11, <1>12 DEF Sought

-----------------------------------------------------------------------------
(* Lookups *)

\* On turbopuffer a floor of 0 accepts a row that only the text leg found, at a
\* dense score of 0 whatever its cosine; the theorems are about the others.
PositiveFloors ==
  \A c \in Configs : c.vector = "turbopuffer" => c.threshold > 0 /\ c.contextThreshold > 0

Floor(r) == IF Gated(r) THEN cfg.contextThreshold ELSE cfg.threshold

LEMMA AcceptIs ==
  ASSUME NEW r, NEW E, NEW hit
  PROVE  Accept(r, E, hit) <=> /\ EntitiesMatch(E, EntryEntities(hit.id))
                               /\ Gated(r) => hit.sparse >= cfg.contextGate
                               /\ hit.dense >= Floor(r)
BY DEF Accept, EntitiesMatch, Floor

LEMMA AdmissibleIs ==
  ASSUME NEW r \in Requests, NEW id
  PROVE  /\ Admissible(r, id) <=>
              /\ r.keys \subseteq id.keys
              /\ EntitiesMatch(ExtractEntities(r, TRUE), EntryEntities(id))
              /\ Gated(r) => ContextMatch(r, id) >= cfg.contextGate
              /\ Cosine(r, id) >= Floor(r)
         /\ Admissible(r, id) => Passes(Filter(r), id)
         /\ Passes(Filter(r), id) => r.keys \subseteq id.keys
<1> DEFINE E == ExtractEntities(r, TRUE)
           F == EntryEntities(id)
<1>1. IsFiniteSet(E)
  BY EntitiesFinite
<1>2. Admissible(r, id) <=>
        /\ r.keys \subseteq id.keys
        /\ E = {} \/ (Cardinality(E \cap F) >= 1 /\ 3 * Cardinality(E \cap F) >= Cardinality(E) - 2)
        /\ Gated(r) => ContextMatch(r, id) >= cfg.contextGate
        /\ Cosine(r, id) >= Floor(r)
  BY DEF Admissible, Cosine, Floor
<1>3. Filter(r).keysAll = r.keys /\ Filter(r).entitiesAny \in {E, {}}
  BY DEF Filter
<1>4. Passes(Filter(r), id) <=> /\ r.keys \subseteq id.keys
                                /\ \/ Filter(r).entitiesAny = {}
                                   \/ Filter(r).entitiesAny \cap F # {}
  BY <1>3 DEF Passes
<1> HIDE DEF E, F
<1>5. EntitiesMatch(E, F) <=>
        (E = {} \/ (Cardinality(E \cap F) >= 1 /\ 3 * Cardinality(E \cap F) >= Cardinality(E) - 2))
  BY <1>1, EntitiesMatchIs
<1>6. Cardinality(E \cap F) >= 1 => E \cap F # {}
  BY <1>1, EntitiesMatchIs
<1>7. Admissible(r, id) => Passes(Filter(r), id)
  BY <1>2, <1>3, <1>4, <1>6
<1> QED  BY <1>2, <1>4, <1>5, <1>7 DEF E, F

\* What a lookup must answer, in terms of the store: with an entry the gates
\* admit, none of which that the search kept is denser ...
RightAnswer(r, hit) ==
  /\ hit # NoHit => hit \in entries /\ Admissible(r, hit)
  /\ \A id \in entries : Admissible(r, id) =>
       \/ hit # NoHit /\ Cosine(r, hit) >= Cosine(r, id)
       \/ DenseCrowded(r, id)
       \/ Gated(r) /\ TextCrowded(r, id)

\* ... and with some entry, if the search kept one.
Answered(r, hit) ==
  \A id \in entries : Admissible(r, id) =>
    \/ hit # NoHit
    \/ DenseCrowded(r, id)
    \/ Gated(r) /\ TextCrowded(r, id)

LEMMA MatchIs ==
  ASSUME StoreInv, NEW r \in Requests, NEW hit \in FindMatch(r)
  PROVE  Answered(r, hit) /\ (PositiveFloors => RightAnswer(r, hit))
<1>1. PICK hits \in Query(r) :
        hit = IF Select(r, hits) = 0 THEN NoHit ELSE hits[Select(r, hits)].id
  BY DEF FindMatch
<1>2. cfg \in Configs /\ cfg.vector \in {"memory", "turbopuffer"}
  BY ConfigAssumption DEF StoreInv
<1>3. Sought(r, hits)
  <2>1. CASE cfg.vector = "memory"
    BY <2>1, MemorySought DEF Query
  <2>2. CASE cfg.vector = "turbopuffer"
    BY <2>2, TpSought DEF Query
  <2> QED  BY <1>2, <2>1, <2>2
<1> DEFINE k == Select(r, hits)
           A == Accepted(r, hits)
           E == ExtractEntities(r, TRUE)
<1>4. PICK N : IsList(hits, N)
  BY <1>3 DEF Sought
<1>5. DOMAIN hits = 1..N
  BY <1>4 DEF IsList
<1>6. \A i \in 1..N : Faithful(r, hits[i]) /\ hits[i].dense \in Int
  BY <1>3, <1>5 DEF Sought, Faithful
<1>7. /\ k \in 0..N /\ (k # 0 => k \in A)
      /\ \A i \in A : k # 0 /\ hits[k].dense >= hits[i].dense
  BY <1>4, <1>6, SelectIs
<1>8. \A i : i \in A <=> i \in 1..N /\ Accept(r, E, hits[i])
  BY <1>5 DEF Accepted
<1> HIDE DEF k, A, E
<1>9. hit = IF k = 0 THEN NoHit ELSE hits[k].id
  BY <1>1 DEF k
<1>10. ASSUME NEW i \in A
       PROVE  /\ hits[i].id \in entries /\ hits[i].id # NoHit
              /\ Passes(Filter(r), hits[i].id) /\ Faithful(r, hits[i])
  BY <1>6, <1>8, RequestsAssumption DEF Faithful, Candidates, StoreInv
<1>11. ASSUME NEW id \in entries, Admissible(r, id),
              ~DenseCrowded(r, id), ~(Gated(r) /\ TextCrowded(r, id))
       PROVE  hit = hits[k].id /\ hit # NoHit /\ k \in A /\ hits[k].dense >= Cosine(r, id)
  <2>1. id \in Candidates(r)
    BY <1>11, AdmissibleIs DEF Candidates
  <2>2. PICK i \in 1..N : Exact(r, hits[i], id)
    BY <1>3, <1>5, <1>11, <2>1 DEF Sought
  <2>3. /\ EntitiesMatch(E, EntryEntities(id)) /\ Cosine(r, id) >= Floor(r)
        /\ Gated(r) => ContextMatch(r, id) >= cfg.contextGate
    BY <1>11, AdmissibleIs DEF E
  <2>4. i \in A
    <3>1. Accept(r, E, hits[i])
      BY <2>2, <2>3, AcceptIs DEF Exact
    <3> QED  BY <1>8, <3>1
  <2>5. k # 0 /\ hits[k].dense >= hits[i].dense /\ k \in A
    BY <1>7, <2>4
  <2> QED  BY <1>9, <1>10, <2>2, <2>5 DEF Exact
<1>12. ASSUME PositiveFloors  PROVE RightAnswer(r, hit)
  <2>1. Floor(r) \in Nat /\ (cfg.vector = "turbopuffer" => Floor(r) > 0) /\ cfg.contextGate \in Nat
    <3>1. {cfg.threshold, cfg.contextGate, cfg.contextThreshold} \subseteq 0..100
      BY <1>2, ConfigAssumption
    <3> QED  BY <1>2, <1>12, <3>1 DEF PositiveFloors, Floor
  <2>2. ASSUME NEW i \in A
        PROVE  /\ hits[i].dense = Cosine(r, hits[i].id)
               /\ Admissible(r, hits[i].id)
    <3> DEFINE id == hits[i].id
    <3>1. /\ EntitiesMatch(E, EntryEntities(id)) /\ hits[i].dense >= Floor(r)
          /\ Gated(r) => hits[i].sparse >= cfg.contextGate
      BY <1>8, AcceptIs
    <3>2. hits[i].dense = Cosine(r, id)
      BY <1>10, <2>1, <3>1 DEF Faithful
    <3>3. Gated(r) => ContextMatch(r, id) >= cfg.contextGate
      BY <1>10, <2>1, <3>1 DEF Faithful
    <3> QED  BY <1>10, <3>1, <3>2, <3>3, AdmissibleIs DEF E
  <2>3. hit # NoHit => hit \in entries /\ Admissible(r, hit)
    BY <1>7, <1>9, <1>10, <2>2
  <2> QED  BY <1>11, <2>2, <2>3 DEF RightAnswer
<1> QED  BY <1>11, <1>12 DEF Answered

\* A step that leaves the store alone leaves its judgements alone.
LEMMA SameJudgement ==
  ASSUME UNCHANGED <<cfg, entries, bm25>>, NEW r, NEW id
  PROVE  /\ Admissible(r, id)' <=> Admissible(r, id)
         /\ DenseCrowded(r, id)' <=> DenseCrowded(r, id)
         /\ TextCrowded(r, id)' <=> TextCrowded(r, id)
         /\ Gated(r)' <=> Gated(r)
<1>1. Gated(r)' <=> Gated(r)
  BY DEF Gated
<1>2. \A q, fast : ExtractEntities(q, fast)' = ExtractEntities(q, fast)
  BY DEF ExtractEntities, Extract
<1>3. \A q : EntryEntities(q)' = EntryEntities(q)
  BY <1>2 DEF EntryEntities
<1>4. \A q : TpBm25(r, q)' = TpBm25(r, q)
  BY DEF TpBm25
<1>5. ContextMatch(r, id)' = ContextMatch(r, id)
  BY <1>4 DEF ContextMatch
<1>6. Admissible(r, id)' <=> Admissible(r, id)
  BY <1>1, <1>2, <1>3, <1>5 DEF Admissible
<1>7. Filter(r)' = Filter(r)
  BY <1>2 DEF Filter
<1>8. Rivals(r, id)' = Rivals(r, id)
  BY <1>3, <1>7 DEF Rivals, Passes
<1>9. DenseCrowded(r, id)' <=> DenseCrowded(r, id)
  BY <1>8 DEF DenseCrowded
<1>10. TextCrowded(r, id)' <=> TextCrowded(r, id)
  BY <1>4, <1>8 DEF TextCrowded
<1> QED  BY <1>1, <1>6, <1>9, <1>10

LEMMA SameAnswer ==
  ASSUME UNCHANGED <<cfg, entries, bm25>>, NEW r, NEW hit
  PROVE  /\ Answered(r, hit) => Answered(r, hit)'
         /\ RightAnswer(r, hit) => RightAnswer(r, hit)'
<1>1. ASSUME Answered(r, hit)  PROVE Answered(r, hit)'
  BY <1>1, SameJudgement DEF Answered
<1>2. ASSUME RightAnswer(r, hit)  PROVE RightAnswer(r, hit)'
  BY <1>2, SameJudgement DEF RightAnswer, Cosine
<1> QED  BY <1>1, <1>2

LookupInv ==
  /\ StoreInv
  /\ last.op = "get" =>
       /\ last.request \in Requests
       /\ Answered(last.request, last.hit)
       /\ PositiveFloors => RightAnswer(last.request, last.hit)

LEMMA LookupStep ==
  ASSUME LookupInv, [Next]_vars
  PROVE  LookupInv'
<1>1. StoreInv /\ StoreInv'
  BY StoreStep DEF LookupInv
<1>2. CASE UNCHANGED vars
  <2>1. PICK r, hit : r = last.request /\ hit = last.hit
    OBVIOUS
  <2>2. last.op = "get" => /\ r \in Requests /\ Answered(r, hit)'
                           /\ PositiveFloors => RightAnswer(r, hit)'
    BY <1>2, <2>1, SameAnswer DEF vars, LookupInv
  <2>3. r = last'.request /\ hit = last'.hit
    BY <1>2, <2>1 DEF vars
  <2> QED  BY <1>1, <1>2, <2>2, <2>3 DEF vars, LookupInv, PositiveFloors
<1>3. ASSUME NEW r \in Requests, Set(r)  PROVE LookupInv'
  <2>1. last'.op # "get"
    BY <1>3 DEF Set, NoLookup
  <2> QED  BY <1>1, <2>1 DEF LookupInv
<1>4. ASSUME NEW r \in Requests, Delete(r)  PROVE LookupInv'
  <2>1. last'.op # "get"
    BY <1>4 DEF Delete
  <2> QED  BY <1>1, <2>1 DEF LookupInv
<1>5. ASSUME NEW r \in Requests, Get(r)  PROVE LookupInv'
  <2>1. PICK hit \in FindMatch(r) :
          /\ last' = [op |-> "get", request |-> r, hit |-> hit]
          /\ UNCHANGED <<cfg, entries, bm25>>
    BY <1>5 DEF Get
  <2>2. Answered(r, hit) /\ (PositiveFloors => RightAnswer(r, hit))
    BY <1>1, MatchIs
  <2>3. Answered(r, hit)' /\ (PositiveFloors => RightAnswer(r, hit)')
    BY <2>1, <2>2, SameAnswer
  <2>4. last'.request = r /\ last'.hit = hit
    BY <2>1
  <2> QED  BY <1>1, <2>3, <2>4 DEF LookupInv, PositiveFloors
<1> QED  BY <1>2, <1>3, <1>4, <1>5 DEF Next

LEMMA LookupAlways == Spec => []LookupInv
<1>1. Init => LookupInv
  <2>1. Init => last.op # "get"
    BY DEF Init, NoLookup
  <2> QED  BY <2>1, InitStore DEF LookupInv
<1>2. LookupInv /\ [Next]_vars => LookupInv'
  BY LookupStep
<1> QED  BY <1>1, <1>2, PTL DEF Spec

\* A Get never answers with an entry that a gate forbids, whichever store
\* searched, however its ties came and whatever the search cut (scoring.rs).
THEOREM NoFalseHitCorrect ==
  ASSUME PositiveFloors
  PROVE  Spec => []NoFalseHit
<1>1. LookupInv => NoFalseHit
  BY DEF LookupInv, RightAnswer, NoFalseHit
<1> QED  BY <1>1, LookupAlways, PTL

\* A Get misses an admissible entry, or prefers a less similar one to it, only if
\* a leg of the search cut it (vector_memory.rs:220, vector_turbopuffer.rs:379).
THEOREM BestUnlessCutCorrect ==
  ASSUME PositiveFloors
  PROVE  Spec => []BestUnlessCut
<1>1. LookupInv => BestUnlessCut
  BY DEF LookupInv, RightAnswer, BestUnlessCut, Cosine
<1> QED  BY <1>1, LookupAlways, PTL

\* A Del takes out at most one entry, and one a Get of the same request could
\* have answered with (cache.rs, delete).
THEOREM DeleteIsMatchCorrect ==
  ASSUME PositiveFloors
  PROVE  Spec => DeleteIsMatch
<1>1. ASSUME StoreInv, [Next]_vars
      PROVE  [\A gone \in entries \ entries' :
                /\ last'.op = "del" /\ entries \ entries' = {gone}
                /\ Admissible(last'.request, gone)]_vars
  <2>1. SUFFICES ASSUME Next, NEW gone \in entries \ entries'
                 PROVE  /\ last'.op = "del" /\ entries \ entries' = {gone}
                        /\ Admissible(last'.request, gone)
    BY <1>1
  <2>2. PICK r \in Requests : Set(r) \/ Get(r) \/ Delete(r)
    BY <2>1 DEF Next
  <2>3. ~Set(r) /\ ~Get(r)
    BY <2>1 DEF Set, Get
  <2>4. PICK hit \in FindMatch(r) : /\ last' = [op |-> "del", request |-> r, hit |-> hit]
                                    /\ entries' = entries \ {hit}
    BY <2>2, <2>3 DEF Delete
  <2>5. gone = hit /\ entries \ entries' = {gone} /\ hit \in entries
    BY <2>4
  <2>6. hit # NoHit
    BY <1>1, <2>5, RequestsAssumption DEF StoreInv
  <2>7. Admissible(r, hit)
    BY <1>1, <2>6, MatchIs DEF RightAnswer
  <2> QED  BY <2>4, <2>5, <2>7
<1>2. Init => StoreInv
  BY InitStore
<1>3. StoreInv /\ [Next]_vars => StoreInv'
  BY StoreStep
<1> QED  BY <1>1, <1>2, <1>3, PTL DEF Spec, DeleteIsMatch

-----------------------------------------------------------------------------
(* The very request *)

\* The fast pass finds no more than the full one.
LEMMA FastIsLess ==
  ASSUME NEW t \in DOMAIN Spans
  PROVE  Extract(t, TRUE) \subseteq Extract(t, FALSE)
<1>1. KeywordExtract(t, TRUE) \subseteq KeywordExtract(t, FALSE)
  BY DEF KeywordExtract, Normalized
<1>2. GlinerExtract(t, TRUE) \subseteq GlinerExtract(t, FALSE)
  <2>1. \A i \in DOMAIN Spans[t] : Spans[t][i].score >= 85 => Spans[t][i].score >= 50
    BY TextAssumption
  <2> QED  BY <2>1 DEF GlinerExtract, EntitiesFromSpans, Normalized, FastCutoff, FullThreshold
<1> QED  BY <1>1, <1>2 DEF Extract

\* Unless the fast pass falls back, a request's entities are among the ones it
\* is stored with, and an entry answers its own request but for the context.
LEMMA OwnEntry ==
  ASSUME StoreInv, NEW r \in Requests, r \in entries,
         ~(cfg.extractor = "gliner" /\ FastFallsBack(r)),
         Gated(r) => ContextMatch(r, r) >= cfg.contextGate
  PROVE  Admissible(r, r)
<1> DEFINE E == ExtractEntities(r, TRUE)
           F == EntryEntities(r)
<1>1. r.query \in DOMAIN Spans /\ (r.context # NoContext => r.context \in DOMAIN Spans)
  BY RequestsAssumption
<1>2. /\ Extract(r.query, TRUE) \subseteq Extract(r.query, FALSE)
      /\ r.context # NoContext => Extract(r.context, TRUE) \subseteq Extract(r.context, FALSE)
  BY <1>1, FastIsLess
<1>3. ~FastFallsBack(r)
  <2>1. CASE cfg.extractor = "keyword"
    BY <1>1, <2>1, KeywordAssumption DEF FastFallsBack, Extract
  <2>2. CASE cfg.extractor = "gliner"
    BY <2>2
  <2> QED  BY <2>1, <2>2, ConfigAssumption DEF StoreInv
<1>4. E \subseteq F
  BY <1>2, <1>3 DEF ExtractEntities, EntryEntities, FastFallsBack
<1>5. EntitiesMatch(E, F)
  <2>1. IsFiniteSet(E) /\ E \cap F = E
    BY <1>4, EntitiesFinite
  <2>2. Cardinality(E) \in Nat /\ (Cardinality(E) = 0 => E = {})
    BY <2>1, FS_CardinalityType, FS_EmptySet
  <2> HIDE DEF E, F
  <2>3. E = {} \/ (Cardinality(E) >= 1 /\ 3 * Cardinality(E) >= Cardinality(E) - 2)
    BY <2>2
  <2> QED  BY <2>1, <2>3, EntitiesMatchIs
<1>6. Cosine(r, r) >= Floor(r)
  <2>1. Cosine(r, r) = 100
    BY RequestsAssumption, DenseAssumption DEF Cosine
  <2>2. {cfg.threshold, cfg.contextGate, cfg.contextThreshold} \subseteq 0..100
    BY ConfigAssumption DEF StoreInv
  <2> QED  BY <2>1, <2>2 DEF Floor
<1> QED  BY <1>5, <1>6, AdmissibleIs

\* A repeated request misses only when the search cuts its own entry, GLiNER's
\* confident pass falls back to the context, or the gate is above what the
\* context scores against itself (cache.rs, get after set).
THEOREM RepeatHitsCorrect == Spec => []RepeatHits
<1>1. LookupInv => RepeatHits
  <2> SUFFICES ASSUME LookupInv, last.op = "get", last.request \in entries, last.hit = NoHit,
                      NEW r, r = last.request,
                      ~(cfg.extractor = "gliner" /\ FastFallsBack(r)),
                      ~(Gated(r) /\ ~(ContextMatch(r, r) >= cfg.contextGate))
               PROVE  DenseCrowded(r, r) \/ (Gated(r) /\ TextCrowded(r, r))
    BY DEF RepeatHits, Derive
  <2>1. StoreInv /\ r \in Requests /\ r \in entries /\ Answered(r, NoHit)
    BY DEF LookupInv
  <2>2. Admissible(r, r) => DenseCrowded(r, r) \/ (Gated(r) /\ TextCrowded(r, r))
    BY <2>1 DEF Answered
  <2>3. Gated(r) => ContextMatch(r, r) >= cfg.contextGate
    OBVIOUS
  <2> QED  BY <2>1, <2>2, <2>3, OwnEntry
<1> QED  BY <1>1, LookupAlways, PTL
=============================================================================
