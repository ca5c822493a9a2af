---------------------------- MODULE MCRetrieval ----------------------------
(***************************************************************************)
(* An instance of Retrieval for TLC: two queries close to each other and   *)
(* one apart, three contexts of which two share a word and one is long,    *)
(* and texts whose entities only the full pass finds.                      *)
(***************************************************************************)
EXTENDS Retrieval

MCWords == [brief |-> <<"Tax", "law">>,
            long  |-> <<"tax", "form", "form", "post", "box", "mail", "desk">>,
            other |-> <<"Kernel">>]
MCLower == [w \in {"Tax", "tax", "law", "form", "post", "box", "mail", "desk", "Kernel"} |->
              CASE w = "Tax" -> "tax" [] w = "Kernel" -> "kernel" [] OTHER -> w]

MCDense == [q1 |-> [q1 |-> 100, q2 |-> 94, q3 |-> 30],
            q2 |-> [q1 |-> 94, q2 |-> 100, q3 |-> 89],
            q3 |-> [q1 |-> 30, q2 |-> 89, q3 |-> 100]]

Span(t, s) == [text |-> t, score |-> s]
MCSpans == [q1    |-> <<Span("Paris", 95), Span("paris ", 90), Span("a", 60)>>,
            q2    |-> <<Span("PARIS", 90), Span(" ", 88), Span("a", 90), Span("b", 90),
                        Span("c", 87), Span("d", 86), Span("e", 85)>>,
            q3    |-> <<Span("a", 60)>>,
            brief |-> <<Span("irs", 99)>>,
            long  |-> <<Span("irs", 88), Span("a", 70)>>,
            other |-> <<>>]
MCNorm == [s \in {"Paris", "paris ", "PARIS", "a", "b", "c", "d", "e", "irs", " "} |->
             CASE s \in {"Paris", "paris ", "PARIS"} -> "paris"
               [] s = " " -> NoEntity [] OTHER -> s]

MCIdfTable == << <<139, 29>>,
                 <<179, 69, 18>>,
                 <<208, 98, 47, 13>>,
                 <<230, 120, 69, 36, 11>>,
                 <<248, 139, 88, 54, 29, 9>>,
                 <<264, 154, 103, 69, 44, 24, 7>> >>

\* A BM25 over the rows' contexts, of the same form as the memory store's.
MCTpScore(rows, c, id) == (22 * Earned(IndexOf(rows), id, TermSet(c))) \div 1000

Req(q, k, c) == [query |-> q, keys |-> k, context |-> c]
MCRequests == {Req("q1", {}, NoContext),  Req("q1", {"k"}, "brief"), Req("q1", {}, "long"),
               Req("q2", {}, "brief"),    Req("q2", {"k"}, NoContext),
               Req("q3", {}, "brief"),    Req("q3", {}, "other")}

\* The default thresholds, with room for two candidates.
Config(e, v, filter, mode) ==
  [extractor |-> e, vector |-> v, entityFilter |-> filter, context |-> mode,
   threshold |-> 92, contextGate |-> 10, contextThreshold |-> 88, topK |-> 2]
MCConfigs == {Config("keyword", "memory", TRUE, "gate"),
              Config("gliner", "memory", TRUE, "gate"),
              Config("gliner", "memory", FALSE, "gate"),
              Config("keyword", "memory", FALSE, "ignore"),
              Config("keyword", "turbopuffer", TRUE, "gate"),
              Config("gliner", "turbopuffer", FALSE, "gate")}
=============================================================================
