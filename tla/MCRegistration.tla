--------------------------- MODULE MCRegistration ---------------------------
(***************************************************************************)
(* An instance of Registration for TLC: a default, two hosted and four     *)
(* broken configurations, hosts with and without what they need, and query *)
(* arguments that differ in whitespace only, or in whether a word is a key *)
(* or the context.                                                         *)
(***************************************************************************)
EXTENDS Registration

MCTrim == [s \in {"ns", " ns", "..", " ", "q", "q ", "a", " a", ""} |->
             CASE s = " ns" -> "ns" [] s = "q " -> "q" [] s = " a" -> "a" [] s = " " -> "" [] OTHER -> s]

With(emb, ent, vec, obj) == [embedding |-> emb, entity |-> ent, vector |-> vec, object |-> obj]
S3In(bucket) == S3Storage(bucket, None, None, None)
MCBackends == {With(None, None, None, None),
               With(VoyageEmbedding(None, None), GlinerEntities(None, None, "path", None),
                    TurbopufferVectors, S3In("b")),
               With(VoyageEmbedding(None, 0), KeywordEntities("en"), MemoryVectors, DiskStorage("dir")),
               With(LocalEmbedding("odd"), None, None, S3In(None)),
               With(LocalEmbedding("bge"), GlinerEntities(<<"city">>, "repo", "missing", "path"),
                    None, None),
               With(VoyageEmbedding("large", 512), None, TurbopufferVectors, None),
               With(LocalEmbedding("bge"), KeywordEntities("xx"), TurbopufferVectors, S3In(None))}

Args(t, g, c, k, m) ==
  [threshold |-> t, contextGate |-> g, contextThreshold |-> c, topK |-> k, context |-> m]
MCScorings == {Args(None, None, None, None, None), Args(80, None, None, None, None),
               Args(80, 0, 80, 1, "ignore"), Args(None, None, None, 0, None)}

MCRawQueries == {[query |-> "q", keys |-> {}, context |-> None],
                 [query |-> "q ", keys |-> {"a"}, context |-> None],
                 [query |-> "q", keys |-> {"a", " a"}, context |-> None],
                 [query |-> "q", keys |-> {}, context |-> " a"],
                 [query |-> "q", keys |-> {"a", "ns"}, context |-> "a"],
                 [query |-> " ", keys |-> {}, context |-> None],
                 [query |-> "q", keys |-> {" "}, context |-> " "]}

AwsKeys == {"AWS_ACCESS_KEY_ID", "AWS_SECRET_ACCESS_KEY"}
MCHosts == {[features |-> {"local", "voyage", "keyword", "turbopuffer", "s3"},
             env |-> {"HOME"}, hub |-> TRUE],
            [features |-> {"local", "voyage", "keyword", "turbopuffer", "s3", "gliner"},
             env |-> {"HOME", "VOYAGE_API_KEY", "TURBOPUFFER_API_KEY", "AWS_REGION"} \cup AwsKeys,
             hub |-> TRUE],
            [features |-> {"local", "voyage", "keyword", "gliner", "s3"},
             env |-> {"VOYAGE_API_KEY", "TURBOPUFFER_API_KEY", "HOME"}, hub |-> FALSE]}
=============================================================================
