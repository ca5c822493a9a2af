----------------------------- MODULE MCSession -----------------------------
(* Two handles on one namespace: two calls on the first, one on the second. *)
EXTENDS Session

MCHandles == {"h1", "h2"}
MCNamespaces == {"n"}
MCName == [h \in MCHandles |-> "n"]
MCCalls == {"c1", "c2", "c3"}
MCOwner == [c \in MCCalls |-> IF c = "c3" THEN "h2" ELSE "h1"]
MCKind == [c \in MCCalls |-> IF c = "c3" THEN "set" ELSE "get"]
=============================================================================
