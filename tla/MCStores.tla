------------------------------ MODULE MCStores ------------------------------
(***************************************************************************)
(* An instance of Stores for TLC: every combination of backends.           *)
(***************************************************************************)
EXTENDS Stores

AllBackends == [object : {"disk", "s3"}, vector : {"memory", "turbopuffer"}]
=============================================================================
