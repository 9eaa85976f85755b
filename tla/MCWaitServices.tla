--------------------------- MODULE MCWaitServices ---------------------------
(* Model of WaitServices: one service of each kind, in the script's order. *)
EXTENDS WaitServices

ThreeServices == <<"qdrant", "bigtable", "postgres">>
Kinds == [qdrant |-> "http", bigtable |-> "tcp", postgres |-> "postgres"]
Attempts == [qdrant |-> 3, bigtable |-> 3, postgres |-> 6]
=============================================================================
