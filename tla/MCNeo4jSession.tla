--------------------------- MODULE MCNeo4jSession ---------------------------
(* Model of Neo4jSession: one label, one constraint.                       *)
EXTENDS Neo4jSession

PersonLabel == {"Person"}
EmailConstraint == {"unique_email"}
=============================================================================
