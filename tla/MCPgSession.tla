---------------------------- MODULE MCPgSession ----------------------------
(* Models of PgSession: the statements of the transaction e2e test.        *)
EXTENDS PgSession

CONSTANT r1, r2

Stmt(op) == [op |-> op, row |-> r1]
Insert(r) == [op |-> "INSERT", row |-> r]

Control == {Stmt("BEGIN"), Stmt("COMMIT"), Stmt("ROLLBACK")}

\* Statements whose errors are all reported before the first row.
PlainStatements == Control \cup {Stmt("SELECT"), Insert(r1), Insert(r2)}
\* And a SELECT that fails on one of its rows.
RowErrorStatements == PlainStatements \cup {Stmt("FAILING")}
AllStatements == PlainStatements \cup {Stmt("FAILING"), Stmt("EMPTY")}
=============================================================================
